------------------------ MODULE MethodChains_proofs ------------------------
(***************************************************************************)
(* Theorems about MethodChains, for every number of threads and objects,   *)
(* every hierarchy of classes and every choice of the classes that have    *)
(* methods, if nobody else uses the source of an assignment.               *)
(***************************************************************************)
EXTENDS MethodChains, TLAPS

-----------------------------------------------------------------------------
(* Lineages. *)

Closed(S) == \A x \in S : Super[x] # NULL => Super[x] \in S

LEMMA LineageIs ==
  ASSUME NEW c \in Classes, NEW d
  PROVE  IsA(c, d) <=> /\ d \in Classes
                       /\ \A S \in SUBSET Classes :
                            c \in S /\ Closed(S) => d \in S
BY DEF IsA, Lineage, Closed

(* y_is_a finds the class of the object itself.                            *)
LEMMA IsAReflexive ==
  ASSUME NEW c \in Classes
  PROVE  IsA(c, c)
BY LineageIs

(* What an object is, it is by its class or by its superclass.             *)
LEMMA IsAStep ==
  ASSUME NEW c \in Classes, NEW d, IsA(c, d), d # c
  PROVE  Super[c] # NULL /\ Super[c] \in Classes /\ IsA(Super[c], d)
<1>1. d \in Classes /\ \A S \in SUBSET Classes : c \in S /\ Closed(S) => d \in S
  BY LineageIs
<1>2. Super[c] # NULL
  <2> SUFFICES ASSUME Super[c] = NULL
               PROVE  FALSE
    OBVIOUS
  <2>1. {c} \in SUBSET Classes /\ c \in {c} /\ Closed({c})
    BY DEF Closed
  <2>2. d \in {c}
    BY <1>1, <2>1
  <2> QED
    BY <2>2
<1>3. Super[c] \in Classes
  BY <1>2, ChainsAssumption
<1>4. ASSUME NEW S \in SUBSET Classes, Super[c] \in S, Closed(S)
      PROVE  d \in S
  <2>1. S \cup {c} \in SUBSET Classes /\ Closed(S \cup {c})
    BY <1>4 DEF Closed
  <2>2. d \in S \cup {c}
    BY <1>1, <2>1
  <2> QED
    BY <2>2
<1> QED
  BY <1>1, <1>2, <1>3, <1>4, LineageIs

-----------------------------------------------------------------------------
(* The invariant. *)

(* Everything an object of class c is finds its methods in the lists of c. *)
HasAll(list, c, owners) ==
  \A d \in owners : IsA(c, d) => \E j \in 1..Len(list) : list[j] = d

ListInv ==
  \A c \in Classes : class[c] # NULL =>
    /\ HasAll(class[c].init, c, HasInit)
    /\ HasAll(class[c].assign, c, HasAssign)
    /\ HasAll(class[c].clear, c, HasClear)

Running == Steps \ {"idle", "return"}

(* A call that works on its objects, or has just returned one of them.     *)
Active(c) == c.step \in Running \/ c.result # NULL
Busy(t, o) == Active(call[t]) /\ o \in {call[t].to, call[t].from}

(* No two calls work on the same object.                                   *)
BusyInv ==
  \A t \in Threads, o \in Objects : Busy(t, o) =>
    /\ life[o] # "none"
    /\ \A u \in Threads : u # t => ~Busy(u, o)

(* The class of an object is what it was made as, or a call has changed it *)
(* and will put it back.                                                   *)
Sound(o) ==
  life[o] = "alive" =>
    /\ made[o] \in Classes
    /\ class[made[o]] # NULL
    /\ type[o] = made[o] \/ \E t \in Threads : Busy(t, o)

(* What a call has in its hands.                                           *)
FormInv(c) ==
  /\ c.step = "idle" => c = NoCall
  /\ c.step \in Running => c.to \in Objects /\ c.result = NULL
  /\ c.result # NULL => c.step = "return" /\ c.result = c.to
  /\ c.to # NULL => c.to # c.from
  /\ Active(c) /\ c.op \in {"assign", "copy"} => c.from \in Objects
  /\ c.step \in {"alloc", "init", "abandon"} => c.op \in {"create", "copy"}
  /\ c.step \in {"compare", "assign", "exec", "restore", "reject"} =>
       c.op \in {"assign", "copy"}
  /\ c.step = "clear" => c.op # "create"
  /\ c.step = "free" => c.op = "destroy"
  /\ c.step \in {"alloc", "init", "compare", "assign", "exec"} =>
       c.error # "filled" /\ ~c.failed
  /\ c.step = "clear" /\ c.op \in {"assign", "copy"} =>
       c.error # "filled" /\ ~c.failed
  /\ c.step = "alloc" => c.i = 0
  /\ c.step = "restore" => c.failed

(* The object that is made or changed.                                     *)
ToInv(c) ==
  /\ c.step \in {"alloc", "init", "abandon"} => life[c.to] = "making"
  /\ Active(c) /\ c.step \notin {"alloc", "init", "abandon"} =>
       life[c.to] = "alive"
  /\ c.step \in {"alloc", "init", "clear", "assign", "exec", "restore"} =>
       c.type \in Classes /\ class[c.type] # NULL
  /\ c.step \in {"init", "clear", "assign", "exec", "restore"} =>
       made[c.to] = c.type
  /\ Active(c) /\ c.step \in {"compare", "reject", "free", "return"} =>
       type[c.to] = made[c.to]

(* The object that is read.                                                *)
FromInv(c) ==
  Active(c) /\ c.from # NULL =>
    /\ life[c.from] = "alive"
    /\ c.step \notin {"assign", "exec", "restore"} => type[c.from] = made[c.from]
    /\ c.step \in {"assign", "exec", "restore"} => made[c.from] = c.type
    /\ c.step = "clear" /\ c.op \in {"assign", "copy"} => made[c.from] = c.type

(* How far the chain of methods has come.                                  *)
ChainInv(c) ==
  /\ c.step = "init" =>
       /\ c.i <= Len(class[c.type].init)
       /\ c.error # "ignored" =>
            \A j \in 1..c.i : member[c.to][class[c.type].init[j]] = Fresh
  /\ c.step = "clear" =>
       /\ c.i <= Len(class[c.type].clear)
       /\ \A j \in c.i + 1..Len(class[c.type].clear) :
            member[c.to][class[c.type].clear[j]] = Zero
  /\ c.step \in {"assign", "exec"} =>
       /\ c.i <= Len(class[c.type].assign)
       /\ c.error # "ignored" =>
            \A j \in 1..c.i :
              member[c.to][class[c.type].assign[j]] =
                member[c.from][class[c.type].assign[j]]
  /\ c.step = "exec" =>
       /\ c.i < Len(class[c.type].assign)
       /\ type[c.to] = class[c.type].assign[c.i + 1]
       /\ type[c.from] = class[c.type].assign[c.i + 1]
  /\ c.step = "free" =>
       \A d \in HasClear : IsA(made[c.to], d) => member[c.to][d] = Zero
  /\ (/\ c.step = "return" /\ c.result # NULL /\ c.error # "ignored"
      /\ c.op \in {"copy", "assign"}) =>
       /\ made[c.to] = made[c.from]
       /\ \A m \in HasAssign : IsA(made[c.from], m) =>
            member[c.to][m] = member[c.from][m]

CallInv(c) == FormInv(c) /\ ToInv(c) /\ FromInv(c) /\ ChainInv(c)

ChainsInv ==
  /\ Typed
  /\ ListInv
  /\ BusyInv
  /\ \A o \in Objects : Sound(o)
  /\ \A t \in Threads : CallInv(call[t])

-----------------------------------------------------------------------------
(* What a step of one call leaves of the others. *)

Same(o) ==
  /\ life'[o] = life[o] /\ type'[o] = type[o]
  /\ made'[o] = made[o] /\ member'[o] = member[o]

LEMMA CallTypes ==
  ASSUME ChainsInv, NEW t \in Threads
  PROVE  /\ call[t] \in Calls /\ CallInv(call[t])
         /\ call[t].to \in Objects \cup {NULL}
         /\ call[t].from \in Objects \cup {NULL}
         /\ call[t].type \in Classes \cup {NULL}
         /\ call[t].i \in Nat
         /\ Active(call[t]) => call[t].to \in Objects
<1>1. call[t] \in Calls /\ CallInv(call[t])
  BY DEF ChainsInv, Typed
<1>2. /\ call[t].to \in Objects \cup {NULL}
      /\ call[t].from \in Objects \cup {NULL}
      /\ call[t].type \in Classes \cup {NULL}
      /\ call[t].i \in Nat
  BY <1>1 DEF Calls
<1> QED
  BY <1>1, <1>2 DEF CallInv, FormInv, Active, Running

(* The objects that a call works on.                                       *)
LEMMA Held ==
  ASSUME ChainsInv, NEW t \in Threads, Active(call[t]),
         NEW o \in Objects, o \in {call[t].to, call[t].from}
  PROVE  /\ life[o] # "none"
         /\ life[o] = "alive" => made[o] \in Classes /\ class[made[o]] # NULL
BY DEF ChainsInv, BusyInv, Busy, Sound

LEMMA OthersKeep ==
  ASSUME ChainsInv, NEW u \in Threads, call'[u] = call[u], UNCHANGED class,
         \A o \in Objects : Busy(u, o) => Same(o)
  PROVE  CallInv(call[u])'
<1>1. PICK c : c = call[u]
  OBVIOUS
<1>2. /\ CallInv(c) /\ c.to \in Objects \cup {NULL}
      /\ c.from \in Objects \cup {NULL} /\ (Active(c) => c.to \in Objects)
  BY <1>1, CallTypes
<1>3. Active(c) => Same(c.to) /\ (c.from # NULL => Same(c.from))
  BY <1>1, <1>2 DEF Busy
<1>4. c.step \in Running => Active(c)
  BY DEF Active
<1>5. ToInv(c)'
  BY <1>2, <1>3, <1>4 DEF CallInv, ToInv, Same, Active, Running, Steps
<1>6. FromInv(c)'
  BY <1>2, <1>3 DEF CallInv, FromInv, Same, Active, Running
<1>7. ChainInv(c)'
  <2>1. /\ c.step \in {"init", "clear", "assign", "exec", "free"} => Active(c)
        /\ c.step = "return" /\ c.result # NULL => Active(c)
    BY <1>4 DEF Running, Steps, Active
  <2>2. /\ c.step \in {"assign", "exec"} => c.from \in Objects /\ c.from # NULL
        /\ (c.step = "return" /\ c.result # NULL /\ c.op \in {"copy", "assign"}) =>
             c.from \in Objects /\ c.from # NULL
    BY <1>2, <2>1, ChainsAssumption DEF CallInv, FormInv
  <2>3. ChainInv(c)
    BY <1>2 DEF CallInv
  <2>4. CASE c.step \in {"init", "clear", "free"}
    <3>1. member'[c.to] = member[c.to] /\ made'[c.to] = made[c.to]
      BY <1>3, <2>1, <2>4 DEF Same
    <3> QED
      BY <2>3, <2>4, <3>1 DEF ChainInv
  <2>5. CASE c.step \in {"assign", "exec"}
    <3>1. /\ member'[c.to] = member[c.to] /\ member'[c.from] = member[c.from]
          /\ type'[c.to] = type[c.to] /\ type'[c.from] = type[c.from]
      BY <1>3, <2>1, <2>2, <2>5 DEF Same
    <3> QED
      BY <2>3, <2>5, <3>1 DEF ChainInv
  <2>6. CASE c.step = "return" /\ c.result # NULL /\ c.op \in {"copy", "assign"}
    <3>1. /\ member'[c.to] = member[c.to] /\ member'[c.from] = member[c.from]
          /\ made'[c.to] = made[c.to] /\ made'[c.from] = made[c.from]
      BY <1>3, <2>1, <2>2, <2>6 DEF Same
    <3> QED
      BY <2>3, <2>6, <3>1 DEF ChainInv
  <2> QED
    BY <2>4, <2>5, <2>6 DEF ChainInv
<1>8. FormInv(c)'
  BY <1>2 DEF CallInv, FormInv, Active, Running
<1> QED
  BY <1>1, <1>5, <1>6, <1>7, <1>8 DEF CallInv

LEMMA OneCall ==
  ASSUME ChainsInv, Typed', UNCHANGED class, NEW t \in Threads, NEW c,
         call' = [call EXCEPT ![t] = c],
         CallInv(c)',
         \A o \in Objects, u \in Threads : u # t /\ Busy(u, o) => Same(o),
         \A o \in Objects : Active(c) /\ o \in {c.to, c.from} =>
           /\ life'[o] # "none"
           /\ \A u \in Threads : u # t => ~Busy(u, o),
         \A o \in Objects : (Busy(t, o) \/ ~Same(o)) /\ life'[o] = "alive" =>
           /\ made'[o] \in Classes
           /\ class[made'[o]] # NULL
           /\ type'[o] = made'[o] \/ (Active(c) /\ o \in {c.to, c.from})
  PROVE  ChainsInv'
<1>1. call'[t] = c /\ \A u \in Threads : u # t => call'[u] = call[u]
  BY DEF ChainsInv, Typed
<1>2. ASSUME NEW o \in Objects
      PROVE  /\ Busy(t, o)' <=> Active(c) /\ o \in {c.to, c.from}
             /\ \A u \in Threads : u # t => (Busy(u, o)' <=> Busy(u, o))
  BY <1>1 DEF Busy, Active
<1>3. BusyInv'
  <2> SUFFICES ASSUME NEW u \in Threads, NEW o \in Objects, Busy(u, o)'
               PROVE  /\ life'[o] # "none"
                      /\ \A v \in Threads : v # u => ~Busy(v, o)'
    BY DEF BusyInv
  <2>1. CASE u = t
    BY <1>2, <2>1
  <2>2. CASE u # t
    <3>1. Busy(u, o) /\ Same(o)
      BY <1>2, <2>2
    <3>2. life[o] # "none" /\ \A v \in Threads : v # u => ~Busy(v, o)
      BY <3>1 DEF ChainsInv, BusyInv
    <3>3. ~Busy(t, o)'
      BY <1>2, <2>2, <3>1
    <3> QED
      BY <1>2, <3>1, <3>2, <3>3 DEF Same
  <2> QED
    BY <2>1, <2>2
<1>4. ASSUME NEW o \in Objects
      PROVE  Sound(o)'
  <2> SUFFICES ASSUME life'[o] = "alive"
               PROVE  /\ made'[o] \in Classes
                      /\ class'[made'[o]] # NULL
                      /\ type'[o] = made'[o] \/ \E u \in Threads : Busy(u, o)'
    BY DEF Sound
  <2>1. CASE Busy(t, o) \/ ~Same(o)
    BY <1>2, <2>1
  <2>2. CASE ~Busy(t, o) /\ Same(o)
    <3>1. Sound(o) /\ life[o] = "alive"
      BY <2>2 DEF ChainsInv, Same
    <3> QED
      BY <1>2, <2>2, <3>1 DEF Sound, Same
  <2> QED
    BY <2>1, <2>2
<1>5. ASSUME NEW u \in Threads
      PROVE  CallInv(call[u])'
  <2>1. CASE u = t
    BY <1>1, <2>1
  <2>2. CASE u # t
    BY <1>1, <2>2, OthersKeep
  <2> QED
    BY <2>1, <2>2
<1>6. ListInv'
  BY DEF ChainsInv, ListInv, HasAll
<1> QED
  BY <1>3, <1>4, <1>5, <1>6 DEF ChainsInv

(* A call goes on with the objects it has.                                 *)
LEMMA Continued ==
  ASSUME ChainsInv, Typed', UNCHANGED class, NEW t \in Threads, NEW c,
         call' = [call EXCEPT ![t] = c],
         Active(call[t]), Active(c), c.to = call[t].to, c.from = call[t].from,
         CallInv(c)',
         \A o \in Objects \ {c.to, c.from} : Same(o),
         \A o \in Objects : o \in {c.to, c.from} =>
           /\ life'[o] # "none"
           /\ life'[o] = "alive" => made'[o] \in Classes /\ class[made'[o]] # NULL
  PROVE  ChainsInv'
<1>1. \A o \in Objects : Busy(t, o) <=> o \in {c.to, c.from}
  BY DEF Busy
<1>2. \A o \in Objects, u \in Threads :
        u # t /\ Busy(u, o) => ~Busy(t, o)
  BY DEF ChainsInv, BusyInv
<1> QED
  BY <1>1, <1>2, OneCall

(* A call lets go of its objects.                                          *)
LEMMA Ended ==
  ASSUME ChainsInv, Typed', UNCHANGED class, NEW t \in Threads, NEW c,
         call' = [call EXCEPT ![t] = c],
         ~Active(c), CallInv(c)',
         \A o \in Objects : ~Busy(t, o) => Same(o),
         \A o \in Objects : Busy(t, o) /\ life'[o] = "alive" =>
           made'[o] \in Classes /\ class[made'[o]] # NULL /\ type'[o] = made'[o]
  PROVE  ChainsInv'
<1>1. \A o \in Objects, u \in Threads :
        u # t /\ Busy(u, o) => ~Busy(t, o)
  BY DEF ChainsInv, BusyInv
<1> QED
  BY <1>1, OneCall

-----------------------------------------------------------------------------
(* The steps of y_create. *)

LEMMA AllocateInv ==
  ASSUME ChainsInv, NEW t \in Threads, Allocate(t)
  PROVE  ChainsInv'
<1> DEFINE b == call[t]
<1>1. /\ b \in Calls /\ CallInv(b) /\ b.step = "alloc" /\ Active(b)
      /\ b.to \in Objects /\ b.from \in Objects \cup {NULL}
      /\ b.type \in Classes /\ class[b.type] # NULL /\ life[b.to] = "making"
  BY CallTypes DEF Allocate, At, CallInv, FormInv, ToInv, Active, Running, Steps
<1>2. PICK c : c = [b EXCEPT !.step = "init"]
  OBVIOUS
<1>3. /\ c \in Calls /\ c.step = "init" /\ c.to = b.to /\ c.from = b.from
      /\ c.op = b.op /\ c.type = b.type /\ c.i = b.i /\ c.error = b.error
      /\ c.failed = b.failed /\ c.result = b.result /\ Active(c)
  BY <1>1, <1>2 DEF Calls, Steps, Active, Running
<1>4. /\ call' = [call EXCEPT ![t] = c] /\ UNCHANGED <<class, life, member, calls>>
      /\ type' = [type EXCEPT ![b.to] = b.type]
      /\ made' = [made EXCEPT ![b.to] = b.type]
  BY <1>2 DEF Allocate, Goto
<1> HIDE DEF b
<1>5. Typed'
  BY <1>1, <1>3, <1>4 DEF ChainsInv, Typed
<1>6. /\ type'[c.to] = c.type /\ made'[c.to] = c.type
      /\ \A o \in Objects : o # c.to => Same(o)
  BY <1>1, <1>3, <1>4 DEF ChainsInv, Typed, Same
<1>7. FormInv(c)'
  BY <1>1, <1>3 DEF CallInv, FormInv, Active, Running
<1>8. ToInv(c)'
  BY <1>1, <1>3, <1>4, <1>6 DEF ToInv
<1>9. FromInv(c)'
  BY <1>1, <1>3, <1>6 DEF CallInv, FormInv, FromInv, Same
<1>10. ChainInv(c)'
  <2>1. c.i = 0 /\ Len(class'[c.type].init) \in Nat
    BY <1>1, <1>3, <1>4 DEF CallInv, FormInv, ChainsInv, Typed, MethodLists
  <2> QED
    BY <1>3, <2>1 DEF ChainInv
<1>11. \A o \in Objects : o \in {c.to, c.from} =>
         /\ life'[o] # "none"
         /\ life'[o] = "alive" => made'[o] \in Classes /\ class[made'[o]] # NULL
  <2> SUFFICES ASSUME NEW o \in Objects, o \in {c.to, c.from}
               PROVE  /\ life'[o] # "none"
                      /\ life'[o] = "alive" =>
                           made'[o] \in Classes /\ class[made'[o]] # NULL
    OBVIOUS
  <2>1. CASE o = c.to
    BY <1>1, <1>3, <1>4, <1>6, <2>1
  <2>2. CASE o # c.to
    BY <1>1, <1>3, <1>6, <2>2, Held DEF b, Same
  <2> QED
    BY <2>1, <2>2
<1> QED
  BY <1>1, <1>3, <1>4, <1>5, <1>6, <1>7, <1>8, <1>9, <1>10, <1>11, Continued
     DEF b, CallInv

LEMMA AllocateFailsInv ==
  ASSUME ChainsInv, NEW t \in Threads, AllocateFails(t)
  PROVE  ChainsInv'
<1> DEFINE b == call[t]
<1>1. /\ b \in Calls /\ CallInv(b) /\ b.step = "alloc" /\ Active(b)
      /\ b.to \in Objects /\ b.from \in Objects \cup {NULL}
      /\ life[b.to] = "making"
  BY CallTypes DEF AllocateFails, At, CallInv, FormInv, ToInv, Active, Running, Steps
<1>2. PICK c : c = [b EXCEPT !.step = "abandon", !.error = Raise(@)]
  OBVIOUS
<1>3. /\ c \in Calls /\ c.step = "abandon" /\ c.to = b.to /\ c.from = b.from
      /\ c.op = b.op /\ c.result = b.result /\ Active(c)
  BY <1>1, <1>2 DEF Calls, Steps, Active, Running, Raise
<1>4. call' = [call EXCEPT ![t] = c] /\ UNCHANGED <<class, objectVars, calls>>
  BY <1>2 DEF AllocateFails, Goto
<1> HIDE DEF b
<1>5. Typed'
  BY <1>1, <1>3, <1>4 DEF ChainsInv, Typed, objectVars
<1>6. \A o \in Objects : Same(o)
  BY <1>4 DEF objectVars, Same
<1>7. FormInv(c)'
  BY <1>1, <1>3 DEF CallInv, FormInv, Active, Running
<1>8. ToInv(c)'
  BY <1>1, <1>3, <1>4 DEF ToInv, objectVars
<1>9. FromInv(c)'
  BY <1>1, <1>3, <1>4 DEF CallInv, FromInv, objectVars
<1>10. ChainInv(c)'
  BY <1>3 DEF ChainInv
<1>11. \A o \in Objects : o \in {c.to, c.from} =>
         /\ life'[o] # "none"
         /\ life'[o] = "alive" => made'[o] \in Classes /\ class[made'[o]] # NULL
  BY <1>1, <1>3, <1>4, Held DEF b, objectVars
<1> QED
  BY <1>1, <1>3, <1>4, <1>5, <1>6, <1>7, <1>8, <1>9, <1>10, <1>11, Continued
     DEF b, CallInv

(* The lists of a class that is made are sequences of classes.             *)
LEMMA ListTypes ==
  ASSUME ChainsInv, NEW k \in Classes, class[k] # NULL
  PROVE  /\ class[k].init \in Seq(Classes) /\ Len(class[k].init) \in Nat
         /\ class[k].assign \in Seq(Classes) /\ Len(class[k].assign) \in Nat
         /\ class[k].clear \in Seq(Classes) /\ Len(class[k].clear) \in Nat
<1>1. class[k] \in MethodLists
  BY DEF ChainsInv, Typed
<1> QED
  BY <1>1 DEF MethodLists

LEMMA InitMethodInv ==
  ASSUME ChainsInv, NEW t \in Threads, InitMethod(t)
  PROVE  ChainsInv'
<1> DEFINE b == call[t]
           list == class[b.type].init
           m == list[b.i + 1]
<1>1. /\ b \in Calls /\ CallInv(b) /\ b.step = "init" /\ Active(b)
      /\ b.to \in Objects /\ b.from \in Objects \cup {NULL}
      /\ b.type \in Classes /\ class[b.type] # NULL /\ life[b.to] = "making"
      /\ made[b.to] = b.type /\ b.i \in Nat
  BY CallTypes DEF InitMethod, At, CallInv, FormInv, ToInv, Active, Running, Steps
<1>2. list \in Seq(Classes) /\ Len(list) \in Nat
  BY <1>1, ListTypes
<1>3. b.i < Len(list) /\ b.i + 1 \in 1..Len(list) /\ m \in Classes
  <2>1. b.i < Len(list)
    BY DEF InitMethod
  <2> HIDE DEF list, b
  <2>2. b.i + 1 \in 1..Len(list)
    BY <1>1, <1>2, <2>1
  <2> QED
    BY <1>2, <2>1, <2>2
<1>4. PICK c : c = [b EXCEPT !.i = @ + 1, !.ran = @ \cup {m}]
  OBVIOUS
<1>5. /\ c \in Calls /\ c.step = "init" /\ c.to = b.to /\ c.from = b.from
      /\ c.op = b.op /\ c.type = b.type /\ c.i = b.i + 1 /\ c.error = b.error
      /\ c.failed = b.failed /\ c.result = b.result /\ Active(c)
  <2>1. b.i + 1 \in Nat /\ b.ran \cup {m} \in SUBSET Classes
    <3> HIDE DEF m
    <3> QED
      BY <1>1, <1>3 DEF Calls
  <2> HIDE DEF m, b
  <2> QED
    BY <1>1, <1>4, <2>1 DEF Calls, Steps, Active, Running
<1>6. /\ call' = [call EXCEPT ![t] = c] /\ UNCHANGED <<class, life, made, calls>>
      /\ type' = [type EXCEPT ![b.to] = m]
      /\ member' = [member EXCEPT ![b.to][m] = Fresh]
  BY <1>4 DEF InitMethod, Goto
<1> HIDE DEF b, m
<1>7. Typed'
  BY <1>1, <1>3, <1>5, <1>6 DEF ChainsInv, Typed, Data
<1>8. /\ member'[c.to][m] = Fresh
      /\ \A d \in Classes : d # m => member'[c.to][d] = member[c.to][d]
      /\ \A o \in Objects : o # c.to => Same(o)
  BY <1>1, <1>3, <1>5, <1>6 DEF ChainsInv, Typed, Same
<1>9. FormInv(c)'
  BY <1>1, <1>5 DEF CallInv, FormInv, Active, Running
<1>10. ToInv(c)'
  BY <1>1, <1>5, <1>6 DEF ToInv
<1>11. FromInv(c)'
  BY <1>1, <1>5, <1>8 DEF CallInv, FormInv, FromInv, Same
<1>12. ChainInv(c)'
  <2>1. class'[c.type].init = list
    BY <1>5, <1>6
  <2>2. c.i <= Len(list)
    BY <1>1, <1>2, <1>3, <1>5
  <2>3. c.error # "ignored" => \A j \in 1..c.i : member'[c.to][list[j]] = Fresh
    <3> SUFFICES ASSUME c.error # "ignored", NEW j \in 1..c.i
                 PROVE  member'[c.to][list[j]] = Fresh
      OBVIOUS
    <3>1. list[j] \in Classes
      <4> HIDE DEF list
      <4>1. j \in 1..Len(list)
        BY <1>1, <1>2, <2>2, <1>5
      <4> QED
        BY <4>1, <1>2
    <3>2. CASE j = b.i + 1
      BY <3>2, <1>8 DEF m
    <3>3. CASE j \in 1..b.i
      <4>1. member[b.to][list[j]] = Fresh
        BY <1>1, <1>5, <3>3 DEF CallInv, ChainInv
      <4> QED
        BY <4>1, <3>1, <1>5, <1>8
    <3> QED
      BY <3>2, <3>3, <1>1, <1>5
  <2> HIDE DEF list
  <2> QED
    BY <1>5, <2>1, <2>2, <2>3 DEF ChainInv
<1>13. \A o \in Objects : o \in {c.to, c.from} =>
         /\ life'[o] # "none"
         /\ life'[o] = "alive" => made'[o] \in Classes /\ class[made'[o]] # NULL
  BY <1>1, <1>5, <1>6, Held DEF b
<1> QED
  BY <1>1, <1>5, <1>6, <1>7, <1>8, <1>9, <1>10, <1>11, <1>12, <1>13, Continued
     DEF b, CallInv

LEMMA InitFailsInv ==
  ASSUME ChainsInv, NEW t \in Threads, InitFails(t)
  PROVE  ChainsInv'
<1> DEFINE b == call[t]
           list == class[b.type].init
           m == list[b.i + 1]
           error == Raise(b.error)
<1>1. /\ b \in Calls /\ CallInv(b) /\ b.step = "init" /\ Active(b)
      /\ b.to \in Objects /\ b.from \in Objects \cup {NULL}
      /\ b.type \in Classes /\ class[b.type] # NULL /\ life[b.to] = "making"
      /\ made[b.to] = b.type /\ b.i \in Nat
  BY CallTypes DEF InitFails, At, CallInv, FormInv, ToInv, Active, Running, Steps
<1>2. list \in Seq(Classes) /\ Len(list) \in Nat
  BY <1>1, ListTypes
<1>3. b.i < Len(list) /\ b.i + 1 \in 1..Len(list) /\ m \in Classes
  <2>1. b.i < Len(list)
    BY DEF InitFails
  <2> HIDE DEF list, b
  <2>2. b.i + 1 \in 1..Len(list)
    BY <1>1, <1>2, <2>1
  <2> QED
    BY <1>2, <2>1, <2>2
<1>4. PICK c : c = [b EXCEPT !.i = @ + 1, !.ran = @ \cup {m}, !.error = error,
                             !.step = IF error = "filled" THEN "abandon" ELSE @]
  OBVIOUS
<1>5. /\ c \in Calls /\ c.to = b.to /\ c.from = b.from /\ c.i = b.i + 1
      /\ c.op = b.op /\ c.type = b.type /\ c.failed = b.failed
      /\ c.result = b.result
      /\ \/ c.step = "init" /\ c.error = "ignored"
         \/ c.step = "abandon"
  <2>1. error \in {"ignored", "filled"}
    BY DEF Raise
  <2>2. b.i + 1 \in Nat /\ b.ran \cup {m} \in SUBSET Classes
    <3> HIDE DEF m
    <3> QED
      BY <1>1, <1>3 DEF Calls
  <2> HIDE DEF m, error, b
  <2> QED
    BY <1>1, <1>4, <2>1, <2>2 DEF Calls, Steps
<1>6. /\ call' = [call EXCEPT ![t] = c]
      /\ UNCHANGED <<class, life, member, made, calls>>
      /\ type' = [type EXCEPT ![b.to] = m]
  BY <1>4 DEF InitFails, Goto
<1> HIDE DEF b, m
<1>7. Active(c)
  BY <1>5 DEF Active, Running, Steps
<1>8. Typed'
  BY <1>1, <1>3, <1>5, <1>6 DEF ChainsInv, Typed
<1>9. \A o \in Objects : o # c.to => Same(o)
  BY <1>1, <1>5, <1>6 DEF ChainsInv, Typed, Same
<1>10. FormInv(c)'
  BY <1>1, <1>5 DEF CallInv, FormInv, Active, Running
<1>11. ToInv(c)'
  BY <1>1, <1>5, <1>6 DEF ToInv
<1>12. FromInv(c)'
  BY <1>1, <1>5, <1>9 DEF CallInv, FormInv, FromInv, Same
<1>13. ChainInv(c)'
  <2>1. c.i <= Len(list) /\ class'[c.type].init = list
    BY <1>1, <1>2, <1>3, <1>5, <1>6
  <2> HIDE DEF list
  <2> QED
    BY <1>5, <2>1 DEF ChainInv
<1>14. \A o \in Objects : o \in {c.to, c.from} =>
         /\ life'[o] # "none"
         /\ life'[o] = "alive" => made'[o] \in Classes /\ class[made'[o]] # NULL
  BY <1>1, <1>5, <1>6, Held DEF b
<1> QED
  BY <1>1, <1>5, <1>6, <1>7, <1>8, <1>9, <1>10, <1>11, <1>12, <1>13, <1>14,
     Continued DEF b, CallInv

(* A call that returns without a result holds nothing.                     *)
LEMMA Resting ==
  ASSUME NEW c, FormInv(c), c.step = "return", c.result = NULL
  PROVE  CallInv(c)' /\ ~Active(c)
<1>1. ~Active(c)
  BY DEF Active, Running
<1>2. ToInv(c)'
  BY <1>1 DEF ToInv, Active, Running
<1>3. FromInv(c)'
  BY <1>1 DEF FromInv, Active, Running
<1>4. ChainInv(c)'
  BY DEF ChainInv
<1>5. FormInv(c)'
  BY DEF FormInv, Active, Running
<1> QED
  BY <1>1, <1>2, <1>3, <1>4, <1>5 DEF CallInv

(* Abandon and FreeObject.                                                 *)
LEMMA FreeInv ==
  ASSUME ChainsInv, NEW t \in Threads, call[t].step \in {"abandon", "free"},
         FreePool(call[t].to), Goto(t, [call[t] EXCEPT !.step = "return"]),
         UNCHANGED <<class, calls>>
  PROVE  ChainsInv'
<1> DEFINE b == call[t]
<1>1. /\ b \in Calls /\ CallInv(b) /\ b.step \in {"abandon", "free"}
      /\ Active(b) /\ b.result = NULL
      /\ b.to \in Objects /\ b.from \in Objects \cup {NULL}
  BY CallTypes DEF CallInv, FormInv, Active, Running, Steps
<1>2. PICK c : c = [b EXCEPT !.step = "return"]
  OBVIOUS
<1>3. /\ c \in Calls /\ c.step = "return" /\ c.to = b.to /\ c.from = b.from
      /\ c.op = b.op /\ c.result = NULL /\ ~Active(c)
  BY <1>1, <1>2 DEF Calls, Steps, Active, Running
<1>4. /\ call' = [call EXCEPT ![t] = c] /\ UNCHANGED <<class, calls>>
      /\ life' = [life EXCEPT ![b.to] = "none"]
      /\ type' = [type EXCEPT ![b.to] = NULL]
      /\ member' = [member EXCEPT ![b.to] = [d \in Classes |-> Zero]]
      /\ made' = [made EXCEPT ![b.to] = NULL]
  BY <1>2 DEF Goto, FreePool
<1>5. Busy(t, b.to)
  BY <1>1 DEF Busy
<1> HIDE DEF b
<1>6. Typed'
  BY <1>1, <1>3, <1>4 DEF ChainsInv, Typed, Data
<1>7. /\ life'[b.to] = "none"
      /\ \A o \in Objects : o # b.to => Same(o)
  BY <1>1, <1>4 DEF ChainsInv, Typed, Same
<1>8. FormInv(c)
  BY <1>1, <1>3 DEF CallInv, FormInv, Running
<1>9. CallInv(c)'
  BY <1>3, <1>8, Resting
<1>10. \A o \in Objects : Busy(t, o) /\ life'[o] = "alive" =>
         made'[o] \in Classes /\ class[made'[o]] # NULL /\ type'[o] = made'[o]
  <2> SUFFICES ASSUME NEW o \in Objects, Busy(t, o), life'[o] = "alive"
               PROVE  /\ made'[o] \in Classes /\ class[made'[o]] # NULL
                      /\ type'[o] = made'[o]
    OBVIOUS
  <2>1. o # b.to /\ Same(o) /\ o = b.from /\ o # NULL
    BY <1>7, ChainsAssumption DEF Busy, b
  <2>2. type[o] = made[o]
    BY <1>1, <2>1 DEF CallInv, FromInv
  <2>3. made[o] \in Classes /\ class[made[o]] # NULL
    BY <1>1, <2>1, Held DEF b, Same
  <2> QED
    BY <2>1, <2>2, <2>3 DEF Same
<1> QED
  BY <1>3, <1>4, <1>5, <1>6, <1>7, <1>9, <1>10, Ended

LEMMA EndInitInv ==
  ASSUME ChainsInv, NEW t \in Threads, EndInit(t)
  PROVE  ChainsInv'
<1> DEFINE b == call[t]
<1>1. /\ b \in Calls /\ CallInv(b) /\ b.step = "init" /\ Active(b)
      /\ b.to \in Objects /\ b.from \in Objects \cup {NULL}
      /\ b.type \in Classes /\ class[b.type] # NULL
      /\ made[b.to] = b.type /\ b.op \in {"create", "copy"} /\ b.result = NULL
  BY CallTypes DEF EndInit, At, CallInv, FormInv, ToInv, Active, Running, Steps
<1>2. PICK c : c = IF b.op = "copy" THEN [b EXCEPT !.step = "compare"]
                   ELSE [b EXCEPT !.step = "return", !.result = b.to]
  OBVIOUS
<1>3. /\ c \in Calls /\ c.to = b.to /\ c.from = b.from
      /\ c.op = b.op /\ c.error = b.error /\ c.failed = b.failed
      /\ \/ c.step = "compare" /\ c.op = "copy" /\ c.result = NULL
         \/ c.step = "return" /\ c.op = "create" /\ c.result = b.to
  <2> HIDE DEF b
  <2>1. CASE b.op = "copy"
    BY <1>1, <1>2, <2>1 DEF Calls, Steps
  <2>2. CASE b.op # "copy"
    BY <1>1, <1>2, <2>2 DEF Calls, Steps
  <2> QED
    BY <2>1, <2>2
<1>4. b.to # NULL /\ Active(c)
  BY <1>1, <1>3, ChainsAssumption DEF Active, Running, Steps
<1>5. /\ call' = [call EXCEPT ![t] = c] /\ UNCHANGED <<class, member, made, calls>>
      /\ type' = [type EXCEPT ![b.to] = b.type]
      /\ life' = [life EXCEPT ![b.to] = "alive"]
  BY <1>2 DEF EndInit, Goto
<1> HIDE DEF b
<1>6. Typed'
  BY <1>1, <1>3, <1>5 DEF ChainsInv, Typed
<1>7. /\ type'[c.to] = b.type /\ made'[c.to] = b.type /\ life'[c.to] = "alive"
      /\ \A o \in Objects : o # c.to => Same(o)
  BY <1>1, <1>3, <1>5 DEF ChainsInv, Typed, Same
<1>8. FormInv(c)'
  BY <1>1, <1>3, <1>4 DEF CallInv, FormInv, Active, Running
<1>9. ToInv(c)'
  BY <1>3, <1>7 DEF ToInv
<1>10. FromInv(c)'
  BY <1>1, <1>3, <1>7 DEF CallInv, FormInv, FromInv, Same
<1>11. ChainInv(c)'
  BY <1>3 DEF ChainInv
<1>12. \A o \in Objects : o \in {c.to, c.from} =>
         /\ life'[o] # "none"
         /\ life'[o] = "alive" => made'[o] \in Classes /\ class[made'[o]] # NULL
  <2> SUFFICES ASSUME NEW o \in Objects, o \in {c.to, c.from}
               PROVE  /\ life'[o] # "none"
                      /\ life'[o] = "alive" =>
                           made'[o] \in Classes /\ class[made'[o]] # NULL
    OBVIOUS
  <2>1. CASE o = c.to
    BY <1>1, <1>7, <2>1
  <2>2. CASE o # c.to
    BY <1>1, <1>3, <1>7, <2>2, Held DEF b, Same
  <2> QED
    BY <2>1, <2>2
<1> QED
  BY <1>1, <1>3, <1>4, <1>5, <1>6, <1>7, <1>8, <1>9, <1>10, <1>11, <1>12,
     Continued DEF b, CallInv

-----------------------------------------------------------------------------
(* The steps of y_clear_object. *)

LEMMA ClearMethodInv ==
  ASSUME ChainsInv, NEW t \in Threads, ClearMethod(t)
  PROVE  ChainsInv'
<1> DEFINE b == call[t]
           list == class[b.type].clear
           m == list[b.i]
<1>1. /\ b \in Calls /\ CallInv(b) /\ b.step = "clear" /\ Active(b)
      /\ b.to \in Objects /\ b.from \in Objects \cup {NULL}
      /\ b.type \in Classes /\ class[b.type] # NULL /\ life[b.to] = "alive"
      /\ made[b.to] = b.type /\ b.i \in Nat
  BY CallTypes DEF ClearMethod, At, CallInv, FormInv, ToInv, Active, Running, Steps
<1>2. list \in Seq(Classes) /\ Len(list) \in Nat
  BY <1>1, ListTypes
<1>3. b.i > 0 /\ b.i <= Len(list) /\ b.i \in 1..Len(list) /\ m \in Classes
  <2>1. b.i > 0 /\ b.i <= Len(list)
    BY <1>1 DEF ClearMethod, CallInv, ChainInv
  <2> HIDE DEF list, b
  <2>2. b.i \in 1..Len(list)
    BY <1>1, <1>2, <2>1
  <2> QED
    BY <1>2, <2>1, <2>2
<1>4. PICK c : c = [b EXCEPT !.i = @ - 1, !.ran = @ \cup {m}]
  OBVIOUS
<1>5. /\ c \in Calls /\ c.step = "clear" /\ c.to = b.to /\ c.from = b.from
      /\ c.op = b.op /\ c.type = b.type /\ c.i = b.i - 1 /\ c.error = b.error
      /\ c.failed = b.failed /\ c.result = b.result /\ Active(c)
  <2>1. b.i - 1 \in Nat /\ b.ran \cup {m} \in SUBSET Classes
    <3> HIDE DEF m
    <3> QED
      BY <1>1, <1>3 DEF Calls
  <2> HIDE DEF m, b
  <2> QED
    BY <1>1, <1>4, <2>1 DEF Calls, Steps, Active, Running
<1>6. /\ call' = [call EXCEPT ![t] = c] /\ UNCHANGED <<class, life, made, calls>>
      /\ type' = [type EXCEPT ![b.to] = m]
      /\ member' = [member EXCEPT ![b.to][m] = Zero]
  BY <1>4 DEF ClearMethod, Goto
<1> HIDE DEF b, m
<1>7. Typed'
  BY <1>1, <1>3, <1>5, <1>6 DEF ChainsInv, Typed, Data
<1>8. /\ member'[c.to][m] = Zero
      /\ \A d \in Classes : d # m => member'[c.to][d] = member[c.to][d]
      /\ \A o \in Objects : o # c.to => Same(o)
  BY <1>1, <1>3, <1>5, <1>6 DEF ChainsInv, Typed, Same
<1>9. FormInv(c)'
  BY <1>1, <1>5 DEF CallInv, FormInv, Active, Running
<1>10. ToInv(c)'
  BY <1>1, <1>5, <1>6 DEF ToInv
<1>11. FromInv(c)'
  BY <1>1, <1>5, <1>6, <1>8 DEF CallInv, FormInv, FromInv, Same
<1>12. ChainInv(c)'
  <2>1. class'[c.type].clear = list
    BY <1>5, <1>6
  <2>2. c.i <= Len(list)
    BY <1>1, <1>2, <1>3, <1>5
  <2>3. \A j \in c.i + 1..Len(list) : member'[c.to][list[j]] = Zero
    <3> SUFFICES ASSUME NEW j \in c.i + 1..Len(list)
                 PROVE  member'[c.to][list[j]] = Zero
      OBVIOUS
    <3>1. list[j] \in Classes
      <4> HIDE DEF list
      <4>1. j \in 1..Len(list)
        BY <1>1, <1>2, <1>3, <1>5
      <4> QED
        BY <4>1, <1>2
    <3>2. CASE j = b.i
      BY <3>2, <1>8 DEF m
    <3>3. CASE j \in b.i + 1..Len(list)
      <4>1. member[b.to][list[j]] = Zero
        BY <1>1, <1>5, <3>3 DEF CallInv, ChainInv
      <4> QED
        BY <4>1, <3>1, <1>5, <1>8
    <3>4. j = b.i \/ j \in b.i + 1..Len(list)
      <4> HIDE DEF list
      <4> QED
        BY <1>1, <1>2, <1>3, <1>5
    <3> QED
      BY <3>2, <3>3, <3>4
  <2> HIDE DEF list
  <2> QED
    BY <1>5, <2>1, <2>2, <2>3 DEF ChainInv
<1>13. \A o \in Objects : o \in {c.to, c.from} =>
         /\ life'[o] # "none"
         /\ life'[o] = "alive" => made'[o] \in Classes /\ class[made'[o]] # NULL
  BY <1>1, <1>5, <1>6, Held DEF b
<1> QED
  BY <1>1, <1>5, <1>6, <1>7, <1>8, <1>9, <1>10, <1>11, <1>12, <1>13, Continued
     DEF b, CallInv

LEMMA EndClearInv ==
  ASSUME ChainsInv, NEW t \in Threads, EndClear(t)
  PROVE  ChainsInv'
<1> DEFINE b == call[t]
           next == [clear |-> "return", destroy |-> "free",
                    assign |-> "assign", copy |-> "assign"]
<1>1. /\ b \in Calls /\ CallInv(b) /\ b.step = "clear" /\ Active(b)
      /\ b.to \in Objects /\ b.from \in Objects \cup {NULL}
      /\ b.type \in Classes /\ class[b.type] # NULL /\ life[b.to] = "alive"
      /\ made[b.to] = b.type /\ b.i = 0 /\ b.result = NULL
      /\ b.op \in {"clear", "destroy", "assign", "copy"}
  BY CallTypes DEF EndClear, At, CallInv, FormInv, ToInv, Active, Running, Steps,
     Calls, Ops
<1>2. PICK c : c = [b EXCEPT !.step = next[b.op], !.ran = {}]
  OBVIOUS
<1>3. /\ c \in Calls /\ c.to = b.to /\ c.from = b.from /\ c.i = b.i
      /\ c.op = b.op /\ c.type = b.type /\ c.error = b.error
      /\ c.failed = b.failed /\ c.result = b.result
      /\ \/ c.step = "return" /\ c.op = "clear"
         \/ c.step = "free" /\ c.op = "destroy"
         \/ c.step = "assign" /\ c.op \in {"assign", "copy"}
  <2>1. /\ b.op = "clear" => next[b.op] = "return"
        /\ b.op = "destroy" => next[b.op] = "free"
        /\ b.op \in {"assign", "copy"} => next[b.op] = "assign"
    <3> HIDE DEF b
    <3> QED
      OBVIOUS
  <2> HIDE DEF b, next
  <2> QED
    BY <1>1, <1>2, <2>1 DEF Calls, Steps
<1>4. /\ call' = [call EXCEPT ![t] = c]
      /\ UNCHANGED <<class, life, member, made, calls>>
      /\ type' = [type EXCEPT ![b.to] = b.type]
  BY <1>2 DEF EndClear, Goto
<1> HIDE DEF b
<1>5. Typed'
  BY <1>1, <1>3, <1>4 DEF ChainsInv, Typed
<1>6. /\ type'[c.to] = b.type /\ made'[c.to] = b.type
      /\ \A o \in Objects : o # c.to => Same(o)
  BY <1>1, <1>3, <1>4 DEF ChainsInv, Typed, Same
<1>7. FormInv(c) /\ FormInv(c)'
  BY <1>1, <1>3 DEF CallInv, FormInv, Active, Running
<1>8. \A o \in Objects : o \in {c.to, c.from} =>
         /\ life'[o] # "none"
         /\ life'[o] = "alive" => made'[o] \in Classes /\ class[made'[o]] # NULL
  BY <1>1, <1>3, <1>4, Held DEF b
<1>9. CASE c.step = "return"
  <2>1. CallInv(c)' /\ ~Active(c)
    BY <1>1, <1>3, <1>7, <1>9, Resting
  <2>2. \A o \in Objects : Busy(t, o) <=> o \in {c.to, c.from}
    BY <1>1, <1>3 DEF Busy, b
  <2>3. \A o \in Objects : Busy(t, o) => type'[o] = made'[o]
    <3> SUFFICES ASSUME NEW o \in Objects, Busy(t, o), o # c.to
                 PROVE  type'[o] = made'[o]
      BY <1>6
    <3>1. o = c.from /\ o # NULL /\ Same(o)
      BY <1>6, <2>2, ChainsAssumption
    <3>2. type[o] = made[o]
      BY <1>1, <1>3, <3>1 DEF CallInv, FromInv
    <3> QED
      BY <3>1, <3>2 DEF Same
  <2> QED
    BY <1>4, <1>5, <1>6, <1>8, <2>1, <2>2, <2>3, Ended
<1>10. CASE c.step # "return"
  <2>1. Active(c)
    BY <1>3, <1>10 DEF Active, Running, Steps
  <2>2. ToInv(c)'
    BY <1>1, <1>3, <1>4, <1>6, <1>10 DEF ToInv
  <2>3. FromInv(c)'
    BY <1>1, <1>3, <1>4, <1>6, <1>10 DEF CallInv, FormInv, FromInv, Same
  <2>4. ChainInv(c)'
    <3>1. CASE c.step = "free"
      <4> SUFFICES ASSUME NEW d \in HasClear, IsA(b.type, d)
                   PROVE  member[c.to][d] = Zero
        BY <1>3, <1>4, <1>6, <3>1 DEF ChainInv
      <4>1. PICK j \in 1..Len(class[b.type].clear) : class[b.type].clear[j] = d
        BY <1>1 DEF ChainsInv, ListInv, HasAll
      <4>2. j \in b.i + 1..Len(class[b.type].clear)
        BY <1>1
      <4> QED
        BY <1>1, <1>3, <4>1, <4>2 DEF CallInv, ChainInv
    <3>2. CASE c.step = "assign"
      BY <1>1, <1>3, <1>4, <3>2, ListTypes DEF ChainInv
    <3> QED
      BY <1>3, <1>10, <3>1, <3>2
  <2> QED
    BY <1>1, <1>3, <1>4, <1>5, <1>6, <1>7, <1>8, <2>1, <2>2, <2>3, <2>4,
       Continued DEF b, CallInv
<1> QED
  BY <1>9, <1>10

-----------------------------------------------------------------------------
(* The steps of y_assign and y_copy. *)

(* y_clear_object begins with an object that is as it was made.            *)
LEMMA ClearFromInv ==
  ASSUME ChainsInv, NEW c \in Calls, c.to \in Objects, c.to # c.from,
         life[c.to] = "alive", made[c.to] \in Classes,
         class[made[c.to]] # NULL, type[c.to] = made[c.to],
         c.op # "create", c.result = NULL,
         c.op \in {"assign", "copy"} =>
           /\ c.error # "filled" /\ ~c.failed
           /\ c.from \in Objects /\ made[c.from] = made[c.to],
         c.from # NULL =>
           life[c.from] = "alive" /\ type[c.from] = made[c.from],
         UNCHANGED <<class, objectVars>>,
         NEW d, d = ClearFrom(c, c.to)
  PROVE  d \in Calls /\ CallInv(d)' /\ Active(d) /\ d.to = c.to /\ d.from = c.from
<1>1. Len(class[type[c.to]].clear) \in Nat
  BY ListTypes
<1>2. /\ d \in Calls /\ d.step = "clear" /\ d.to = c.to /\ d.from = c.from
      /\ d.op = c.op /\ d.type = made[c.to] /\ d.error = c.error
      /\ d.i = Len(class[made[c.to]].clear)
      /\ d.failed = c.failed /\ d.result = NULL /\ Active(d)
  BY <1>1 DEF ClearFrom, Calls, Steps, Active, Running
<1>3. FormInv(d)'
  BY <1>2 DEF FormInv, Active, Running
<1>4. ToInv(d)'
  BY <1>2 DEF ToInv, objectVars
<1>5. FromInv(d)'
  BY <1>2 DEF FromInv, objectVars
<1>6. ChainInv(d)'
  <2>1. class'[d.type] = class[d.type] /\ d.i = Len(class[d.type].clear)
    BY <1>2
  <2>2. /\ d.i <= Len(class[d.type].clear)
        /\ \A j \in d.i + 1..Len(class[d.type].clear) : FALSE
    BY <1>1, <1>2
  <2>3. d.step = "clear"
    BY <1>2
  <2> QED
    BY <2>1, <2>2, <2>3 DEF ChainInv
<1> QED
  BY <1>2, <1>3, <1>4, <1>5, <1>6 DEF CallInv

LEMMA CompareInv ==
  ASSUME ChainsInv, NEW t \in Threads, Compare(t)
  PROVE  ChainsInv'
<1> DEFINE b == call[t]
<1>1. /\ b \in Calls /\ CallInv(b) /\ b.step = "compare" /\ Active(b)
      /\ b.to \in Objects /\ b.from \in Objects /\ b.from # NULL
      /\ life[b.to] = "alive" /\ type[b.to] = made[b.to]
      /\ life[b.from] = "alive" /\ type[b.from] = made[b.from]
      /\ b.op \in {"assign", "copy"} /\ b.result = NULL
  BY CallTypes, ChainsAssumption
     DEF Compare, At, CallInv, FormInv, ToInv, FromInv, Active, Running, Steps
<1>2. \A o \in {b.to, b.from} :
        life[o] # "none" /\ made[o] \in Classes /\ class[made[o]] # NULL
  BY <1>1, Held
<1>3. UNCHANGED <<class, objectVars, calls>>
  BY DEF Compare
<1>4. \A o \in Objects : Same(o)
  BY <1>3 DEF Same, objectVars
<1>5. PICK c : /\ call' = [call EXCEPT ![t] = c]
               /\ \/ c = ClearFrom(b, b.to) /\ type[b.to] = type[b.from]
                  \/ c = [b EXCEPT !.step = "reject"]
  BY DEF Compare, Goto
<1>6. /\ c.to = b.to /\ c.from = b.from /\ c \in Calls
      /\ CallInv(c)' /\ Active(c)
  <2>1. CASE c = ClearFrom(b, b.to) /\ type[b.to] = type[b.from]
    <3>1. b.to # b.from /\ b.error # "filled" /\ ~b.failed
      BY <1>1, ChainsAssumption DEF CallInv, FormInv
    <3>2. made[b.from] = made[b.to] /\ b.op # "create"
      BY <1>1, <2>1
    <3> HIDE DEF b
    <3> QED
      BY <1>1, <1>2, <1>3, <2>1, <3>1, <3>2, ClearFromInv
  <2>2. CASE c = [b EXCEPT !.step = "reject"]
    <3> HIDE DEF b
    <3>1. /\ c \in Calls /\ c.step = "reject" /\ c.to = b.to
          /\ c.from = b.from /\ c.op = b.op /\ c.result = NULL /\ Active(c)
      BY <1>1, <2>2 DEF Calls, Steps, Active, Running
    <3>2. FormInv(c)'
      BY <1>1, <3>1 DEF CallInv, FormInv, Active, Running
    <3>3. ToInv(c)' /\ FromInv(c)'
      BY <1>1, <1>3, <3>1 DEF ToInv, FromInv, objectVars
    <3>4. ChainInv(c)'
      BY <3>1 DEF ChainInv
    <3> QED
      BY <3>1, <3>2, <3>3, <3>4 DEF CallInv
  <2> QED
    BY <1>5, <2>1, <2>2
<1> HIDE DEF b
<1>7. Typed'
  BY <1>3, <1>5, <1>6 DEF ChainsInv, Typed, objectVars
<1>8. \A o \in Objects : o \in {c.to, c.from} =>
        /\ life'[o] # "none"
        /\ life'[o] = "alive" => made'[o] \in Classes /\ class[made'[o]] # NULL
  BY <1>2, <1>3, <1>6 DEF objectVars
<1> QED
  BY <1>1, <1>3, <1>4, <1>5, <1>6, <1>7, <1>8, Continued DEF b

LEMMA AssignBlessInv ==
  ASSUME ChainsInv, NEW t \in Threads, AssignBless(t)
  PROVE  ChainsInv'
<1> DEFINE b == call[t]
           list == class[b.type].assign
           m == list[b.i + 1]
<1>1. /\ b \in Calls /\ CallInv(b) /\ b.step = "assign" /\ Active(b)
      /\ b.to \in Objects /\ b.from \in Objects /\ b.to # b.from
      /\ b.type \in Classes /\ class[b.type] # NULL
      /\ b.op \in {"assign", "copy"} /\ b.result = NULL /\ b.i \in Nat
  BY CallTypes, ChainsAssumption
     DEF AssignBless, At, CallInv, FormInv, ToInv, Active, Running, Steps
<1>2. list \in Seq(Classes) /\ Len(list) \in Nat
  BY <1>1, ListTypes
<1>3. b.i < Len(list) /\ m \in Classes
  <2>1. b.i < Len(list)
    BY DEF AssignBless
  <2> HIDE DEF list, b
  <2>2. b.i + 1 \in 1..Len(list)
    BY <1>1, <1>2, <2>1
  <2> QED
    BY <1>2, <2>1, <2>2
<1>4. PICK c : c = [b EXCEPT !.step = "exec"]
  OBVIOUS
<1>5. /\ c \in Calls /\ c.step = "exec" /\ c.to = b.to /\ c.from = b.from
      /\ c.op = b.op /\ c.type = b.type /\ c.i = b.i /\ c.error = b.error
      /\ c.failed = b.failed /\ c.result = b.result /\ Active(c)
  BY <1>1, <1>4 DEF Calls, Steps, Active, Running
<1>6. /\ call' = [call EXCEPT ![t] = c]
      /\ UNCHANGED <<class, life, member, made, calls>>
      /\ type' = [type EXCEPT ![b.to] = m, ![b.from] = m]
  BY <1>4 DEF AssignBless, Goto
<1> HIDE DEF b, m
<1>7. Typed'
  BY <1>1, <1>3, <1>5, <1>6 DEF ChainsInv, Typed
<1>8. /\ type'[c.to] = m /\ type'[c.from] = m
      /\ \A o \in Objects \ {c.to, c.from} : Same(o)
  BY <1>1, <1>5, <1>6 DEF ChainsInv, Typed, Same
<1>9. FormInv(c)'
  BY <1>1, <1>5 DEF CallInv, FormInv, Active, Running
<1>10. ToInv(c)'
  BY <1>1, <1>5, <1>6 DEF CallInv, ToInv
<1>11. FromInv(c)'
  BY <1>1, <1>5, <1>6 DEF CallInv, FromInv
<1>12. ChainInv(c)'
  <2>1. ChainInv(b) /\ class'[c.type] = class[b.type]
    BY <1>1, <1>5, <1>6 DEF CallInv
  <2>2. /\ member'[c.to] = member[b.to] /\ member'[c.from] = member[b.from]
        /\ type'[c.to] = list[c.i + 1] /\ type'[c.from] = list[c.i + 1]
    BY <1>5, <1>6, <1>8 DEF m
  <2>3. /\ c.i < Len(list) /\ c.i <= Len(list)
        /\ b.step = "assign" /\ c.step = "exec"
    BY <1>1, <1>2, <1>3, <1>5
  <2>4. c.error # "ignored" =>
          \A j \in 1..c.i : member[b.to][list[j]] = member[b.from][list[j]]
    BY <1>5, <2>1, <2>3 DEF ChainInv
  <2> QED
    BY <2>1, <2>2, <2>3, <2>4 DEF ChainInv
<1>13. \A o \in Objects : o \in {c.to, c.from} =>
         /\ life'[o] # "none"
         /\ life'[o] = "alive" => made'[o] \in Classes /\ class[made'[o]] # NULL
  BY <1>1, <1>5, <1>6, Held DEF b
<1> QED
  BY <1>1, <1>5, <1>6, <1>7, <1>8, <1>9, <1>10, <1>11, <1>12, <1>13, Continued
     DEF b, CallInv

LEMMA AssignMethodInv ==
  ASSUME ChainsInv, NEW t \in Threads, AssignMethod(t)
  PROVE  ChainsInv'
<1> DEFINE b == call[t]
           list == class[b.type].assign
           m == list[b.i + 1]
<1>1. /\ b \in Calls /\ CallInv(b) /\ b.step = "exec" /\ Active(b)
      /\ b.to \in Objects /\ b.from \in Objects /\ b.to # b.from
      /\ b.type \in Classes /\ class[b.type] # NULL
      /\ b.op \in {"assign", "copy"} /\ b.result = NULL /\ b.i \in Nat
  BY CallTypes, ChainsAssumption
     DEF AssignMethod, At, CallInv, FormInv, ToInv, Active, Running, Steps
<1>2. list \in Seq(Classes) /\ Len(list) \in Nat
  BY <1>1, ListTypes
<1>3. /\ b.i < Len(list) /\ b.i + 1 \in 1..Len(list) /\ m \in Classes
      /\ type[b.to] = m /\ type[b.from] = m
  <2>1. b.i < Len(list) /\ type[b.to] = m /\ type[b.from] = m
    BY <1>1 DEF CallInv, ChainInv
  <2> HIDE DEF list, b
  <2>2. b.i + 1 \in 1..Len(list)
    BY <1>1, <1>2, <2>1
  <2> QED
    BY <1>2, <2>1, <2>2
<1>4. PICK c : c = [b EXCEPT !.step = "assign", !.i = @ + 1, !.ran = @ \cup {m}]
  OBVIOUS
<1>5. /\ c \in Calls /\ c.step = "assign" /\ c.to = b.to /\ c.from = b.from
      /\ c.op = b.op /\ c.type = b.type /\ c.i = b.i + 1 /\ c.error = b.error
      /\ c.failed = b.failed /\ c.result = b.result /\ Active(c)
  <2>1. b.i + 1 \in Nat /\ b.ran \cup {m} \in SUBSET Classes
    <3> HIDE DEF m
    <3> QED
      BY <1>1, <1>3 DEF Calls
  <2> HIDE DEF m, b
  <2> QED
    BY <1>1, <1>4, <2>1 DEF Calls, Steps, Active, Running
<1>6. IsA(type[b.to], m) /\ IsA(type[b.from], m)
  BY <1>3, IsAReflexive
<1>7. /\ call' = [call EXCEPT ![t] = c]
      /\ UNCHANGED <<class, life, type, made, calls>>
      /\ member' = [member EXCEPT ![b.to][m] = member[b.from][m]]
  BY <1>4, <1>6 DEF AssignMethod, Goto
<1> HIDE DEF b, m
<1>8. Typed'
  BY <1>1, <1>3, <1>5, <1>7 DEF ChainsInv, Typed
<1>9. /\ member'[c.to][m] = member[c.from][m]
      /\ \A d \in Classes : d # m => member'[c.to][d] = member[c.to][d]
      /\ member'[c.from] = member[c.from]
      /\ \A o \in Objects \ {c.to, c.from} : Same(o)
  BY <1>1, <1>3, <1>5, <1>7 DEF ChainsInv, Typed, Same
<1>10. FormInv(c)'
  BY <1>1, <1>5 DEF CallInv, FormInv, Active, Running
<1>11. ToInv(c)'
  BY <1>1, <1>5, <1>7 DEF CallInv, ToInv
<1>12. FromInv(c)'
  BY <1>1, <1>5, <1>7 DEF CallInv, FromInv
<1>13. ChainInv(c)'
  <2>1. class'[c.type].assign = list
    BY <1>5, <1>7
  <2>2. c.i <= Len(list)
    BY <1>1, <1>2, <1>3, <1>5
  <2>3. c.error # "ignored" =>
          \A j \in 1..c.i : member'[c.to][list[j]] = member'[c.from][list[j]]
    <3> SUFFICES ASSUME c.error # "ignored", NEW j \in 1..c.i
                 PROVE  member'[c.to][list[j]] = member'[c.from][list[j]]
      OBVIOUS
    <3>1. list[j] \in Classes
      <4> HIDE DEF list
      <4>1. j \in 1..Len(list)
        BY <1>1, <1>2, <2>2, <1>5
      <4> QED
        BY <4>1, <1>2
    <3>2. CASE list[j] = m
      BY <3>2, <1>9
    <3>3. CASE list[j] # m
      <4>1. j \in 1..b.i
        BY <3>3, <1>1, <1>5 DEF m
      <4>2. member[b.to][list[j]] = member[b.from][list[j]]
        BY <1>1, <1>5, <4>1 DEF CallInv, ChainInv
      <4> QED
        BY <4>2, <3>1, <3>3, <1>5, <1>9
    <3> QED
      BY <3>2, <3>3
  <2> HIDE DEF list
  <2> QED
    BY <1>5, <2>1, <2>2, <2>3 DEF ChainInv
<1>14. \A o \in Objects : o \in {c.to, c.from} =>
         /\ life'[o] # "none"
         /\ life'[o] = "alive" => made'[o] \in Classes /\ class[made'[o]] # NULL
  BY <1>1, <1>5, <1>7, Held DEF b
<1> QED
  BY <1>1, <1>5, <1>7, <1>8, <1>9, <1>10, <1>11, <1>12, <1>13, <1>14, Continued
     DEF b, CallInv

LEMMA AssignFailsInv ==
  ASSUME ChainsInv, NEW t \in Threads, AssignFails(t)
  PROVE  ChainsInv'
<1> DEFINE b == call[t]
           list == class[b.type].assign
           m == list[b.i + 1]
<1>1. /\ b \in Calls /\ CallInv(b) /\ b.step = "exec" /\ Active(b)
      /\ b.to \in Objects /\ b.from \in Objects /\ b.to # b.from
      /\ b.type \in Classes /\ class[b.type] # NULL /\ ~b.failed
      /\ b.op \in {"assign", "copy"} /\ b.result = NULL /\ b.i \in Nat
  BY CallTypes, ChainsAssumption
     DEF AssignFails, At, CallInv, FormInv, ToInv, Active, Running, Steps
<1>2. list \in Seq(Classes) /\ Len(list) \in Nat
  BY <1>1, ListTypes
<1>3. b.i < Len(list) /\ m \in Classes
  <2>1. b.i < Len(list)
    BY <1>1 DEF CallInv, ChainInv
  <2> HIDE DEF list, b
  <2>2. b.i + 1 \in 1..Len(list)
    BY <1>1, <1>2, <2>1
  <2> QED
    BY <1>2, <2>1, <2>2
<1>4. PICK returns, c, e, failed :
        /\ returns \in BOOLEAN
        /\ e = IF returns THEN Raise(b.error) ELSE b.error
        /\ failed = (~returns \/ e = "filled")
        /\ c = [b EXCEPT !.step = IF failed THEN "restore" ELSE "assign",
                         !.i = @ + 1, !.error = e, !.failed = failed,
                         !.ran = @ \cup {m}]
        /\ call' = [call EXCEPT ![t] = c]
  BY DEF AssignFails, Goto
<1>5. /\ c \in Calls /\ c.to = b.to /\ c.from = b.from
      /\ c.op = b.op /\ c.type = b.type /\ c.i = b.i + 1
      /\ c.result = b.result
      /\ \/ c.step = "restore" /\ c.failed
         \/ c.step = "assign" /\ ~c.failed /\ c.error = "ignored"
  <2>1. b.i + 1 \in Nat /\ b.ran \cup {m} \in SUBSET Classes
    <3> HIDE DEF m
    <3> QED
      BY <1>1, <1>3 DEF Calls
  <2>2. /\ e \in {"ignored", "empty", "filled"} /\ failed \in BOOLEAN
        /\ ~failed => e = "ignored"
    <3> HIDE DEF b
    <3> QED
      BY <1>1, <1>4 DEF Calls, Raise
  <2> HIDE DEF m, b
  <2>3. /\ c \in Calls /\ c.to = b.to /\ c.from = b.from
        /\ c.op = b.op /\ c.type = b.type /\ c.i = b.i + 1
        /\ c.result = b.result /\ c.failed = failed /\ c.error = e
        /\ c.step = IF failed THEN "restore" ELSE "assign"
    <3>1. c = [b EXCEPT !.step = IF failed THEN "restore" ELSE "assign",
                        !.i = @ + 1, !.error = e, !.failed = failed,
                        !.ran = @ \cup {m}]
      BY <1>4
    <3>2. CASE failed
      BY <1>1, <2>1, <2>2, <3>1, <3>2 DEF Calls, Steps
    <3>3. CASE ~failed
      BY <1>1, <2>1, <2>2, <3>1, <3>3 DEF Calls, Steps
    <3> QED
      BY <3>2, <3>3
  <2> QED
    BY <2>2, <2>3
<1>6. Active(c)
  BY <1>5 DEF Active, Running, Steps
<1>7. UNCHANGED <<class, objectVars, calls>>
  BY DEF AssignFails
<1> HIDE DEF b, m
<1>8. Typed'
  BY <1>4, <1>5, <1>7 DEF ChainsInv, Typed, objectVars
<1>9. \A o \in Objects : Same(o)
  BY <1>7 DEF Same, objectVars
<1>10. FormInv(c)'
  BY <1>1, <1>5 DEF CallInv, FormInv, Active, Running
<1>11. ToInv(c)' /\ FromInv(c)'
  BY <1>1, <1>5, <1>7 DEF CallInv, ToInv, FromInv, objectVars
<1>12. ChainInv(c)'
  <2>1. c.i <= Len(list) /\ class'[c.type].assign = list
    BY <1>1, <1>2, <1>3, <1>5, <1>7
  <2> HIDE DEF list
  <2> QED
    BY <1>5, <2>1 DEF ChainInv
<1>13. \A o \in Objects : o \in {c.to, c.from} =>
         /\ life'[o] # "none"
         /\ life'[o] = "alive" => made'[o] \in Classes /\ class[made'[o]] # NULL
  BY <1>1, <1>5, <1>7, Held DEF b, objectVars
<1> QED
  <2>1. call' = [call EXCEPT ![t] = c]
    BY <1>4
  <2>2. CallInv(c)'
    BY <1>10, <1>11, <1>12 DEF CallInv
  <2> QED
    BY <1>1, <1>5, <1>6, <1>7, <1>8, <1>9, <1>13, <2>1, <2>2, Continued DEF b

LEMMA AssignRestoreInv ==
  ASSUME ChainsInv, NEW t \in Threads, AssignRestore(t)
  PROVE  ChainsInv'
<1> DEFINE b == call[t]
           list == class[b.type].assign
<1>1. /\ b \in Calls /\ CallInv(b) /\ b.step \in {"assign", "restore"}
      /\ Active(b) /\ b.failed \in BOOLEAN
      /\ b.to \in Objects /\ b.from \in Objects /\ b.to # b.from
      /\ b.to # NULL /\ b.type \in Classes /\ class[b.type] # NULL
      /\ b.op \in {"assign", "copy"} /\ b.result = NULL
      /\ made[b.to] = b.type /\ life[b.to] = "alive"
      /\ made[b.from] = b.type /\ life[b.from] = "alive"
  <2>1. b \in Calls /\ CallInv(b) /\ b.step \in {"assign", "restore"}
    BY CallTypes DEF AssignRestore, At
  <2> HIDE DEF b
  <2>2. Active(b) /\ b.failed \in BOOLEAN
    BY <2>1 DEF Active, Running, Steps, Calls
  <2>3. /\ b.to \in Objects /\ b.from \in Objects /\ b.to # b.from
        /\ b.op \in {"assign", "copy"} /\ b.result = NULL
    BY <2>1, <2>2, ChainsAssumption DEF CallInv, FormInv, Running, Steps
  <2>4. b.to # NULL /\ b.from # NULL
    BY <2>3, ChainsAssumption
  <2> QED
    BY <2>1, <2>2, <2>3, <2>4 DEF CallInv, ToInv, FromInv
<1>2. list \in Seq(Classes) /\ Len(list) \in Nat
  BY <1>1, ListTypes
<1>3. b.failed \/ (b.step = "assign" /\ b.i = Len(list))
  <2>1. CASE b.step = "restore"
    BY <1>1, <2>1 DEF CallInv, FormInv
  <2>2. CASE b.step = "assign"
    BY <2>2 DEF AssignRestore, At
  <2> QED
    BY <1>1, <2>1, <2>2
<1>4. PICK c : c = IF b.failed THEN [b EXCEPT !.step = "reject"]
                   ELSE [b EXCEPT !.step = "return", !.result = b.to]
  OBVIOUS
<1>5. /\ c \in Calls /\ c.to = b.to /\ c.from = b.from
      /\ c.op = b.op /\ c.error = b.error
      /\ \/ c.step = "reject" /\ c.result = NULL
         \/ c.step = "return" /\ c.result = b.to /\ ~b.failed
  <2> HIDE DEF b
  <2> QED
    BY <1>1, <1>4 DEF Calls, Steps
<1>6. Active(c)
  BY <1>1, <1>5 DEF Active, Running, Steps
<1>7. /\ call' = [call EXCEPT ![t] = c]
      /\ UNCHANGED <<class, life, member, made, calls>>
      /\ type' = [type EXCEPT ![b.to] = b.type, ![b.from] = b.type]
  BY <1>4 DEF AssignRestore, Goto
<1> HIDE DEF b
<1>8. Typed'
  BY <1>1, <1>5, <1>7 DEF ChainsInv, Typed
<1>9. /\ type'[c.to] = b.type /\ type'[c.from] = b.type
      /\ \A o \in Objects \ {c.to, c.from} : Same(o)
  BY <1>1, <1>5, <1>7 DEF ChainsInv, Typed, Same
<1>10. FormInv(c)'
  BY <1>1, <1>5 DEF CallInv, FormInv, Active, Running
<1>11. ToInv(c)' /\ FromInv(c)'
  BY <1>1, <1>5, <1>7, <1>9 DEF ToInv, FromInv
<1>12. ChainInv(c)'
  <2> SUFFICES ASSUME c.step = "return", c.error # "ignored",
                      NEW m \in HasAssign, IsA(b.type, m)
               PROVE  member[b.to][m] = member[b.from][m]
    BY <1>1, <1>5, <1>7 DEF ChainInv
  <2>1. PICK j \in 1..Len(list) : list[j] = m
    BY <1>1 DEF ChainsInv, ListInv, HasAll
  <2>2. j \in 1..b.i /\ b.step = "assign"
    BY <1>3, <1>5
  <2> QED
    BY <1>1, <1>5, <2>1, <2>2 DEF CallInv, ChainInv
<1>13. \A o \in Objects : o \in {c.to, c.from} =>
         /\ life'[o] # "none"
         /\ life'[o] = "alive" => made'[o] \in Classes /\ class[made'[o]] # NULL
  BY <1>1, <1>5, <1>7
<1> QED
  BY <1>1, <1>5, <1>6, <1>7, <1>8, <1>9, <1>10, <1>11, <1>12, <1>13, Continued
     DEF b, CallInv

LEMMA RejectInv ==
  ASSUME ChainsInv, NEW t \in Threads, Reject(t)
  PROVE  ChainsInv'
<1> DEFINE b == call[t]
<1>1. /\ b \in Calls /\ CallInv(b) /\ b.step = "reject" /\ Active(b)
      /\ b.to \in Objects /\ b.from \in Objects /\ b.from # NULL
      /\ b.to # b.from
      /\ life[b.to] = "alive" /\ type[b.to] = made[b.to]
      /\ life[b.from] = "alive" /\ type[b.from] = made[b.from]
      /\ b.op \in {"assign", "copy"} /\ b.result = NULL
  BY CallTypes, ChainsAssumption
     DEF Reject, At, CallInv, FormInv, ToInv, FromInv, Active, Running, Steps
<1>2. \A o \in {b.to, b.from} :
        life[o] # "none" /\ made[o] \in Classes /\ class[made[o]] # NULL
  BY <1>1, Held
<1>3. UNCHANGED <<class, objectVars, calls>>
  BY DEF Reject
<1>4. \A o \in Objects : Same(o)
  BY <1>3 DEF Same, objectVars
<1>5. CASE b.op = "copy"
  <2>1. PICK d : d = [b EXCEPT !.op = "destroy"]
    OBVIOUS
  <2>2. PICK c : c = ClearFrom(d, b.to)
    OBVIOUS
  <2>3. call' = [call EXCEPT ![t] = c]
    BY <1>5, <2>1, <2>2 DEF Reject, Goto
  <2>4. Busy(t, b.to) /\ Busy(t, b.from) /\ Active(call[t])
    BY <1>1 DEF Busy
  <2> HIDE DEF b
  <2>5. /\ d \in Calls /\ d.to = b.to /\ d.from = b.from /\ d.op = "destroy"
        /\ d.result = NULL
    BY <1>1, <2>1 DEF Calls, Ops
  <2>6. /\ c \in Calls /\ CallInv(c)' /\ Active(c)
        /\ c.to = b.to /\ c.from = b.from
    BY <1>1, <1>2, <1>3, <2>2, <2>5, ClearFromInv
  <2>7. Typed'
    BY <1>3, <2>3, <2>6 DEF ChainsInv, Typed, objectVars
  <2>8. \A o \in Objects : o \in {c.to, c.from} =>
          /\ life'[o] # "none"
          /\ life'[o] = "alive" => made'[o] \in Classes /\ class[made'[o]] # NULL
    BY <1>2, <1>3, <2>6 DEF objectVars
  <2> QED
    BY <1>3, <1>4, <2>3, <2>4, <2>6, <2>7, <2>8, Continued DEF b
<1>6. CASE b.op # "copy"
  <2>1. PICK c : c = [b EXCEPT !.step = "return"]
    OBVIOUS
  <2>2. call' = [call EXCEPT ![t] = c]
    BY <1>6, <2>1 DEF Reject, Goto
  <2>3. \A o \in Objects : Busy(t, o) <=> o \in {b.to, b.from}
    BY <1>1 DEF Busy
  <2> HIDE DEF b
  <2>4. /\ c \in Calls /\ c.to = b.to /\ c.from = b.from /\ c.op = b.op
        /\ c.step = "return" /\ c.result = NULL
    BY <1>1, <2>1 DEF Calls, Steps
  <2>5. FormInv(c)
    BY <1>1, <2>4 DEF CallInv, FormInv, Active, Running
  <2>6. CallInv(c)' /\ ~Active(c)
    BY <2>4, <2>5, Resting
  <2>7. Typed'
    BY <1>3, <2>2, <2>4 DEF ChainsInv, Typed, objectVars
  <2>8. \A o \in Objects : Busy(t, o) /\ life'[o] = "alive" =>
          made'[o] \in Classes /\ class[made'[o]] # NULL /\ type'[o] = made'[o]
    BY <1>1, <1>2, <1>3, <2>3 DEF objectVars
  <2> QED
    BY <1>3, <1>4, <2>2, <2>6, <2>7, <2>8, Ended
<1> QED
  BY <1>5, <1>6

LEMMA ReturnInv ==
  ASSUME ChainsInv, NEW t \in Threads, Return(t)
  PROVE  ChainsInv'
<1> DEFINE b == call[t]
<1>1. /\ b \in Calls /\ CallInv(b) /\ b.step = "return"
  BY CallTypes DEF Return, At
<1>2. PICK c : c = NoCall
  OBVIOUS
<1>3. /\ call' = [call EXCEPT ![t] = c]
      /\ UNCHANGED <<class, objectVars, calls>>
  BY <1>2 DEF Return, Goto
<1>4. /\ c \in Calls /\ c.step = "idle" /\ c.result = NULL /\ c.to = NULL
      /\ c.from = NULL
  BY <1>2 DEF NoCall, Calls, Ops, Steps
<1>5. CallInv(c)' /\ ~Active(c)
  <2>1. ~Active(c)
    BY <1>4 DEF Active, Running
  <2>2. FormInv(c)' /\ ToInv(c)' /\ FromInv(c)' /\ ChainInv(c)'
    BY <1>2, <1>4, <2>1 DEF FormInv, ToInv, FromInv, ChainInv, Active, Running
  <2> QED
    BY <2>1, <2>2 DEF CallInv
<1>6. Typed'
  BY <1>3, <1>4 DEF ChainsInv, Typed, objectVars
<1>7. \A o \in Objects : Busy(t, o) /\ life[o] = "alive" =>
        made[o] \in Classes /\ class[made[o]] # NULL /\ type[o] = made[o]
  <2> SUFFICES ASSUME NEW o \in Objects, Busy(t, o), life[o] = "alive"
               PROVE  /\ made[o] \in Classes /\ class[made[o]] # NULL
                      /\ type[o] = made[o]
    OBVIOUS
  <2>1. Active(b) /\ o \in {b.to, b.from} /\ o # NULL
    BY ChainsAssumption DEF Busy
  <2>2. type[o] = made[o]
    BY <1>1, <2>1 DEF CallInv, ToInv, FromInv
  <2> QED
    BY <2>1, <2>2, Held
<1>8. \A o \in Objects : Same(o)
  BY <1>3 DEF Same, objectVars
<1> QED
  BY <1>3, <1>5, <1>6, <1>7, <1>8, Ended DEF objectVars

-----------------------------------------------------------------------------
(* The calls that begin. *)

(* A thread between calls works on nothing.                                *)
LEMMA Begun ==
  ASSUME ChainsInv, NEW t \in Threads, NEW c, Start(t, c)
  PROVE  /\ call[t] = NoCall /\ call' = [call EXCEPT ![t] = c]
         /\ calls' = [calls EXCEPT ![t] = @ + 1] /\ UNCHANGED class
         /\ \A o \in Objects : ~Busy(t, o)
<1>1. call[t] = NoCall
  BY DEF ChainsInv, CallInv, FormInv, Start, At
<1>2. ~Active(call[t])
  BY <1>1 DEF NoCall, Active, Running
<1> QED
  BY <1>1, <1>2 DEF Start, Goto, Busy

(* What nobody uses is of the class it was made as.                        *)
LEMMA UnusedIsSound ==
  ASSUME ChainsInv, NEW o \in Objects, Unused(o)
  PROVE  /\ \A u \in Threads : ~Busy(u, o)
         /\ life[o] = "alive" =>
              type[o] = made[o] /\ made[o] \in Classes /\ class[made[o]] # NULL
<1>1. \A u \in Threads : ~Busy(u, o)
  BY DEF Unused, Busy
<1> QED
  BY <1>1 DEF ChainsInv, Sound

LEMMA CallCreateInv ==
  ASSUME ChainsInv, NEW t \in Threads, NEW o \in Objects, NEW k \in Classes,
         NEW e \in Locations, CallCreate(t, o, k, e)
  PROVE  ChainsInv'
<1>1. PICK c : c = [NoCall EXCEPT !.op = "create", !.step = "alloc", !.to = o,
                                  !.type = k, !.error = e]
  OBVIOUS
<1>2. /\ c \in Calls /\ c.op = "create" /\ c.step = "alloc" /\ c.to = o
      /\ c.from = NULL /\ c.type = k /\ c.i = 0 /\ c.error = e /\ ~c.failed
      /\ c.result = NULL /\ Active(c)
  BY <1>1 DEF NoCall, Calls, Ops, Steps, Locations, Active, Running
<1>3. /\ call' = [call EXCEPT ![t] = c] /\ UNCHANGED <<class, type, member, made>>
      /\ calls' = [calls EXCEPT ![t] = @ + 1]
      /\ life[o] = "none" /\ class[k] # NULL
      /\ life' = [life EXCEPT ![o] = "making"]
      /\ \A x \in Objects : ~Busy(t, x)
  BY <1>1, Begun DEF CallCreate
<1>4. o # NULL /\ \A u \in Threads : ~Busy(u, o)
  BY <1>3, ChainsAssumption DEF ChainsInv, BusyInv
<1>5. Typed'
  BY <1>2, <1>3 DEF ChainsInv, Typed
<1>6. life'[o] = "making" /\ \A x \in Objects : x # o => Same(x)
  BY <1>3 DEF ChainsInv, Typed, Same
<1>7. CallInv(c)'
  <2>1. FormInv(c)'
    BY <1>2, <1>4 DEF FormInv, Active, Running, Steps, Locations
  <2>2. ToInv(c)' /\ FromInv(c)'
    BY <1>2, <1>3, <1>6 DEF ToInv, FromInv
  <2>3. ChainInv(c)'
    BY <1>2 DEF ChainInv
  <2> QED
    BY <2>1, <2>2, <2>3 DEF CallInv
<1> QED
  BY <1>2, <1>3, <1>4, <1>5, <1>6, <1>7, ChainsAssumption, OneCall

LEMMA CallCopyInv ==
  ASSUME ChainsInv, "shared_source" \notin Freedoms,
         NEW t \in Threads, NEW o \in Objects, NEW from \in Objects,
         NEW e \in Locations, CallCopy(t, o, from, e)
  PROVE  ChainsInv'
<1>1. PICK c : c = [NoCall EXCEPT !.op = "copy", !.step = "alloc", !.to = o,
                                  !.from = from, !.type = type[from], !.error = e]
  OBVIOUS
<1>2. /\ call' = [call EXCEPT ![t] = c] /\ UNCHANGED <<class, type, member, made>>
      /\ calls' = [calls EXCEPT ![t] = @ + 1]
      /\ life[o] = "none" /\ life[from] = "alive" /\ Unused(from)
      /\ life' = [life EXCEPT ![o] = "making"]
      /\ \A x \in Objects : ~Busy(t, x)
  BY <1>1, Begun DEF CallCopy, Readable
<1>3. /\ type[from] = made[from] /\ made[from] \in Classes
      /\ class[made[from]] # NULL /\ \A u \in Threads : ~Busy(u, from)
  BY <1>2, UnusedIsSound
<1>4. /\ c \in Calls /\ c.op = "copy" /\ c.step = "alloc" /\ c.to = o
      /\ c.from = from /\ c.type = made[from] /\ c.i = 0 /\ c.error = e
      /\ ~c.failed /\ c.result = NULL /\ Active(c)
  BY <1>1, <1>3 DEF NoCall, Calls, Ops, Steps, Locations, Active, Running
<1>5. o # NULL /\ o # from /\ \A u \in Threads : ~Busy(u, o)
  BY <1>2, ChainsAssumption DEF ChainsInv, BusyInv
<1>6. Typed'
  BY <1>2, <1>4 DEF ChainsInv, Typed
<1>7. life'[o] = "making" /\ \A x \in Objects : x # o => Same(x)
  BY <1>2 DEF ChainsInv, Typed, Same
<1>8. CallInv(c)'
  <2>1. FormInv(c)'
    BY <1>4, <1>5 DEF FormInv, Active, Running, Steps, Locations
  <2>2. ToInv(c)' /\ FromInv(c)'
    BY <1>2, <1>3, <1>4, <1>5, <1>7 DEF ToInv, FromInv, Same
  <2>3. ChainInv(c)'
    BY <1>4 DEF ChainInv
  <2> QED
    BY <2>1, <2>2, <2>3 DEF CallInv
<1>9. \A x \in Objects, u \in Threads : u # t /\ Busy(u, x) => Same(x)
  BY <1>5, <1>7
<1>10. \A x \in Objects : x \in {c.to, c.from} =>
         life'[x] # "none" /\ \A u \in Threads : u # t => ~Busy(u, x)
  BY <1>2, <1>3, <1>4, <1>5, <1>7 DEF Same
<1>11. \A x \in Objects : (Busy(t, x) \/ ~Same(x)) => life'[x] # "alive"
  BY <1>2, <1>7
<1> QED
  BY <1>2, <1>4, <1>6, <1>8, <1>9, <1>10, <1>11, OneCall

LEMMA CallAssignInv ==
  ASSUME ChainsInv, "shared_source" \notin Freedoms,
         NEW t \in Threads, NEW o \in Objects, NEW from \in Objects,
         NEW e \in Locations, CallAssign(t, o, from, e)
  PROVE  ChainsInv'
<1>1. PICK c : c = [NoCall EXCEPT !.op = "assign", !.step = "compare", !.to = o,
                                  !.from = from, !.error = e]
  OBVIOUS
<1>2. /\ call' = [call EXCEPT ![t] = c] /\ UNCHANGED <<class, objectVars>>
      /\ calls' = [calls EXCEPT ![t] = @ + 1] /\ o # from
      /\ life[o] = "alive" /\ Unused(o) /\ life[from] = "alive" /\ Unused(from)
  BY <1>1, Begun DEF CallAssign, Readable
<1>3. /\ c \in Calls /\ c.op = "assign" /\ c.step = "compare" /\ c.to = o
      /\ c.from = from /\ c.i = 0 /\ c.error = e
      /\ ~c.failed /\ c.result = NULL /\ Active(c)
  BY <1>1 DEF NoCall, Calls, Ops, Steps, Locations, Active, Running
<1>4. \A x \in {o, from} :
        /\ type[x] = made[x] /\ made[x] \in Classes /\ class[made[x]] # NULL
        /\ life[x] = "alive" /\ \A u \in Threads : ~Busy(u, x)
  BY <1>2, UnusedIsSound
<1>5. Typed'
  BY <1>2, <1>3 DEF ChainsInv, Typed, objectVars
<1>6. \A x \in Objects : Same(x)
  BY <1>2 DEF Same, objectVars
<1>7. CallInv(c)'
  <2>1. FormInv(c)'
    BY <1>2, <1>3 DEF FormInv, Active, Running, Steps, Locations
  <2>2. ToInv(c)' /\ FromInv(c)'
    BY <1>2, <1>3, <1>4 DEF ToInv, FromInv, objectVars
  <2>3. ChainInv(c)'
    BY <1>3 DEF ChainInv
  <2> QED
    BY <2>1, <2>2, <2>3 DEF CallInv
<1>8. \A x \in Objects : ~Busy(t, x)
  BY Begun DEF CallAssign
<1>9. \A x \in Objects : x \in {c.to, c.from} =>
        life'[x] # "none" /\ \A u \in Threads : u # t => ~Busy(u, x)
  BY <1>3, <1>4, <1>6 DEF Same
<1> QED
  BY <1>2, <1>3, <1>5, <1>6, <1>7, <1>8, <1>9, OneCall

LEMMA CallClearInv ==
  ASSUME ChainsInv, NEW t \in Threads, NEW o \in Objects,
         NEW op \in {"clear", "destroy"}, CallClear(t, o, op)
  PROVE  ChainsInv'
<1>1. PICK d : d = [NoCall EXCEPT !.op = op, !.to = o]
  OBVIOUS
<1>2. PICK c : c = ClearFrom(d, o)
  OBVIOUS
<1>3. /\ call' = [call EXCEPT ![t] = c] /\ UNCHANGED <<class, objectVars>>
      /\ calls' = [calls EXCEPT ![t] = @ + 1]
      /\ life[o] = "alive" /\ Unused(o) /\ \A x \in Objects : ~Busy(t, x)
  BY <1>1, <1>2, Begun DEF CallClear
<1>4. /\ d \in Calls /\ d.op = op /\ d.to = o /\ d.from = NULL
      /\ d.result = NULL /\ o # NULL
  BY <1>1, ChainsAssumption DEF NoCall, Calls, Ops, Steps
<1>5. /\ type[o] = made[o] /\ made[o] \in Classes /\ class[made[o]] # NULL
      /\ \A u \in Threads : ~Busy(u, o)
  BY <1>3, UnusedIsSound
<1>6. /\ c \in Calls /\ CallInv(c)' /\ Active(c) /\ c.to = o /\ c.from = NULL
  BY <1>2, <1>3, <1>4, <1>5, ClearFromInv
<1>7. Typed'
  BY <1>3, <1>6 DEF ChainsInv, Typed, objectVars
<1>8. \A x \in Objects : Same(x)
  BY <1>3 DEF Same, objectVars
<1>9. \A x \in Objects : x \in {c.to, c.from} =>
        life'[x] # "none" /\ \A u \in Threads : u # t => ~Busy(u, x)
  BY <1>3, <1>5, <1>6, <1>8, ChainsAssumption DEF Same
<1> QED
  BY <1>3, <1>6, <1>7, <1>8, <1>9, OneCall

LEMMA SetMemberInv ==
  ASSUME ChainsInv, NEW t \in Threads, NEW o \in Objects, NEW k \in Classes,
         NEW v \in Values, SetMember(t, o, k, v)
  PROVE  ChainsInv'
<1>1. PICK c : c = [NoCall EXCEPT !.step = "return"]
  OBVIOUS
<1>2. /\ call' = [call EXCEPT ![t] = c] /\ UNCHANGED <<class, life, type, made>>
      /\ calls' = [calls EXCEPT ![t] = @ + 1]
      /\ life[o] = "alive" /\ Unused(o) /\ \A x \in Objects : ~Busy(t, x)
      /\ member' = [member EXCEPT ![o][k] = v]
  BY <1>1, Begun DEF SetMember
<1>3. /\ c \in Calls /\ c.op = "clear" /\ c.step = "return" /\ c.to = NULL
      /\ c.from = NULL /\ c.result = NULL
  BY <1>1 DEF NoCall, Calls, Ops, Steps
<1>4. FormInv(c)
  BY <1>3 DEF FormInv, Active, Running
<1>5. CallInv(c)' /\ ~Active(c)
  BY <1>3, <1>4, Resting
<1>6. /\ type[o] = made[o] /\ made[o] \in Classes /\ class[made[o]] # NULL
      /\ \A u \in Threads : ~Busy(u, o)
  BY <1>2, UnusedIsSound
<1>7. Typed'
  BY <1>2, <1>3 DEF ChainsInv, Typed, Data
<1>8. \A x \in Objects : x # o => Same(x)
  BY <1>2 DEF ChainsInv, Typed, Same
<1> QED
  BY <1>2, <1>5, <1>6, <1>7, <1>8, OneCall

-----------------------------------------------------------------------------
(* A class is made: the lists of the others stay as they are.              *)
LEMMA InitTypeInv ==
  ASSUME ChainsInv, NEW k \in Classes, y_init_type(k)
  PROVE  ChainsInv'
<1> DEFINE super == IF Super[k] = NULL THEN NoMethods ELSE class[Super[k]]
           List(inherited, owners) ==
             IF k \in owners THEN y_MethodList_extend(inherited, k)
             ELSE inherited
<1>1. PICK l : l = [init   |-> List(super.init, HasInit),
                    assign |-> List(super.assign, HasAssign),
                    clear  |-> List(super.clear, HasClear)]
  OBVIOUS
<1>2. /\ class' = [class EXCEPT ![k] = l] /\ class[k] = NULL
      /\ Super[k] # NULL => class[Super[k]] # NULL
      /\ UNCHANGED <<objectVars, call, calls>>
  BY <1>1 DEF y_init_type
<1>3. super \in MethodLists
  <2>1. CASE Super[k] = NULL
    BY <2>1 DEF NoMethods, MethodLists
  <2>2. CASE Super[k] # NULL
    <3>1. Super[k] \in Classes
      BY <2>2, ChainsAssumption
    <3> QED
      BY <1>2, <2>2, <3>1 DEF ChainsInv, Typed
  <2> QED
    BY <2>1, <2>2
<1>4. ASSUME NEW s \in Seq(Classes), NEW owners \in SUBSET Classes,
             \A d \in owners : d # k /\ IsA(k, d) =>
               \E j \in 1..Len(s) : s[j] = d
      PROVE  /\ List(s, owners) \in Seq(Classes)
             /\ HasAll(List(s, owners), k, owners)
  <2>1. CASE k \in owners
    <3>1. /\ Append(s, k) \in Seq(Classes) /\ Len(Append(s, k)) = Len(s) + 1
          /\ Append(s, k)[Len(s) + 1] = k /\ Len(s) \in Nat
          /\ \A j \in 1..Len(s) : Append(s, k)[j] = s[j]
      OBVIOUS
    <3>2. \A j \in 1..Len(s) + 1 : j \in 1..Len(Append(s, k))
      BY <3>1
    <3>3. Len(s) + 1 \in 1..Len(s) + 1 /\ \A j \in 1..Len(s) : j \in 1..Len(s) + 1
      BY <3>1
    <3> QED
      BY <1>4, <2>1, <3>1, <3>2, <3>3 DEF y_MethodList_extend, HasAll
  <2>2. CASE k \notin owners
    BY <1>4, <2>2 DEF HasAll
  <2> QED
    BY <2>1, <2>2
<1>5. ASSUME NEW d \in Classes, d # k, IsA(k, d)
      PROVE  /\ d \in HasInit => \E j \in 1..Len(super.init) : super.init[j] = d
             /\ d \in HasAssign =>
                  \E j \in 1..Len(super.assign) : super.assign[j] = d
             /\ d \in HasClear => \E j \in 1..Len(super.clear) : super.clear[j] = d
  <2>1. Super[k] # NULL /\ Super[k] \in Classes /\ IsA(Super[k], d)
    BY <1>5, IsAStep
  <2> QED
    BY <1>2, <2>1 DEF ChainsInv, ListInv, HasAll
<1>6. /\ l \in MethodLists
      /\ HasAll(l.init, k, HasInit) /\ HasAll(l.assign, k, HasAssign)
      /\ HasAll(l.clear, k, HasClear)
  <2>1. /\ super.init \in Seq(Classes) /\ super.assign \in Seq(Classes)
        /\ super.clear \in Seq(Classes)
    BY <1>3 DEF MethodLists
  <2>2. /\ HasInit \in SUBSET Classes /\ HasAssign \in SUBSET Classes
        /\ HasClear \in SUBSET Classes
    BY ChainsAssumption
  <2>3. /\ List(super.init, HasInit) \in Seq(Classes)
        /\ HasAll(List(super.init, HasInit), k, HasInit)
    <3> HIDE DEF super, List
    <3> QED
      BY <1>4, <1>5, <2>1, <2>2
  <2>4. /\ List(super.assign, HasAssign) \in Seq(Classes)
        /\ HasAll(List(super.assign, HasAssign), k, HasAssign)
    <3> HIDE DEF super, List
    <3> QED
      BY <1>4, <1>5, <2>1, <2>2
  <2>5. /\ List(super.clear, HasClear) \in Seq(Classes)
        /\ HasAll(List(super.clear, HasClear), k, HasClear)
    <3> HIDE DEF super, List
    <3> QED
      BY <1>4, <1>5, <2>1, <2>2
  <2> HIDE DEF super, List
  <2> QED
    BY <1>1, <2>3, <2>4, <2>5 DEF MethodLists
<1> HIDE DEF super, List
<1>7. /\ class'[k] = l /\ l # NULL
      /\ \A c \in Classes : class[c] # NULL => class'[c] = class[c]
      /\ \A c \in Classes : c # k => class'[c] = class[c]
  BY <1>2, <1>6, ChainsAssumption DEF ChainsInv, Typed
<1>8. Typed'
  BY <1>2, <1>6 DEF ChainsInv, Typed, objectVars
<1>9. ListInv'
  BY <1>6, <1>7 DEF ChainsInv, ListInv
<1>10. BusyInv'
  BY <1>2 DEF ChainsInv, BusyInv, Busy, objectVars
<1>11. \A o \in Objects : Sound(o)'
  BY <1>2, <1>7 DEF ChainsInv, Sound, Busy, objectVars
<1>12. ASSUME NEW u \in Threads
       PROVE  CallInv(call[u])'
  <2>1. PICK c : c = call[u]
    OBVIOUS
  <2>2. CallInv(c) /\ UNCHANGED <<call, life, type, member, made>>
    BY <1>2, <2>1 DEF ChainsInv, objectVars
  <2>3. c.step \in {"alloc", "init", "clear", "assign", "exec", "restore"} =>
          c.type \in Classes /\ class[c.type] # NULL /\ class'[c.type] = class[c.type]
    BY <1>7, <2>2 DEF CallInv, ToInv
  <2>4. FormInv(c)'
    BY <2>2 DEF CallInv, FormInv, Active, Running
  <2>5. ToInv(c)' /\ FromInv(c)'
    BY <2>2, <2>3 DEF CallInv, ToInv, FromInv
  <2>6. ChainInv(c)'
    BY <2>2, <2>3 DEF CallInv, ChainInv
  <2> QED
    BY <2>1, <2>2, <2>4, <2>5, <2>6 DEF CallInv
<1> QED
  BY <1>8, <1>9, <1>10, <1>11, <1>12 DEF ChainsInv

-----------------------------------------------------------------------------
(* The invariant holds. *)

LEMMA InitInv ==
  Init => ChainsInv
<1> SUFFICES ASSUME Init
             PROVE  ChainsInv
  OBVIOUS
<1>1. PICK c : c = NoCall
  OBVIOUS
<1>2. /\ c \in Calls /\ c.step = "idle" /\ c.result = NULL /\ c.to = NULL
      /\ c.from = NULL
  BY <1>1 DEF NoCall, Calls, Ops, Steps
<1>3. \A t \in Threads : call[t] = c
  BY <1>1 DEF Init
<1>4. ~Active(c)
  BY <1>2 DEF Active, Running
<1>5. CallInv(c)
  BY <1>1, <1>2, <1>4 DEF CallInv, FormInv, ToInv, FromInv, ChainInv, Active,
     Running
<1>6. Typed
  BY <1>1, <1>2 DEF Init, Typed, Data
<1>7. ListInv
  BY DEF Init, ListInv
<1>8. BusyInv /\ \A o \in Objects : Sound(o)
  BY <1>3, <1>4 DEF Init, BusyInv, Busy, Sound
<1> QED
  BY <1>3, <1>5, <1>6, <1>7, <1>8 DEF ChainsInv

LEMMA StutterInv ==
  ASSUME ChainsInv, UNCHANGED vars
  PROVE  ChainsInv'
<1>1. UNCHANGED <<class, life, type, member, made, call, calls>>
  BY DEF vars, objectVars
<1>2. Typed' /\ ListInv' /\ BusyInv'
  BY <1>1 DEF ChainsInv, Typed, ListInv, HasAll, BusyInv, Busy
<1>3. \A o \in Objects : Sound(o)'
  BY <1>1 DEF ChainsInv, Sound, Busy
<1>4. ASSUME NEW t \in Threads
      PROVE  CallInv(call[t])'
  BY <1>1, OthersKeep DEF Same
<1> QED
  BY <1>2, <1>3, <1>4 DEF ChainsInv

LEMMA StepInv ==
  ASSUME ChainsInv, NEW t \in Threads, Step(t)
  PROVE  ChainsInv'
<1>1. CASE Allocate(t)
  BY <1>1, AllocateInv
<1>2. CASE AllocateFails(t)
  BY <1>2, AllocateFailsInv
<1>3. CASE InitMethod(t)
  BY <1>3, InitMethodInv
<1>4. CASE InitFails(t)
  BY <1>4, InitFailsInv
<1>5. CASE Abandon(t)
  BY <1>5, FreeInv DEF Abandon, At
<1>6. CASE EndInit(t)
  BY <1>6, EndInitInv
<1>7. CASE ClearMethod(t)
  BY <1>7, ClearMethodInv
<1>8. CASE EndClear(t)
  BY <1>8, EndClearInv
<1>9. CASE FreeObject(t)
  BY <1>9, FreeInv DEF FreeObject, At
<1>10. CASE Compare(t)
  BY <1>10, CompareInv
<1>11. CASE AssignBless(t)
  BY <1>11, AssignBlessInv
<1>12. CASE AssignMethod(t)
  BY <1>12, AssignMethodInv
<1>13. CASE AssignFails(t)
  BY <1>13, AssignFailsInv
<1>14. CASE AssignRestore(t)
  BY <1>14, AssignRestoreInv
<1>15. CASE Reject(t)
  BY <1>15, RejectInv
<1>16. CASE Return(t)
  BY <1>16, ReturnInv
<1> QED
  BY <1>1, <1>2, <1>3, <1>4, <1>5, <1>6, <1>7, <1>8, <1>9, <1>10, <1>11, <1>12,
     <1>13, <1>14, <1>15, <1>16 DEF Step

LEMMA ClientInv ==
  ASSUME ChainsInv, "shared_source" \notin Freedoms, NEW t \in Threads, Client(t)
  PROVE  ChainsInv'
BY CallCreateInv, CallCopyInv, CallAssignInv, CallClearInv, SetMemberInv
   DEF Client

LEMMA NextInv ==
  ASSUME ChainsInv, "shared_source" \notin Freedoms, [Next]_vars
  PROVE  ChainsInv'
<1>1. CASE \E k \in Classes : y_init_type(k)
  BY <1>1, InitTypeInv
<1>2. CASE \E t \in Threads : Step(t) \/ Client(t)
  BY <1>2, StepInv, ClientInv
<1>3. CASE Rest \/ UNCHANGED vars
  BY <1>3, StutterInv DEF Rest
<1> QED
  BY <1>1, <1>2, <1>3 DEF Next

(* No two calls work on the same object, every list of a class has the     *)
(* methods of all that its objects are, and every call has come as far in  *)
(* its chain as its index says.                                            *)
THEOREM Invariance ==
  ASSUME "shared_source" \notin Freedoms
  PROVE  Spec => []ChainsInv
<1>1. Init => ChainsInv
  BY InitInv
<1>2. ChainsInv /\ [Next]_vars => ChainsInv'
  BY NextInv
<1> QED
  BY <1>1, <1>2, PTL DEF Spec

(* Every variable keeps its type and every call its fields; no chain goes  *)
(* past the end of its list, whatever the hierarchy and whatever fails.    *)
THEOREM TypeCorrectness ==
  ASSUME "shared_source" \notin Freedoms
  PROVE  Spec => []TypeOK
<1>1. ChainsInv => TypeOK
  <2>1. ASSUME NEW c, ChainInv(c)
        PROVE  InBounds(c)
    BY <2>1 DEF ChainInv, InBounds
  <2> QED
    BY <2>1 DEF ChainsInv, CallInv, TypeOK
<1> QED
  BY <1>1, Invariance, PTL

(* Between calls every object has the class it was made as (y_assign puts  *)
(* it back after a failure, too).                                          *)
THEOREM ClassesRestored ==
  ASSUME "shared_source" \notin Freedoms
  PROVE  Spec => []TypeRestored
<1>1. ChainsInv => TypeRestored
  BY UnusedIsSound DEF TypeRestored
<1> QED
  BY <1>1, Invariance, PTL

(* What y_copy and y_assign return has the class and every member of the   *)
(* source, unless errors are ignored.                                      *)
THEOREM CopiesAreFaithful ==
  ASSUME "shared_source" \notin Freedoms
  PROVE  Spec => []CopyFaithful
<1>1. ASSUME ChainsInv
      PROVE  CopyFaithful
  <2> SUFFICES ASSUME NEW t \in Threads, call[t].step = "return",
                      call[t].op \in {"copy", "assign"},
                      call[t].result # NULL, call[t].error # "ignored"
               PROVE  /\ type[call[t].to] = made[call[t].from]
                      /\ \A m \in HasAssign : IsA(made[call[t].from], m) =>
                           member[call[t].to][m] = member[call[t].from][m]
    BY DEF CopyFaithful
  <2>1. Active(call[t]) /\ CallInv(call[t])
    BY <1>1, CallTypes DEF Active
  <2> QED
    BY <2>1 DEF CallInv, ToInv, ChainInv
<1> QED
  BY <1>1, Invariance, PTL

-----------------------------------------------------------------------------
(* The two ends of an object's life. *)

(* Only these actions change what there is of an object.                   *)
LEMMA LivesChange ==
  ASSUME ChainsInv, [Next]_vars, NEW o \in Objects, life'[o] # life[o]
  PROVE  \/ life'[o] = "making"
         \/ \E t \in Threads :
              /\ call[t].to = o
              /\ Abandon(t) \/ EndInit(t) \/ FreeObject(t)
<1>1. life \in [Objects -> {"none", "making", "alive"}]
  BY DEF ChainsInv, Typed
<1>2. UNCHANGED life => FALSE
  OBVIOUS
<1>3. CASE (\E k \in Classes : y_init_type(k)) \/ Rest \/ UNCHANGED vars
  BY <1>2, <1>3 DEF y_init_type, Rest, vars, objectVars
<1>4. CASE \E t \in Threads : Client(t)
  BY <1>1, <1>2, <1>4 DEF Client, CallCreate, CallCopy, CallAssign, CallClear,
     SetMember, objectVars
<1>5. CASE \E t \in Threads : Step(t)
  <2>1. PICK t \in Threads : Step(t)
    BY <1>5
  <2>2. CASE Abandon(t) \/ EndInit(t) \/ FreeObject(t)
    BY <1>1, <2>2 DEF Abandon, EndInit, FreeObject, FreePool
  <2>3. CASE ~(Abandon(t) \/ EndInit(t) \/ FreeObject(t))
    BY <1>2, <2>1, <2>3 DEF Step, Allocate, AllocateFails, InitMethod, InitFails,
       ClearMethod, EndClear, Compare, AssignBless, AssignMethod, AssignFails,
       AssignRestore, Reject, Return, objectVars
  <2> QED
    BY <2>2, <2>3
<1> QED
  BY <1>3, <1>4, <1>5 DEF Next

(* An object that comes alive was set up by every class it is of, unless   *)
(* errors are ignored.                                                     *)
THEOREM ObjectsMadeWhole ==
  ASSUME "shared_source" \notin Freedoms
  PROVE  Spec => MadeWhole
<1> DEFINE Whole(o) ==
      life[o] = "making" /\ life'[o] = "alive" =>
        /\ type'[o] = made[o]
        /\ \/ \E t \in Threads : call[t].to = o /\ call[t].error = "ignored"
           \/ \A c \in HasInit : IsA(made[o], c) => member[o][c] = Fresh
<1>1. ASSUME ChainsInv, [Next]_vars, NEW o \in Objects
      PROVE  Whole(o)
  <2> SUFFICES ASSUME life[o] = "making", life'[o] = "alive"
               PROVE  /\ type'[o] = made[o]
                      /\ \/ \E t \in Threads :
                              call[t].to = o /\ call[t].error = "ignored"
                         \/ \A c \in HasInit :
                              IsA(made[o], c) => member[o][c] = Fresh
    OBVIOUS
  <2>1. PICK t \in Threads : /\ call[t].to = o
                             /\ Abandon(t) \/ EndInit(t) \/ FreeObject(t)
    BY <1>1, LivesChange
  <2>2. life \in [Objects -> {"none", "making", "alive"}]
    BY <1>1 DEF ChainsInv, Typed
  <2>3. EndInit(t)
    BY <2>1, <2>2 DEF Abandon, FreeObject, FreePool
  <2> DEFINE k == call[t].type
  <2>4. /\ call[t].step = "init" /\ k \in Classes /\ class[k] # NULL
        /\ made[o] = k /\ call[t].i = Len(class[k].init) /\ CallInv(call[t])
    BY <1>1, <2>1, <2>3, CallTypes DEF EndInit, At, CallInv, ToInv
  <2>5. type'[o] = made[o]
    BY <1>1, <2>1, <2>3, <2>4 DEF EndInit, ChainsInv, Typed
  <2>6. ASSUME call[t].error # "ignored", NEW c \in HasInit, IsA(made[o], c)
        PROVE  member[o][c] = Fresh
    <3>1. PICK j \in 1..Len(class[k].init) : class[k].init[j] = c
      BY <1>1, <2>4, <2>6 DEF ChainsInv, ListInv, HasAll
    <3> QED
      BY <2>1, <2>4, <2>6, <3>1 DEF CallInv, ChainInv
  <2> QED
    BY <2>1, <2>5, <2>6
<1>2. ChainsInv /\ [Next]_vars => [\A o \in Objects : Whole(o)]_vars
  BY <1>1
<1> QED
  BY <1>2, Invariance, PTL DEF Spec, MadeWhole

(* An object's memory goes only after every class it is of has cleared its *)
(* member.                                                                 *)
THEOREM ObjectsFreedCleared ==
  ASSUME "shared_source" \notin Freedoms
  PROVE  Spec => FreedCleared
<1> DEFINE Cleared(o) ==
      life[o] = "alive" /\ life'[o] = "none" =>
        \A c \in HasClear : IsA(made[o], c) => member[o][c] = Zero
<1>1. ASSUME ChainsInv, [Next]_vars, NEW o \in Objects
      PROVE  Cleared(o)
  <2> SUFFICES ASSUME life[o] = "alive", life'[o] = "none"
               PROVE  \A c \in HasClear :
                        IsA(made[o], c) => member[o][c] = Zero
    OBVIOUS
  <2>1. PICK t \in Threads : /\ call[t].to = o
                             /\ Abandon(t) \/ EndInit(t) \/ FreeObject(t)
    BY <1>1, LivesChange
  <2>2. CallInv(call[t])
    BY <1>1, CallTypes
  <2>3. call[t].step = "free"
    BY <2>1, <2>2 DEF Abandon, EndInit, FreeObject, At, CallInv, ToInv
  <2> QED
    BY <2>1, <2>2, <2>3 DEF CallInv, ChainInv
<1>2. ChainsInv /\ [Next]_vars => [\A o \in Objects : Cleared(o)]_vars
  BY <1>1
<1> QED
  BY <1>2, Invariance, PTL DEF Spec, FreedCleared
-----------------------------------------------------------------------------
(* The order of a chain. *)

(* What an object is by one of its classes, it is.                         *)
LEMMA IsATransitive ==
  ASSUME NEW a \in Classes, NEW b \in Classes, NEW c,
         IsA(a, b), IsA(b, c)
  PROVE  IsA(a, c)
BY LineageIs

(* The owners of a list's methods are all in the lineage of its class, the *)
(* deep ones before the shallow ones.                                      *)
Ordered(list, c) ==
  \A j \in 1..Len(list) :
    /\ IsA(c, list[j])
    /\ \A k \in 1..Len(list) : IsA(list[j], list[k]) => k <= j

LineInv ==
  \A c \in Classes : class[c] # NULL =>
    /\ \A d \in Classes : IsA(c, d) => class[d] # NULL
    /\ Ordered(class[c].init, c)
    /\ Ordered(class[c].assign, c)
    /\ Ordered(class[c].clear, c)

(* The methods that a chain has run are those that its index has passed.   *)
RanInv(c) ==
  /\ c.step = "alloc" => c.ran = {}
  /\ c.step = "init" => c.ran = {class[c.type].init[j] : j \in 1..c.i}
  /\ c.step \in {"assign", "exec"} =>
       c.ran = {class[c.type].assign[j] : j \in 1..c.i}
  /\ c.step = "clear" =>
       c.ran = {class[c.type].clear[j] :
                  j \in c.i + 1..Len(class[c.type].clear)}

OrderInv == LineInv /\ \A t \in Threads : RanInv(call[t])

(* A class is made with a list of its own, after those that it inherits;   *)
(* none of these is a method of the class, which did not exist.            *)
LEMMA ExtendedOrdered ==
  ASSUME NEW k \in Classes, NEW s \in Seq(Classes), NEW known,
         k \notin known,
         \A j \in 1..Len(s) : IsA(k, s[j]),
         \A j \in 1..Len(s), d \in Classes : IsA(s[j], d) => d \in known,
         \A j, m \in 1..Len(s) : IsA(s[j], s[m]) => m <= j
  PROVE  Ordered(y_MethodList_extend(s, k), k)
<1>1. /\ Append(s, k) \in Seq(Classes) /\ Len(Append(s, k)) = Len(s) + 1
      /\ Append(s, k)[Len(s) + 1] = k /\ Len(s) \in Nat
      /\ \A j \in 1..Len(s) : Append(s, k)[j] = s[j]
  OBVIOUS
<1>2. PICK l \in Seq(Classes) : l = Append(s, k)
  BY <1>1
<1>3. PICK n \in Nat : n = Len(s)
  BY <1>1
<1>4. /\ Len(l) = n + 1 /\ l[n + 1] = k
      /\ \A j \in 1..n : l[j] = s[j]
  BY <1>1, <1>2, <1>3
<1>5. IsA(k, k)
  BY IsAReflexive
<1>6. ASSUME NEW j \in 1..n + 1
      PROVE  /\ IsA(k, l[j])
             /\ \A m \in 1..n + 1 : IsA(l[j], l[m]) => m <= j
  <2>1. CASE j = n + 1
    BY <1>4, <1>5, <2>1
  <2>2. CASE j \in 1..n
    <3>1. ASSUME NEW m \in 1..n + 1, IsA(l[j], l[m])
          PROVE  m <= j
      <4>1. CASE m = n + 1
        BY <1>3, <1>4, <2>2, <3>1, <4>1
      <4>2. CASE m \in 1..n
        BY <1>3, <1>4, <2>2, <3>1, <4>2
      <4> QED
        BY <4>1, <4>2
    <3>2. IsA(k, l[j])
      BY <1>3, <1>4, <2>2
    <3> QED
      BY <3>1, <3>2
  <2>3. j = n + 1 \/ j \in 1..n
    OBVIOUS
  <2> QED
    BY <2>1, <2>2, <2>3
<1> QED
  BY <1>2, <1>4, <1>6 DEF y_MethodList_extend, Ordered

LEMMA IsAClass ==
  ASSUME NEW c \in Classes, NEW d, IsA(c, d)
  PROVE  d \in Classes
BY LineageIs

LEMMA IsAFromSuper ==
  ASSUME NEW c \in Classes, Super[c] # NULL, NEW d, IsA(Super[c], d)
  PROVE  IsA(c, d)
<1>1. Super[c] \in Classes
  BY ChainsAssumption
<1> QED
  BY <1>1, LineageIs DEF Closed

(* y_init_type keeps the order.                                            *)
LEMMA InitTypeOrder ==
  ASSUME ChainsInv, LineInv, NEW k \in Classes, y_init_type(k)
  PROVE  LineInv'
<1> DEFINE super == IF Super[k] = NULL THEN NoMethods ELSE class[Super[k]]
           List(inherited, owners) ==
             IF k \in owners THEN y_MethodList_extend(inherited, k)
             ELSE inherited
           existing == {d \in Classes : class[d] # NULL}
<1>1. PICK l : l = [init   |-> List(super.init, HasInit),
                    assign |-> List(super.assign, HasAssign),
                    clear  |-> List(super.clear, HasClear)]
  OBVIOUS
<1>2. /\ class' = [class EXCEPT ![k] = l] /\ class[k] = NULL
      /\ Super[k] # NULL => class[Super[k]] # NULL
  BY <1>1 DEF y_init_type
<1>3. ASSUME NEW s \in Seq(Classes), NEW owners,
             Super[k] = NULL => s = <<>>,
             Super[k] # NULL => Ordered(s, Super[k])
      PROVE  Ordered(List(s, owners), k)
  <2>1. ASSUME NEW j \in 1..Len(s)
        PROVE  /\ Super[k] # NULL /\ Super[k] \in Classes
               /\ s[j] \in Classes /\ IsA(Super[k], s[j])
               /\ \A m \in 1..Len(s) : IsA(s[j], s[m]) => m <= j
    <3>1. Super[k] # NULL
      BY <1>3, <2>1
    <3>2. Super[k] \in Classes
      BY <3>1, ChainsAssumption
    <3> QED
      BY <1>3, <2>1, <3>1, <3>2 DEF Ordered
  <2>2. \A j \in 1..Len(s) : IsA(k, s[j])
    BY <2>1, IsAFromSuper
  <2>3. ASSUME NEW j \in 1..Len(s), NEW d \in Classes, IsA(s[j], d)
        PROVE  d \in existing
    <3>1. IsA(Super[k], d)
      BY <2>1, <2>3, IsATransitive
    <3> QED
      BY <1>2, <2>1, <3>1 DEF LineInv
  <2>4. CASE k \in owners
    <3>1. k \notin existing
      BY <1>2
    <3> HIDE DEF existing
    <3>2. Ordered(y_MethodList_extend(s, k), k)
      BY <2>1, <2>2, <2>3, <3>1, ExtendedOrdered
    <3> QED
      BY <2>4, <3>2
  <2>5. CASE k \notin owners
    BY <2>1, <2>2, <2>5 DEF Ordered
  <2> QED
    BY <2>4, <2>5
<1>4. /\ super.init \in Seq(Classes) /\ super.assign \in Seq(Classes)
      /\ super.clear \in Seq(Classes)
      /\ Super[k] = NULL => super = NoMethods
      /\ Super[k] # NULL => /\ Ordered(super.init, Super[k])
                            /\ Ordered(super.assign, Super[k])
                            /\ Ordered(super.clear, Super[k])
  <2>1. CASE Super[k] = NULL
    BY <2>1 DEF NoMethods
  <2>2. CASE Super[k] # NULL
    <3>1. Super[k] \in Classes /\ super = class[Super[k]] /\ super # NULL
      BY <1>2, <2>2, ChainsAssumption
    <3>2. class[Super[k]] \in MethodLists
      BY <3>1 DEF ChainsInv, Typed
    <3> QED
      BY <2>2, <3>1, <3>2 DEF MethodLists, LineInv
  <2> QED
    BY <2>1, <2>2
<1>5. Super[k] = NULL =>
        super.init = <<>> /\ super.assign = <<>> /\ super.clear = <<>>
  BY <1>4 DEF NoMethods
<1> HIDE DEF super, List, existing
<1>6. /\ Ordered(l.init, k) /\ Ordered(l.assign, k) /\ Ordered(l.clear, k)
  <2>1. /\ Ordered(List(super.init, HasInit), k)
        /\ Ordered(List(super.assign, HasAssign), k)
        /\ Ordered(List(super.clear, HasClear), k)
    BY <1>3, <1>4, <1>5
  <2> QED
    BY <1>1, <2>1
<1>7. class \in [Classes -> MethodLists \cup {NULL}]
  BY DEF ChainsInv, Typed
<1>8. class'[k] = l /\ \A c \in Classes : c # k => class'[c] = class[c]
  BY <1>2, <1>7
<1>9. l # NULL
  <2>1. class' \in [Classes -> MethodLists \cup {NULL}]
    BY InitTypeInv DEF ChainsInv, Typed
  <2>2. Len(l.init) \in Nat \/ l # NULL
    BY <1>8, <2>1
  <2>3. super.init \in Seq(Classes)
    BY <1>4
  <2>4. l \in MethodLists
    <3>1. ASSUME NEW s \in Seq(Classes), NEW owners
          PROVE  List(s, owners) \in Seq(Classes)
      BY DEF List, y_MethodList_extend
    <3> QED
      BY <1>1, <1>4, <3>1 DEF MethodLists
  <2> QED
    BY <2>4, ChainsAssumption
<1>10. ASSUME NEW d \in Classes, IsA(k, d), d # k
       PROVE  class[d] # NULL
  <2>1. Super[k] # NULL /\ Super[k] \in Classes /\ IsA(Super[k], d)
    BY <1>10, IsAStep
  <2> QED
    BY <1>2, <2>1 DEF LineInv
<1>11. ASSUME NEW c \in Classes, class'[c] # NULL
       PROVE  /\ \A d \in Classes : IsA(c, d) => class'[d] # NULL
              /\ Ordered(class'[c].init, c) /\ Ordered(class'[c].assign, c)
              /\ Ordered(class'[c].clear, c)
  <2>1. CASE c = k
    BY <1>6, <1>8, <1>9, <1>10, <2>1
  <2>2. CASE c # k
    BY <1>8, <1>9, <1>11, <2>2 DEF LineInv
  <2> QED
    BY <2>1, <2>2
<1> QED
  BY <1>11 DEF LineInv, Ordered

LEMMA OneRan ==
  ASSUME ChainsInv, OrderInv, UNCHANGED class, NEW t \in Threads, NEW c,
         call' = [call EXCEPT ![t] = c], RanInv(c)
  PROVE  OrderInv'
<1>1. call'[t] = c /\ \A u \in Threads : u # t => call'[u] = call[u]
  BY DEF ChainsInv, Typed
<1>2. LineInv'
  BY DEF OrderInv, LineInv, Ordered
<1>3. \A u \in Threads : RanInv(call[u])'
  BY <1>1 DEF OrderInv, RanInv
<1> QED
  BY <1>2, <1>3 DEF OrderInv

LEMMA OneMore ==
  ASSUME NEW s, NEW i \in Nat
  PROVE  {s[j] : j \in 1..i + 1} = {s[j] : j \in 1..i} \cup {s[i + 1]}
<1>1. \A j : j \in 1..i + 1 <=> j \in 1..i \/ j = i + 1
  OBVIOUS
<1> QED
  BY <1>1

LEMMA OneLess ==
  ASSUME NEW s, NEW n \in Nat, NEW i \in 1..n
  PROVE  {s[j] : j \in i..n} = {s[j] : j \in i + 1..n} \cup {s[i]}
<1>1. \A j : j \in i..n <=> j \in i + 1..n \/ j = i
  OBVIOUS
<1> QED
  BY <1>1

(* Each step of a chain adds the method that it runs.                      *)
LEMMA StepOrder ==
  ASSUME ChainsInv, OrderInv, NEW t \in Threads, Step(t)
  PROVE  OrderInv'
<1> DEFINE c == call[t]
<1>1. c \in Calls /\ CallInv(c) /\ RanInv(c) /\ c.i \in Nat
  BY CallTypes DEF OrderInv
<1>2. class \in [Classes -> MethodLists \cup {NULL}]
  BY DEF ChainsInv, Typed
<1>3. CASE Allocate(t)
  <2>1. PICK d : d = [c EXCEPT !.step = "init"]
    OBVIOUS
  <2>2. /\ UNCHANGED class /\ call' = [call EXCEPT ![t] = d]
        /\ c.step = "alloc"
    BY <1>3, <2>1 DEF Allocate, Goto, At
  <2>3. d.step = "init" /\ d.i = 0 /\ d.ran = {}
    BY <1>1, <2>1, <2>2 DEF Calls, CallInv, FormInv, RanInv
  <2>4. RanInv(d)
    BY <2>3 DEF RanInv
  <2> QED
    BY <2>2, <2>4, OneRan
<1>4. CASE InitMethod(t) \/ InitFails(t)
  <2>1. PICK d : /\ call' = [call EXCEPT ![t] = d] /\ UNCHANGED class
                 /\ d.step \in {"init", "abandon"} /\ d.i = c.i + 1
                 /\ d.ran = c.ran \cup {class[c.type].init[c.i + 1]}
                 /\ d.type = c.type /\ c.step = "init"
    <3> DEFINE m == class[c.type].init[c.i + 1]
    <3>1. CASE InitMethod(t)
      <4>1. PICK d : d = [c EXCEPT !.i = @ + 1, !.ran = @ \cup {m}]
        OBVIOUS
      <4>2. /\ call' = [call EXCEPT ![t] = d] /\ UNCHANGED class
            /\ c.step = "init"
        BY <3>1, <4>1 DEF InitMethod, Goto, At
      <4>3. /\ d.step = c.step /\ d.i = c.i + 1 /\ d.ran = c.ran \cup {m}
            /\ d.type = c.type
        BY <1>1, <4>1 DEF Calls
      <4> QED
        BY <4>2, <4>3
    <3>2. CASE InitFails(t)
      <4> DEFINE error == Raise(c.error)
      <4>1. PICK d : d = [c EXCEPT !.i = @ + 1, !.ran = @ \cup {m},
                            !.error = error,
                            !.step = IF error = "filled" THEN "abandon" ELSE @]
        OBVIOUS
      <4>2. /\ call' = [call EXCEPT ![t] = d] /\ UNCHANGED class
            /\ c.step = "init"
        BY <3>2, <4>1 DEF InitFails, Goto, At
      <4> HIDE DEF error
      <4>3. /\ d.step = (IF error = "filled" THEN "abandon" ELSE c.step)
            /\ d.i = c.i + 1 /\ d.ran = c.ran \cup {m} /\ d.type = c.type
        BY <1>1, <4>1 DEF Calls
      <4> QED
        BY <4>2, <4>3
    <3> QED
      BY <1>4, <3>1, <3>2
  <2>2. {class[c.type].init[j] : j \in 1..c.i + 1} =
          {class[c.type].init[j] : j \in 1..c.i}
             \cup {class[c.type].init[c.i + 1]}
    BY <1>1, OneMore
  <2>3. RanInv(d)
    BY <1>1, <2>1, <2>2 DEF RanInv
  <2> QED
    BY <2>1, <2>3, OneRan
<1>5. CASE ClearMethod(t)
  <2>1. PICK d : /\ call' = [call EXCEPT ![t] = d] /\ UNCHANGED class
                 /\ d.step = "clear" /\ d.i = c.i - 1 /\ c.i > 0
                 /\ d.ran = c.ran \cup {class[c.type].clear[c.i]}
                 /\ d.type = c.type /\ c.step = "clear"
    <3> DEFINE m == class[c.type].clear[c.i]
    <3>1. PICK d : d = [c EXCEPT !.i = @ - 1, !.ran = @ \cup {m}]
      OBVIOUS
    <3>2. /\ call' = [call EXCEPT ![t] = d] /\ UNCHANGED class
          /\ c.step = "clear" /\ c.i > 0
      BY <1>5, <3>1 DEF ClearMethod, Goto, At
    <3>3. /\ d.step = c.step /\ d.i = c.i - 1 /\ d.ran = c.ran \cup {m}
          /\ d.type = c.type
      BY <1>1, <3>1 DEF Calls
    <3> QED
      BY <3>2, <3>3
  <2>2. /\ c.type \in Classes /\ class[c.type] # NULL
        /\ c.i <= Len(class[c.type].clear)
    BY <1>1, <2>1 DEF CallInv, ToInv, ChainInv
  <2>3. class[c.type].clear \in Seq(Classes)
    BY <1>2, <2>2 DEF MethodLists
  <2>4. PICK n \in Nat : n = Len(class[c.type].clear)
    BY <2>3
  <2>5. {class[c.type].clear[j] : j \in c.i..n} =
          {class[c.type].clear[j] : j \in c.i + 1..n}
             \cup {class[c.type].clear[c.i]}
    BY <1>1, <2>1, <2>2, <2>4, OneLess
  <2>6. d.i + 1 = c.i
    BY <1>1, <2>1
  <2>7. RanInv(d)
    <3>1. c.ran = {class[c.type].clear[j] : j \in c.i + 1..n}
      BY <1>1, <2>1, <2>4 DEF RanInv
    <3>2. d.ran = {class[d.type].clear[j] : j \in d.i + 1..n}
      BY <2>1, <2>5, <2>6, <3>1
    <3> QED
      BY <2>1, <2>4, <3>2 DEF RanInv
  <2> QED
    BY <2>1, <2>7, OneRan
<1>6. CASE EndClear(t)
  <2>1. PICK d : /\ call' = [call EXCEPT ![t] = d] /\ UNCHANGED class
                 /\ d.step \in {"return", "free", "assign"} /\ d.i = 0
                 /\ d.ran = {}
    <3> DEFINE next == [clear |-> "return", destroy |-> "free",
                        assign |-> "assign", copy |-> "assign"]
    <3>1. c.op \in {"clear", "destroy", "assign", "copy"}
      BY <1>1, <1>6 DEF Calls, Ops, CallInv, FormInv, EndClear, At
    <3>2. PICK d : d = [c EXCEPT !.step = next[c.op], !.ran = {}]
      OBVIOUS
    <3>3. /\ call' = [call EXCEPT ![t] = d] /\ UNCHANGED class /\ c.i = 0
      BY <1>6, <3>2 DEF EndClear, Goto
    <3>4. next[c.op] \in {"return", "free", "assign"}
      BY <3>1
    <3>5. d.step = next[c.op] /\ d.i = c.i /\ d.ran = {}
      BY <1>1, <3>2 DEF Calls
    <3> QED
      BY <3>3, <3>4, <3>5
  <2>2. RanInv(d)
    BY <2>1 DEF RanInv
  <2> QED
    BY <2>1, <2>2, OneRan
<1>7. CASE Compare(t) \/ Reject(t)
  <2>1. PICK d : /\ call' = [call EXCEPT ![t] = d] /\ UNCHANGED class
                 /\ \/ d.step \in {"return", "reject"}
                    \/ /\ d.step = "clear" /\ d.ran = {}
                       /\ d.type = type[c.to]
                       /\ d.i = Len(class[type[c.to]].clear)
    <3> DEFINE b == [c EXCEPT !.op = "destroy"]
    <3>1. PICK d : /\ call' = [call EXCEPT ![t] = d] /\ UNCHANGED class
                   /\ d \in {ClearFrom(c, c.to), [c EXCEPT !.step = "reject"],
                             ClearFrom(b, c.to), [c EXCEPT !.step = "return"]}
      BY <1>7 DEF Compare, Reject, Goto
    <3>2. b \in Calls
      BY <1>1 DEF Calls, Ops
    <3>3. ASSUME NEW k \in Calls, d = ClearFrom(k, c.to)
          PROVE  /\ d.step = "clear" /\ d.ran = {} /\ d.type = type[c.to]
                 /\ d.i = Len(class[type[c.to]].clear)
      BY <3>3 DEF ClearFrom, Calls
    <3>4. CASE d \in {ClearFrom(c, c.to), ClearFrom(b, c.to)}
      BY <1>1, <3>1, <3>2, <3>3, <3>4
    <3>5. CASE d = [c EXCEPT !.step = "reject"]
      <4>1. d.step = "reject"
        BY <1>1, <3>5 DEF Calls
      <4> QED
        BY <3>1, <4>1
    <3>6. CASE d = [c EXCEPT !.step = "return"]
      <4>1. d.step = "return"
        BY <1>1, <3>6 DEF Calls
      <4> QED
        BY <3>1, <4>1
    <3> QED
      BY <3>1, <3>4, <3>5, <3>6
  <2>2. c.to \in Objects /\ type[c.to] = made[c.to]
    <3>1. c.step \in {"compare", "reject"}
      BY <1>7 DEF Compare, Reject, At
    <3> QED
      BY <1>1, <3>1 DEF CallInv, FormInv, ToInv, Active, Running, Steps
  <2>3. Active(c) /\ life[c.to] = "alive"
    <3>1. c.step \in {"compare", "reject"}
      BY <1>7 DEF Compare, Reject, At
    <3> QED
      BY <1>1, <3>1 DEF CallInv, FormInv, ToInv, Active, Running, Steps
  <2>4. type[c.to] \in Classes /\ class[type[c.to]] # NULL
    BY <2>2, <2>3, Held
  <2>5. Len(class[type[c.to]].clear) \in Nat
    BY <1>2, <2>4 DEF MethodLists
  <2>6. RanInv(d)
    <3>1. CASE d.step \in {"return", "reject"}
      BY <3>1 DEF RanInv
    <3>2. CASE d.step = "clear"
      <4>1. PICK list : list = class[d.type].clear
        OBVIOUS
      <4>2. d.ran = {} /\ d.i = Len(list) /\ Len(list) \in Nat
        BY <2>1, <2>5, <3>2, <4>1
      <4>3. d.i + 1..Len(list) = {}
        BY <4>2
      <4>4. d.ran = {list[j] : j \in d.i + 1..Len(list)}
        BY <4>2, <4>3
      <4> QED
        BY <3>2, <4>1, <4>4 DEF RanInv
    <3> QED
      BY <2>1, <3>1, <3>2
  <2> QED
    BY <2>1, <2>6, OneRan
<1>8. CASE AssignBless(t)
  <2>1. PICK d : d = [c EXCEPT !.step = "exec"]
    OBVIOUS
  <2>2. /\ UNCHANGED class /\ call' = [call EXCEPT ![t] = d]
        /\ c.step = "assign"
    BY <1>8, <2>1 DEF AssignBless, Goto, At
  <2>3. d.step = "exec" /\ d.i = c.i /\ d.ran = c.ran /\ d.type = c.type
    BY <1>1, <2>1, <2>2 DEF Calls
  <2>4. RanInv(d)
    BY <1>1, <2>2, <2>3 DEF RanInv
  <2> QED
    BY <2>2, <2>4, OneRan
<1>9. CASE AssignMethod(t) \/ AssignFails(t)
  <2>1. PICK d : /\ call' = [call EXCEPT ![t] = d] /\ UNCHANGED class
                 /\ d.step \in {"assign", "restore"} /\ d.i = c.i + 1
                 /\ d.ran = c.ran \cup {class[c.type].assign[c.i + 1]}
                 /\ d.type = c.type /\ c.step = "exec"
    <3> DEFINE m == class[c.type].assign[c.i + 1]
    <3>1. CASE AssignMethod(t)
      <4>1. PICK d : d = [c EXCEPT !.step = "assign", !.i = @ + 1,
                                   !.ran = @ \cup {m}]
        OBVIOUS
      <4>2. /\ call' = [call EXCEPT ![t] = d] /\ UNCHANGED class
            /\ c.step = "exec"
        BY <3>1, <4>1 DEF AssignMethod, Goto, At
      <4>3. /\ d.step = "assign" /\ d.i = c.i + 1 /\ d.ran = c.ran \cup {m}
            /\ d.type = c.type
        BY <1>1, <4>1 DEF Calls
      <4> QED
        BY <4>2, <4>3
    <3>2. CASE AssignFails(t)
      <4>1. PICK returns \in BOOLEAN :
              LET error == IF returns THEN Raise(c.error) ELSE c.error
                  failed == ~returns \/ error = "filled"
              IN call' = [call EXCEPT ![t] =
                   [c EXCEPT !.step = IF failed THEN "restore" ELSE "assign",
                             !.i = @ + 1, !.error = error, !.failed = failed,
                             !.ran = @ \cup {m}]]
        BY <3>2 DEF AssignFails, Goto
      <4>2. PICK error : error = IF returns THEN Raise(c.error) ELSE c.error
        OBVIOUS
      <4>3. PICK failed : failed = (~returns \/ error = "filled")
        OBVIOUS
      <4>4. PICK step : step = IF failed THEN "restore" ELSE "assign"
        OBVIOUS
      <4>5. PICK d : d = [c EXCEPT !.step = step, !.i = @ + 1, !.error = error,
                                   !.failed = failed, !.ran = @ \cup {m}]
        OBVIOUS
      <4>6. call' = [call EXCEPT ![t] = d]
        BY <4>1, <4>2, <4>3, <4>4, <4>5
      <4>7. UNCHANGED class /\ c.step = "exec"
        BY <3>2 DEF AssignFails, At
      <4>8. /\ d.step \in {"assign", "restore"} /\ d.i = c.i + 1
            /\ d.ran = c.ran \cup {m} /\ d.type = c.type
        BY <1>1, <4>4, <4>5 DEF Calls
      <4> QED
        BY <4>6, <4>7, <4>8
    <3> QED
      BY <1>9, <3>1, <3>2
  <2>2. {class[c.type].assign[j] : j \in 1..c.i + 1} =
          {class[c.type].assign[j] : j \in 1..c.i}
             \cup {class[c.type].assign[c.i + 1]}
    BY <1>1, OneMore
  <2>3. RanInv(d)
    BY <1>1, <2>1, <2>2 DEF RanInv
  <2> QED
    BY <2>1, <2>3, OneRan
<1>10. CASE \/ AllocateFails(t) \/ Abandon(t) \/ EndInit(t) \/ FreeObject(t)
            \/ AssignRestore(t) \/ Return(t)
  <2>1. PICK d : /\ call' = [call EXCEPT ![t] = d] /\ UNCHANGED class
                 /\ d.step \in {"abandon", "return", "compare", "reject", "idle"}
    <3> DEFINE next ==
                 {[c EXCEPT !.step = "abandon", !.error = Raise(@)],
                  [c EXCEPT !.step = "return"], [c EXCEPT !.step = "compare"],
                  [c EXCEPT !.step = "return", !.result = c.to],
                  [c EXCEPT !.step = "reject"], NoCall}
    <3>1. PICK d \in next : call' = [call EXCEPT ![t] = d] /\ UNCHANGED class
      <4>1. CASE AllocateFails(t) \/ Abandon(t) \/ FreeObject(t)
        BY <4>1 DEF AllocateFails, Abandon, FreeObject, Goto
      <4>2. CASE EndInit(t)
        BY <4>2 DEF EndInit, Goto
      <4>3. CASE AssignRestore(t)
        BY <4>3 DEF AssignRestore, Goto
      <4>4. CASE Return(t)
        BY <4>4 DEF Return, Goto
      <4> QED
        BY <1>10, <4>1, <4>2, <4>3, <4>4
    <3>2. d.step \in {"abandon", "return", "compare", "reject", "idle"}
      <4>1. CASE d = NoCall
        BY <4>1 DEF NoCall
      <4>2. CASE d # NoCall
        BY <1>1, <3>1, <4>2 DEF Calls
      <4> QED
        BY <4>1, <4>2
    <3> QED
      BY <3>1, <3>2
  <2>2. RanInv(d)
    BY <2>1 DEF RanInv
  <2> QED
    BY <2>1, <2>2, OneRan
<1> QED
  BY <1>3, <1>4, <1>5, <1>6, <1>7, <1>8, <1>9, <1>10 DEF Step

(* A call begins with no method run.                                       *)
LEMMA ClientOrder ==
  ASSUME ChainsInv, OrderInv, NEW t \in Threads, Client(t)
  PROVE  OrderInv'
<1>1. ASSUME NEW d, Start(t, d),
             \/ d.step \in {"compare", "return"}
             \/ d.step = "alloc" /\ d.ran = {}
             \/ /\ d.step = "clear" /\ d.ran = {}
                /\ Len(class[d.type].clear) \in Nat
                /\ d.i = Len(class[d.type].clear)
      PROVE  OrderInv'
  <2>1. RanInv(d)
    BY <1>1 DEF RanInv
  <2> QED
    BY <1>1, <2>1, OneRan DEF Start, Goto
<1>2. ASSUME NEW o \in Objects, NEW k \in Classes, NEW e \in Locations,
             CallCreate(t, o, k, e)
      PROVE  OrderInv'
  BY <1>1, <1>2 DEF CallCreate, NoCall
<1>3. ASSUME NEW o \in Objects, NEW from \in Objects, NEW e \in Locations,
             CallCopy(t, o, from, e)
      PROVE  OrderInv'
  BY <1>1, <1>3 DEF CallCopy, NoCall
<1>4. ASSUME NEW o \in Objects, NEW from \in Objects, NEW e \in Locations,
             CallAssign(t, o, from, e)
      PROVE  OrderInv'
  BY <1>1, <1>4 DEF CallAssign, NoCall
<1>5. ASSUME NEW o \in Objects, NEW op \in {"clear", "destroy"},
             CallClear(t, o, op)
      PROVE  OrderInv'
  <2>1. PICK d : d = ClearFrom([NoCall EXCEPT !.op = op, !.to = o], o)
    OBVIOUS
  <2>2. /\ d.step = "clear" /\ d.ran = {} /\ d.type = type[o]
        /\ d.i = Len(class[type[o]].clear)
    BY <2>1 DEF ClearFrom, NoCall
  <2>3. life[o] = "alive" /\ Unused(o) /\ Start(t, d)
    BY <1>5, <2>1 DEF CallClear
  <2>4. type[o] \in Classes /\ class[type[o]] # NULL
    BY <2>3, UnusedIsSound
  <2>5. Len(class[type[o]].clear) \in Nat
    BY <2>4 DEF ChainsInv, Typed, MethodLists
  <2> QED
    BY <1>1, <2>2, <2>3, <2>5
<1>6. ASSUME NEW o \in Objects, NEW k \in Classes, NEW v \in Values,
             SetMember(t, o, k, v)
      PROVE  OrderInv'
  BY <1>1, <1>6 DEF SetMember, NoCall
<1> QED
  BY <1>2, <1>3, <1>4, <1>5, <1>6 DEF Client

LEMMA NextOrder ==
  ASSUME ChainsInv, OrderInv, [Next]_vars
  PROVE  OrderInv'
<1>1. ASSUME NEW k \in Classes, y_init_type(k)
      PROVE  OrderInv'
  <2>1. LineInv'
    BY <1>1, InitTypeOrder DEF OrderInv
  <2>2. /\ UNCHANGED call /\ class[k] = NULL
        /\ \A c \in Classes : c # k => class'[c] = class[c]
    BY <1>1 DEF y_init_type, ChainsInv, Typed
  <2>3. ASSUME NEW u \in Threads
        PROVE  RanInv(call[u])'
    <3>1. PICK c : c = call[u]
      OBVIOUS
    <3>2. RanInv(c) /\ CallInv(c) /\ call'[u] = c
      BY <2>2, <3>1, CallTypes DEF OrderInv
    <3>3. c.step \in {"init", "clear", "assign", "exec"} =>
            class'[c.type] = class[c.type]
      BY <2>2, <3>2 DEF CallInv, ToInv
    <3>4. RanInv(c)'
      BY <3>2, <3>3 DEF RanInv
    <3> QED
      BY <2>2, <3>1, <3>4
  <2> QED
    BY <2>1, <2>3 DEF OrderInv
<1>2. CASE \E t \in Threads : Step(t) \/ Client(t)
  BY <1>2, StepOrder, ClientOrder
<1>3. CASE Rest \/ UNCHANGED vars
  <2>1. UNCHANGED <<class, call>>
    BY <1>3 DEF Rest, vars
  <2> QED
    BY <2>1 DEF OrderInv, LineInv, Ordered, RanInv
<1> QED
  BY <1>1, <1>2, <1>3 DEF Next

(* Init and assign methods run from deep to shallow, clear methods from    *)
(* shallow to deep: each after all that it has to come after.              *)
THEOREM ChainsInOrder ==
  ASSUME "shared_source" \notin Freedoms
  PROVE  Spec => []ChainOrder
<1>1. Init => OrderInv
  BY DEF Init, OrderInv, LineInv, RanInv, NoCall
<1>2. ChainsInv /\ OrderInv /\ [Next]_vars => OrderInv'
  BY NextOrder
<1>3. ASSUME ChainsInv, OrderInv
      PROVE  ChainOrder
  <2> SUFFICES ASSUME NEW t \in Threads, NEW m \in call[t].ran
               PROVE  /\ call[t].step = "init" =>
                           \A d \in HasInit : IsA(m, d) => d \in call[t].ran
                      /\ call[t].step \in {"assign", "exec"} =>
                           \A d \in HasAssign : IsA(m, d) => d \in call[t].ran
                      /\ call[t].step = "clear" =>
                           \A d \in HasClear :
                             IsA(call[t].type, d) /\ IsA(d, m) => d \in call[t].ran
    BY DEF ChainOrder
  <2> DEFINE c == call[t]
             k == call[t].type
  <2>1. CallInv(c) /\ RanInv(c) /\ c.i \in Nat
    BY <1>3, CallTypes DEF OrderInv
  <2>2. c.step \in {"init", "assign", "exec", "clear"} =>
          /\ k \in Classes /\ class[k] # NULL /\ class[k] \in MethodLists
    BY <1>3, <2>1 DEF CallInv, ToInv, ChainsInv, Typed
  <2>3. ASSUME NEW s \in Seq(Classes), NEW owners, NEW d \in owners, k \in Classes,
               Ordered(s, k), HasAll(s, k, owners),
               NEW j \in 1..c.i, c.i <= Len(s), IsA(s[j], d)
        PROVE  \E n \in 1..c.i : s[n] = d
    <3>1. j \in 1..Len(s) /\ Len(s) \in Nat
      BY <2>1, <2>3
    <3>2. IsA(k, s[j]) /\ s[j] \in Classes
      BY <2>3, <3>1 DEF Ordered
    <3>3. IsA(k, d)
      BY <2>3, <3>2, IsATransitive
    <3>4. PICK n \in 1..Len(s) : s[n] = d
      BY <2>3, <3>3 DEF HasAll
    <3>5. n <= j
      BY <2>3, <3>1, <3>4 DEF Ordered
    <3> QED
      BY <2>1, <3>1, <3>4, <3>5
  <2>4. CASE c.step = "init"
    <3>1. PICK j \in 1..c.i : class[k].init[j] = m
      BY <2>1, <2>4 DEF RanInv
    <3>2. /\ class[k].init \in Seq(Classes) /\ k \in Classes
          /\ Ordered(class[k].init, k) /\ HasAll(class[k].init, k, HasInit)
          /\ c.i <= Len(class[k].init)
      BY <1>3, <2>1, <2>2, <2>4 DEF MethodLists, OrderInv, LineInv, ChainsInv,
         ListInv, CallInv, ChainInv
    <3>3. ASSUME NEW d \in HasInit, IsA(m, d)
          PROVE  d \in c.ran
      <4>1. \E n \in 1..c.i : class[k].init[n] = d
        BY <2>3, <3>1, <3>2, <3>3
      <4> QED
        BY <2>1, <2>4, <4>1 DEF RanInv
    <3> QED
      BY <2>4, <3>3
  <2>5. CASE c.step \in {"assign", "exec"}
    <3>1. PICK j \in 1..c.i : class[k].assign[j] = m
      BY <2>1, <2>5 DEF RanInv
    <3>2. /\ class[k].assign \in Seq(Classes) /\ k \in Classes
          /\ Ordered(class[k].assign, k)
          /\ HasAll(class[k].assign, k, HasAssign)
          /\ c.i <= Len(class[k].assign)
      BY <1>3, <2>1, <2>2, <2>5 DEF MethodLists, OrderInv, LineInv, ChainsInv,
         ListInv, CallInv, ChainInv
    <3>3. ASSUME NEW d \in HasAssign, IsA(m, d)
          PROVE  d \in c.ran
      <4>1. \E n \in 1..c.i : class[k].assign[n] = d
        BY <2>3, <3>1, <3>2, <3>3
      <4> QED
        BY <2>1, <2>5, <4>1 DEF RanInv
    <3> QED
      BY <2>5, <3>3
  <2>6. CASE c.step = "clear"
    <3>1. PICK s : s = class[k].clear
      OBVIOUS
    <3>2. /\ s \in Seq(Classes) /\ k \in Classes
          /\ Ordered(s, k) /\ HasAll(s, k, HasClear)
      BY <1>3, <2>1, <2>2, <2>6, <3>1 DEF MethodLists, OrderInv, LineInv,
         ChainsInv, ListInv
    <3>3. PICK j \in c.i + 1..Len(s) : s[j] = m
      BY <2>1, <2>6, <3>1 DEF RanInv
    <3>4. ASSUME NEW d \in HasClear, IsA(k, d), IsA(d, m)
          PROVE  d \in c.ran
      <4>1. PICK n \in 1..Len(s) : s[n] = d
        BY <3>2, <3>4 DEF HasAll
      <4>2. j \in 1..Len(s) /\ Len(s) \in Nat
        BY <2>1, <3>2, <3>3
      <4>3. j <= n
        BY <3>2, <3>3, <3>4, <4>1, <4>2 DEF Ordered
      <4>4. n \in c.i + 1..Len(s)
        BY <2>1, <3>3, <4>1, <4>2, <4>3
      <4> QED
        BY <2>1, <2>6, <3>1, <4>1, <4>4 DEF RanInv
    <3> QED
      BY <2>6, <3>4
  <2> QED
    BY <2>4, <2>5, <2>6
<1> QED
  BY <1>1, <1>2, <1>3, Invariance, PTL DEF Spec
=============================================================================

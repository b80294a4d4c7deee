------------------------ MODULE TypeRegistry_proofs ------------------------
(***************************************************************************)
(* Theorems about TypeRegistry, for every number of threads and classes    *)
(* and every hierarchy of classes.                                         *)
(*                                                                         *)
(* That the variables keep their types and that no static pointer is stale *)
(* needs no rule for the clients.  That the classes are linked and that    *)
(* every call returns a class needs the rule that no two threads make      *)
(* classes at once.                                                        *)
(***************************************************************************)
EXTENDS TypeRegistry, TLAPS

-----------------------------------------------------------------------------
(* What the steps do to a stack of calls. *)

(* The running call is replaced.                                           *)
LEMMA Replaced ==
  ASSUME NEW S, NEW s \in Seq(S), s # <<>>, NEW f \in S
  PROVE  /\ <<f>> \o Tail(s) \in Seq(S)
         /\ Len(<<f>> \o Tail(s)) = Len(s)
         /\ Len(s) >= 1
         /\ (<<f>> \o Tail(s))[1] = f
         /\ \A i \in 2..Len(s) : (<<f>> \o Tail(s))[i] = s[i]
<1> DEFINE r == <<f>> \o Tail(s)
<1>1. /\ Tail(s) \in Seq(S) /\ Len(Tail(s)) = Len(s) - 1
      /\ Len(s) \in Nat /\ Len(s) >= 1
      /\ \A i \in 1..Len(s) - 1 : Tail(s)[i] = s[i + 1]
  OBVIOUS
<1>2. <<f>> \in Seq(S) /\ Len(<<f>>) = 1 /\ <<f>>[1] = f
  OBVIOUS
<1>3. r \in Seq(S) /\ Len(r) = Len(s)
  BY <1>1, <1>2
<1>4. r[1] = f
  BY <1>1, <1>2
<1>5. ASSUME NEW i \in 2..Len(s)
      PROVE  r[i] = s[i]
  <2>1. r[i] = Tail(s)[i - 1]
    BY <1>1, <1>2
  <2> QED
    BY <2>1, <1>1
<1> QED
  BY <1>1, <1>3, <1>4, <1>5

(* The running call is replaced, and another one begins.                   *)
LEMMA Pushed ==
  ASSUME NEW S, NEW s \in Seq(S), s # <<>>, NEW f \in S, NEW g \in S
  PROVE  /\ <<g, f>> \o Tail(s) \in Seq(S)
         /\ Len(<<g, f>> \o Tail(s)) = Len(s) + 1
         /\ Len(s) >= 1
         /\ (<<g, f>> \o Tail(s))[1] = g
         /\ (<<g, f>> \o Tail(s))[2] = f
         /\ \A i \in 3..Len(s) + 1 : (<<g, f>> \o Tail(s))[i] = s[i - 1]
<1> DEFINE r == <<g, f>> \o Tail(s)
<1>1. /\ Tail(s) \in Seq(S) /\ Len(Tail(s)) = Len(s) - 1
      /\ Len(s) \in Nat /\ Len(s) >= 1
      /\ \A i \in 1..Len(s) - 1 : Tail(s)[i] = s[i + 1]
  OBVIOUS
<1>2. /\ <<g, f>> \in Seq(S) /\ Len(<<g, f>>) = 2
      /\ <<g, f>>[1] = g /\ <<g, f>>[2] = f
  OBVIOUS
<1>3. r \in Seq(S) /\ Len(r) = Len(s) + 1
  BY <1>1, <1>2
<1>4. r[1] = g /\ r[2] = f
  BY <1>1, <1>2
<1>5. ASSUME NEW i \in 3..Len(s) + 1
      PROVE  r[i] = s[i - 1]
  <2>1. r[i] = Tail(s)[i - 2]
    BY <1>1, <1>2
  <2> QED
    BY <2>1, <1>1
<1> QED
  BY <1>1, <1>3, <1>4, <1>5

(* The running call returns.                                               *)
LEMMA Popped ==
  ASSUME NEW S, NEW s \in Seq(S), s # <<>>
  PROVE  /\ Tail(s) \in Seq(S)
         /\ Len(Tail(s)) = Len(s) - 1
         /\ Len(s) \in Nat /\ Len(s) >= 1
         /\ s[1] \in S /\ Head(s) = s[1]
         /\ \A i \in 1..Len(s) - 1 : Tail(s)[i] = s[i + 1]
         /\ \A i \in 1..Len(s) : s[i] \in S
OBVIOUS

-----------------------------------------------------------------------------
(* Types, and pointers that are not stale. *)

(* A struct that a call has made is there, and its location is among those *)
(* that will be erased.                                                    *)
MadeInv ==
  \A t \in Threads : \A i \in 1..Len(stack[t]) :
    LET f == stack[t][i] IN
    f.made # NULL => /\ struct[f.made] # NULL
                     /\ struct[f.made].type = f.type
                     /\ f.type \in registered

PointerInv ==
  /\ TypeOK
  /\ NoStaleType
  /\ \A c \in Types : type_location[c] # NULL => c \in registered
  /\ MadeInv

LEMMA FreshStruct ==
  ASSUME TypeOK, NEW s \in Structs, Fresh(s)
  PROVE  struct[s] = NULL
BY DEF Fresh

(* A step that changes only the stack of one thread.                       *)
LEMMA StackStep ==
  ASSUME PointerInv, NEW t \in Threads, NEW s \in Seq(Frames),
         stack' = [stack EXCEPT ![t] = s],
         UNCHANGED classVars, mutex' \in Threads \cup {NULL},
         calls' \in [Threads -> Nat],
         \A i \in 1..Len(s) :
           s[i].made # NULL => /\ struct[s[i].made] # NULL
                               /\ struct[s[i].made].type = s[i].type
                               /\ s[i].type \in registered
  PROVE  PointerInv'
<1>1. TypeOK'
  BY DEF PointerInv, TypeOK, classVars
<1>2. stack'[t] = s /\ \A u \in Threads : u # t => stack'[u] = stack[u]
  BY DEF PointerInv, TypeOK
<1>3. MadeInv'
  BY <1>2 DEF PointerInv, MadeInv, classVars
<1> QED
  BY <1>1, <1>3 DEF PointerInv, NoStaleType, classVars

LEMMA FrameType ==
  ASSUME NEW c \in Types
  PROVE  Frame(c) \in Frames
BY DEF Frame, Frames, Steps

LEMMA InitPointers == Init => PointerInv
BY DEF Init, PointerInv, TypeOK, NoStaleType, MadeInv

LEMMA StepPointers ==
  ASSUME PointerInv, NEW t \in Threads, Step(t)
  PROVE  PointerInv'
<1> DEFINE s == stack[t]
           f == Head(s)
<1>1. /\ s \in Seq(Frames) /\ s # <<>> /\ f \in Frames /\ f = s[1]
      /\ mutex \in Threads \cup {NULL} /\ calls \in [Threads -> Nat]
  <2>1. s # <<>>
    BY DEF Step, Check, y_Runtime_init_type, Unlock, Store, Return, At, Idle
  <2>2. s \in Seq(Frames) /\ mutex \in Threads \cup {NULL} /\ calls \in [Threads -> Nat]
    BY DEF PointerInv, TypeOK
  <2> HIDE DEF s
  <2> QED
    BY <2>1, <2>2, Popped
<1>2. \A i \in 1..Len(s) :
        s[i].made # NULL => /\ struct[s[i].made] # NULL
                            /\ struct[s[i].made].type = s[i].type
                            /\ s[i].type \in registered
  BY DEF PointerInv, MadeInv
<1>3. f.type \in Types /\ f.made \in Structs \cup {NULL}
      /\ f.super \in Structs \cup {NULL} /\ Len(s) \in Nat
  BY <1>1 DEF Frames
<1>4. CASE Check(t)
  <2> DEFINE g(step) == [f EXCEPT !.step = step]
  <2>1. /\ g("return") \in Frames /\ g("init") \in Frames
        /\ g("return").made = f.made /\ g("return").type = f.type
        /\ g("init").made = f.made /\ g("init").type = f.type
    BY <1>1 DEF Frames, Steps
  <2>2. ASSUME NEW h \in Frames, h.made = f.made, h.type = f.type,
               stack' = [stack EXCEPT ![t] = <<h>> \o Tail(@)]
        PROVE  PointerInv'
    <3> DEFINE r == <<h>> \o Tail(s)
    <3>1. /\ r \in Seq(Frames) /\ Len(r) = Len(s) /\ Len(s) >= 1 /\ r[1] = h
          /\ \A i \in 2..Len(s) : r[i] = s[i]
      BY <1>1, Replaced
    <3>2. \A i \in 1..Len(r) :
            r[i].made # NULL => /\ struct[r[i].made] # NULL
                                /\ struct[r[i].made].type = r[i].type
                                /\ r[i].type \in registered
      BY <1>1, <1>2, <1>3, <2>2, <3>1
    <3>3. UNCHANGED <<classVars, mutex, calls>> /\ stack' = [stack EXCEPT ![t] = r]
      BY <1>4, <2>2 DEF Check
    <3> QED
      BY <1>1, <3>1, <3>2, <3>3, StackStep
  <2>3. ASSUME Super[f.type] # NULL,
               stack' = [stack EXCEPT ![t] =
                           <<Frame(Super[f.type]), g("init")>> \o Tail(@)]
        PROVE  PointerInv'
    <3> DEFINE n == Frame(Super[f.type])
               h == g("init")
               r == <<n, h>> \o Tail(s)
    <3>1. n \in Frames /\ n.made = NULL
      BY <1>3, <2>3, FrameType, TypesAssumption DEF Frame
    <3>2. h \in Frames /\ h.made = f.made /\ h.type = f.type
      BY <2>1
    <3>3. UNCHANGED <<classVars, mutex, calls>> /\ stack' = [stack EXCEPT ![t] = r]
      BY <1>4, <2>3 DEF Check
    <3> HIDE DEF n, h
    <3>4. /\ r \in Seq(Frames) /\ Len(r) = Len(s) + 1 /\ Len(s) >= 1
          /\ r[1] = n /\ r[2] = h
          /\ \A i \in 3..Len(s) + 1 : r[i] = s[i - 1]
      <4> HIDE DEF s, f
      <4> QED
        BY <1>1, <3>1, <3>2, Pushed
    <3>5. \A i \in 1..Len(r) :
            r[i].made # NULL => /\ struct[r[i].made] # NULL
                                /\ struct[r[i].made].type = r[i].type
                                /\ r[i].type \in registered
      <4> HIDE DEF r, s
      <4> TAKE i \in 1..Len(r)
      <4>1. CASE i = 1
        BY <4>1, <3>1, <3>4
      <4>2. CASE i = 2
        BY <4>2, <1>1, <1>2, <1>3, <3>2, <3>4
      <4>3. CASE i \in 3..Len(s) + 1
        <5>1. i - 1 \in 1..Len(s) /\ r[i] = s[i - 1]
          BY <4>3, <3>4, <1>3
        <5> QED
          BY <5>1, <1>2
      <4> QED
        BY <4>1, <4>2, <4>3, <3>4, <1>3
    <3> QED
      BY <1>1, <3>3, <3>4, <3>5, StackStep
  <2> QED
    BY <1>4, <2>1, <2>2, <2>3 DEF Check, Top, Continue
<1>5. CASE y_Runtime_init_type(t)
  <2>1. CASE type_location[f.type] # NULL
    <3> DEFINE h == [f EXCEPT !.step = "unlock"]
               r == <<h>> \o Tail(s)
    <3>1. h \in Frames /\ h.made = f.made /\ h.type = f.type
      BY <1>1 DEF Frames, Steps
    <3> HIDE DEF h
    <3>2. /\ r \in Seq(Frames) /\ Len(r) = Len(s) /\ Len(s) >= 1 /\ r[1] = h
          /\ \A i \in 2..Len(s) : r[i] = s[i]
      BY <1>1, <3>1, Replaced
    <3>3. \A i \in 1..Len(r) :
            r[i].made # NULL => /\ struct[r[i].made] # NULL
                                /\ struct[r[i].made].type = r[i].type
                                /\ r[i].type \in registered
      BY <1>1, <1>2, <1>3, <3>1, <3>2
    <3>4. /\ UNCHANGED <<classVars, calls>> /\ mutex' = t
          /\ stack' = [stack EXCEPT ![t] = r]
      BY <1>5, <2>1 DEF y_Runtime_init_type, Top, Continue, h
    <3> QED
      BY <1>1, <3>2, <3>3, <3>4, StackStep
  <2>2. CASE type_location[f.type] = NULL
    <3>1. PICK x \in Structs :
            /\ Fresh(x)
            /\ struct' = [struct EXCEPT ![x] = [type |-> f.type, super |-> f.super]]
            /\ type_location' = [type_location EXCEPT ![f.type] = x]
            /\ stack' = [stack EXCEPT ![t] =
                           <<[f EXCEPT !.step = "unlock", !.made = x]>> \o Tail(@)]
      BY <1>5, <2>2 DEF y_Runtime_init_type, Top, Continue
    <3>2. registered' = registered \cup {f.type} /\ mutex' = t /\ calls' = calls
      BY <1>5, <2>2 DEF y_Runtime_init_type, Top
    <3> DEFINE h == [f EXCEPT !.step = "unlock", !.made = x]
               r == <<h>> \o Tail(s)
    <3>3. h \in Frames /\ h.made = x /\ h.type = f.type
      BY <1>1, <1>3 DEF Frames, Steps
    <3>4. stack' = [stack EXCEPT ![t] = r]
      BY <3>1
    <3> HIDE DEF h
    <3>5. /\ r \in Seq(Frames) /\ Len(r) = Len(s) /\ Len(s) >= 1 /\ r[1] = h
          /\ \A i \in 2..Len(s) : r[i] = s[i]
      BY <1>1, <3>3, Replaced
    <3> HIDE DEF r
    <3>6. struct[x] = NULL /\ x # NULL
      BY <3>1, FreshStruct, TypesAssumption DEF PointerInv
    <3>7. /\ struct'[x] = [type |-> f.type, super |-> f.super]
          /\ struct'[x] \in ClassStructs /\ struct'[x].type = f.type
          /\ \A y \in Structs : y # x => struct'[y] = struct[y]
          /\ \A y \in Structs : struct[y] # NULL => struct'[y] = struct[y]
      BY <1>3, <3>1, <3>6 DEF PointerInv, TypeOK, ClassStructs
    <3>8. struct'[x] # NULL
      BY <3>7, TypesAssumption
    <3>9. TypeOK'
      BY <1>1, <1>3, <3>1, <3>2, <3>4, <3>5, <3>7 DEF PointerInv, TypeOK
    <3>10. /\ type_location'[f.type] = x
           /\ \A c \in Types : c # f.type => type_location'[c] = type_location[c]
      BY <1>3, <3>1 DEF PointerInv, TypeOK
    <3>11. NoStaleType' /\ \A c \in Types : type_location'[c] # NULL => c \in registered'
      BY <3>2, <3>7, <3>8, <3>10 DEF PointerInv, NoStaleType, TypeOK
    <3>12. stack'[t] = r /\ \A u \in Threads : u # t => stack'[u] = stack[u]
      BY <3>4 DEF PointerInv, TypeOK
    <3>13. MadeInv'
      <4> SUFFICES ASSUME NEW u \in Threads, NEW i \in 1..Len(stack'[u]),
                          stack'[u][i].made # NULL
                   PROVE  /\ struct'[stack'[u][i].made] # NULL
                          /\ struct'[stack'[u][i].made].type = stack'[u][i].type
                          /\ stack'[u][i].type \in registered'
        BY DEF MadeInv
      <4>1. CASE u = t /\ i = 1
        BY <4>1, <3>2, <3>3, <3>5, <3>7, <3>8, <3>12
      <4>2. CASE ~(u = t /\ i = 1)
        <5>1. stack'[u][i] = stack[u][i] /\ i \in 1..Len(stack[u])
          BY <4>2, <3>5, <3>12, <1>3
        <5>2. stack[u][i].made \in Structs
          <6>1. stack[u] \in Seq(Frames)
            BY DEF PointerInv, TypeOK
          <6>2. stack[u][i] \in Frames
            BY <5>1, <6>1
          <6> QED
            BY <5>1, <6>2 DEF Frames
        <5>3. /\ struct[stack[u][i].made] # NULL
              /\ struct[stack[u][i].made].type = stack[u][i].type
              /\ stack[u][i].type \in registered
          BY <5>1 DEF PointerInv, MadeInv
        <5> QED
          BY <5>1, <5>2, <5>3, <3>2, <3>7
      <4> QED
        BY <4>1, <4>2
    <3> QED
      BY <3>9, <3>11, <3>13 DEF PointerInv
  <2> QED
    BY <2>1, <2>2
<1>6. CASE Unlock(t)
  <2> DEFINE h == [f EXCEPT !.step = "store"]
             r == <<h>> \o Tail(s)
  <2>1. h \in Frames /\ h.made = f.made /\ h.type = f.type
    BY <1>1 DEF Frames, Steps
  <2> HIDE DEF h
  <2>2. /\ r \in Seq(Frames) /\ Len(r) = Len(s) /\ Len(s) >= 1 /\ r[1] = h
        /\ \A i \in 2..Len(s) : r[i] = s[i]
    BY <1>1, <2>1, Replaced
  <2>3. \A i \in 1..Len(r) :
          r[i].made # NULL => /\ struct[r[i].made] # NULL
                              /\ struct[r[i].made].type = r[i].type
                              /\ r[i].type \in registered
    BY <1>1, <1>2, <1>3, <2>1, <2>2
  <2>4. /\ UNCHANGED <<classVars, calls>> /\ mutex' = NULL
        /\ stack' = [stack EXCEPT ![t] = r]
    BY <1>6 DEF Unlock, Top, Continue, h
  <2> QED
    BY <1>1, <2>2, <2>3, <2>4, StackStep
<1>7. CASE Store(t)
  <2> DEFINE h == [f EXCEPT !.step = "return"]
             r == <<h>> \o Tail(s)
  <2>1. h \in Frames /\ h.made = f.made /\ h.type = f.type
    BY <1>1 DEF Frames, Steps
  <2> HIDE DEF h
  <2>2. /\ r \in Seq(Frames) /\ Len(r) = Len(s) /\ Len(s) >= 1 /\ r[1] = h
        /\ \A i \in 2..Len(s) : r[i] = s[i]
    BY <1>1, <2>1, Replaced
  <2>3. /\ type_location' = [type_location EXCEPT ![f.type] = f.made]
        /\ UNCHANGED <<struct, registered, mutex, calls>>
        /\ stack' = [stack EXCEPT ![t] = r]
    BY <1>7 DEF Store, Top, Continue, h
  <2> HIDE DEF r
  <2>4. /\ stack'[t] = r /\ \A u \in Threads : u # t => stack'[u] = stack[u]
        /\ type_location'[f.type] = f.made
        /\ \A c \in Types : c # f.type => type_location'[c] = type_location[c]
    BY <2>3, <1>3 DEF PointerInv, TypeOK
  <2>5. TypeOK'
    BY <1>1, <1>3, <2>2, <2>3 DEF PointerInv, TypeOK
  <2>6. f.made # NULL => /\ struct[f.made] # NULL
                         /\ struct[f.made].type = f.type
                         /\ f.type \in registered
    BY <1>1, <1>2, <1>3, <2>2
  <2>7. NoStaleType' /\ \A c \in Types : type_location'[c] # NULL => c \in registered'
    BY <2>3, <2>4, <2>6 DEF PointerInv, NoStaleType
  <2>8. MadeInv'
    BY <2>1, <2>2, <2>3, <2>4, <2>6 DEF PointerInv, MadeInv
  <2> QED
    BY <2>5, <2>7, <2>8 DEF PointerInv
<1>8. CASE Return(t)
  <2> DEFINE rest == Tail(s)
  <2>1. /\ rest \in Seq(Frames) /\ Len(rest) = Len(s) - 1 /\ Len(s) >= 1
        /\ \A i \in 1..Len(s) - 1 : rest[i] = s[i + 1]
    BY <1>1, Popped
  <2>2. UNCHANGED <<classVars, mutex, calls>>
    BY <1>8 DEF Return
  <2> HIDE DEF rest
  <2>3. \A i \in 1..Len(rest) :
          rest[i].made # NULL => /\ struct[rest[i].made] # NULL
                                 /\ struct[rest[i].made].type = rest[i].type
                                 /\ rest[i].type \in registered
    BY <2>1, <1>2, <1>3
  <2>4. CASE rest = <<>> /\ stack' = [stack EXCEPT ![t] = <<>>]
    BY <1>1, <2>1, <2>2, <2>3, <2>4, StackStep
  <2>5. CASE /\ rest # <<>>
             /\ stack' = [stack EXCEPT ![t] =
                   <<[Head(rest) EXCEPT !.super = type_location[f.type]]>> \o Tail(rest)]
    <3> DEFINE h == [Head(rest) EXCEPT !.super = type_location[f.type]]
               r == <<h>> \o Tail(rest)
    <3>1. /\ h \in Frames /\ h.made = rest[1].made /\ h.type = rest[1].type
      <4>1. Head(rest) = rest[1] /\ rest[1] \in Frames
        BY <2>1, <2>5
      <4> QED
        BY <4>1, <1>3 DEF Frames, PointerInv, TypeOK
    <3> HIDE DEF h
    <3>2. /\ r \in Seq(Frames) /\ Len(r) = Len(rest) /\ Len(rest) >= 1 /\ r[1] = h
          /\ \A i \in 2..Len(rest) : r[i] = rest[i]
      BY <2>1, <2>5, <3>1, Replaced
    <3>3. stack' = [stack EXCEPT ![t] = r]
      BY <2>5 DEF h
    <3> HIDE DEF r
    <3>4. \A i \in 1..Len(r) :
            r[i].made # NULL => /\ struct[r[i].made] # NULL
                                /\ struct[r[i].made].type = r[i].type
                                /\ r[i].type \in registered
      BY <2>1, <2>3, <3>1, <3>2
    <3> QED
      BY <1>1, <2>2, <3>2, <3>3, <3>4, StackStep
  <2> QED
    BY <1>8, <2>4, <2>5 DEF Return, Top, rest
<1> QED
  BY <1>4, <1>5, <1>6, <1>7, <1>8 DEF Step

LEMMA NextPointers == PointerInv /\ [Next]_vars => PointerInv'
<1> SUFFICES ASSUME PointerInv, [Next]_vars
             PROVE  PointerInv'
  OBVIOUS
<1>1. ASSUME NEW t \in Threads, Step(t)
      PROVE  PointerInv'
  BY <1>1, StepPointers
<1>2. ASSUME NEW t \in Threads, NEW c \in Types, Call(t, c)
      PROVE  PointerInv'
  <2> DEFINE r == <<Frame(c)>>
  <2>1. r \in Seq(Frames) /\ Len(r) = 1 /\ r[1].made = NULL
    BY FrameType DEF Frame
  <2>2. /\ stack' = [stack EXCEPT ![t] = r]
        /\ UNCHANGED <<classVars, mutex>>
        /\ calls' \in [Threads -> Nat] /\ mutex' \in Threads \cup {NULL}
    BY <1>2 DEF Call, PointerInv, TypeOK
  <2> HIDE DEF r
  <2>3. \A i \in 1..Len(r) : r[i].made = NULL
    BY <2>1
  <2> QED
    BY <2>1, <2>2, <2>3, StackStep
<1>3. CASE DestroyRuntime
  <2>1. \A t \in Threads : stack[t] = <<>> /\ Len(stack[t]) = 0
    BY <1>3 DEF DestroyRuntime, Idle
  <2>2. \A c \in Types : type_location'[c] = NULL
    BY <1>3 DEF DestroyRuntime, PointerInv
  <2>3. MadeInv'
    BY <1>3, <2>1 DEF DestroyRuntime, MadeInv
  <2>4. TypeOK'
    BY <1>3 DEF DestroyRuntime, PointerInv, TypeOK
  <2> QED
    BY <2>2, <2>3, <2>4 DEF PointerInv, NoStaleType
<1>4. CASE UNCHANGED vars
  BY <1>4 DEF vars, classVars, PointerInv, TypeOK, NoStaleType, MadeInv
<1> QED
  BY <1>1, <1>2, <1>3, <1>4 DEF Next, Rest

(* The invariant of the pointers holds whatever the clients do.            *)
THEOREM Invariance == Spec => []PointerInv
BY InitPointers, NextPointers, PTL DEF Spec

(* The variables keep their types.                                         *)
THEOREM TypeCorrectness == Spec => []TypeOK
<1>1. PointerInv => TypeOK
  BY DEF PointerInv
<1> QED
  BY <1>1, Invariance, PTL

(* y_erase_type reaches every location: no static pointer outlives the     *)
(* struct that it points to, even if threads race to make a class.         *)
THEOREM NoPointerIsStale == Spec => []NoStaleType
<1>1. PointerInv => NoStaleType
  BY DEF PointerInv
<1> QED
  BY <1>1, Invariance, PTL

-----------------------------------------------------------------------------
(* Links between classes, if the clients keep the rule. *)

(* Only Main makes classes.                                                *)
OthersInv ==
  \A t \in Threads : t # Main /\ stack[t] # <<>> =>
    /\ \A p \in Preloaded : type_location[p] # NULL
    /\ Len(stack[t]) = 1
    /\ stack[t][1].type \in Preloaded
    /\ stack[t][1].step \in {"check", "return"}

(* The calls of Main climb the hierarchy; what one of them waits for, or   *)
(* has found or made, is still so.                                         *)
ClimbInv ==
  LET s == stack[Main] IN
  /\ \A i \in 2..Len(s) :
       /\ s[i].step = "init"
       /\ Super[s[i].type] = s[i - 1].type
  /\ \A i \in 1..Len(s) :
       /\ s[i].step = "init" => type_location[s[i].type] = NULL
       /\ s[i].step \in {"unlock", "store"} =>
            s[i].made # NULL /\ type_location[s[i].type] = s[i].made
       /\ s[i].step = "return" => type_location[s[i].type] # NULL
  /\ Len(s) >= 1 /\ s[1].step = "init" /\ Super[s[1].type] # NULL =>
       s[1].super # NULL /\ s[1].super = type_location[Super[s[1].type]]

LinkInv == PointerInv /\ OthersInv /\ ClimbInv /\ SuperLinked

(* As the hierarchy has no cycle, no class is waited for twice.            *)
LEMMA NoneTwice ==
  ASSUME LinkInv, NEW i \in 1..Len(stack[Main]), NEW c \in Types,
         \/ c = Super[stack[Main][1].type]
         \/ i # 1 /\ c = stack[Main][1].type
  PROVE  stack[Main][i].type # c
<1> DEFINE s == stack[Main]
           S == {s[j].type : j \in 1..i}
<1>1. s \in Seq(Frames) /\ Len(s) \in Nat
  BY TypesAssumption DEF LinkInv, PointerInv, TypeOK
<1> HIDE DEF s
<1>2. \A j \in 1..Len(s) : s[j].type \in Types
  <2>1. \A j \in 1..Len(s) : s[j] \in Frames
    BY <1>1
  <2> QED
    BY <2>1 DEF Frames
<1>3. \A j \in 2..Len(s) : Super[s[j].type] = s[j - 1].type
  BY DEF LinkInv, ClimbInv, s
<1>4. SUFFICES ASSUME s[i].type = c
               PROVE  FALSE
  BY DEF s
<1>5. CASE c = Super[s[1].type]
  <2>1. S \in SUBSET Types /\ S # {}
    BY <1>1, <1>2 DEF s
  <2>2. \A j \in 1..i : Super[s[j].type] \in S
    <3> TAKE j \in 1..i
    <3>1. CASE j = 1
      BY <1>1, <1>4, <1>5, <3>1 DEF s
    <3>2. CASE j \in 2..i
      <4>1. j - 1 \in 1..i /\ j \in 2..Len(s)
        BY <3>2, <1>1 DEF s
      <4> QED
        BY <4>1, <1>3
    <3> QED
      BY <3>1, <3>2
  <2>3. \A d \in S : Super[d] \in S
    BY <2>2
  <2> HIDE DEF S
  <2> QED
    BY <2>1, <2>3, TypesAssumption
<1>6. CASE i # 1 /\ c = s[1].type
  <2> DEFINE T == {s[j].type : j \in 2..i}
  <2>1. T \in SUBSET Types /\ T # {}
    BY <1>1, <1>2, <1>6 DEF s
  <2>2. \A j \in 2..i : Super[s[j].type] \in T
    <3> TAKE j \in 2..i
    <3>1. j \in 2..Len(s)
      BY <1>1 DEF s
    <3>2. CASE j = 2
      <4>1. Super[s[j].type] = s[1].type
        BY <3>1, <3>2, <1>3
      <4> QED
        BY <4>1, <1>1, <1>4, <1>6 DEF s
    <3>3. CASE j \in 3..i
      <4>1. j - 1 \in 2..i
        BY <3>3, <1>1 DEF s
      <4> QED
        BY <4>1, <3>1, <1>3
    <3> QED
      BY <3>2, <3>3
  <2>3. \A d \in T : Super[d] \in T
    BY <2>2
  <2> HIDE DEF T
  <2> QED
    BY <2>1, <2>3, TypesAssumption
<1> QED
  BY <1>5, <1>6 DEF s

(* The calls of the other threads do not mind what Main does.              *)
LEMMA OthersKept ==
  ASSUME LinkInv, NEW r, stack' = [stack EXCEPT ![Main] = r],
         \A c \in Types : type_location[c] # NULL => type_location'[c] # NULL
  PROVE  OthersInv'
<1>1. \A t \in Threads : t # Main => stack'[t] = stack[t]
  BY TypesAssumption DEF LinkInv, PointerInv, TypeOK
<1> QED
  BY <1>1, TypesAssumption DEF LinkInv, OthersInv

(* Main goes on in its running call.                                       *)
LEMMA TopReplaced ==
  ASSUME LinkInv, NEW r \in Seq(Frames),
         Len(r) = Len(stack[Main]), Len(r) >= 1,
         r[1].type = stack[Main][1].type,
         \A i \in 2..Len(r) : r[i] = stack[Main][i],
         stack' = [stack EXCEPT ![Main] = r],
         \A i \in 2..Len(r) : type_location'[r[i].type] = NULL,
         r[1].step = "init" => type_location'[r[1].type] = NULL,
         r[1].step \in {"unlock", "store"} =>
           r[1].made # NULL /\ type_location'[r[1].type] = r[1].made,
         r[1].step = "return" => type_location'[r[1].type] # NULL,
         r[1].step = "init" => Super[r[1].type] = NULL
  PROVE  ClimbInv'
<1> DEFINE s == stack[Main]
<1>1. stack'[Main] = r /\ Len(s) \in Nat
  BY TypesAssumption DEF LinkInv, PointerInv, TypeOK
<1>2. \A i \in 2..Len(s) : s[i].step = "init" /\ Super[s[i].type] = s[i - 1].type
  BY DEF LinkInv, ClimbInv
<1> HIDE DEF s
<1>3. \A i \in 2..Len(r) : r[i].step = "init" /\ Super[r[i].type] = r[i - 1].type
  <2> TAKE i \in 2..Len(r)
  <2>1. i \in 2..Len(s) /\ r[i] = s[i]
    BY DEF s
  <2>2. r[i - 1].type = s[i - 1].type
    <3>1. CASE i = 2
      BY <3>1 DEF s
    <3>2. CASE i # 2
      <4>1. i - 1 \in 2..Len(r)
        BY <3>2, <1>1 DEF s
      <4> QED
        BY <4>1 DEF s
    <3> QED
      BY <3>1, <3>2
  <2> QED
    BY <1>2, <2>1, <2>2
<1> QED
  BY <1>1, <1>3 DEF ClimbInv, s

LEMMA InitLinks == Init => LinkInv
<1>1. Init => PointerInv
  BY InitPointers
<1>2. Init => OthersInv /\ SuperLinked
  BY DEF Init, OthersInv, SuperLinked
<1>3. Init => ClimbInv
  <2> SUFFICES ASSUME Init
               PROVE  stack[Main] = <<>>
    BY DEF ClimbInv
  <2> QED
    BY TypesAssumption DEF Init
<1> QED
  BY <1>1, <1>2, <1>3 DEF LinkInv

(* The steps of the other threads find what they ask for.                  *)
LEMMA OtherLinks ==
  ASSUME LinkInv, NEW t \in Threads, t # Main, Step(t)
  PROVE  OthersInv' /\ ClimbInv' /\ SuperLinked'
<1> DEFINE s == stack[t]
           f == s[1]
<1>1. /\ s \in Seq(Frames) /\ s # <<>> /\ Head(s) = f /\ f \in Frames
  <2>1. s # <<>>
    BY DEF Step, Check, y_Runtime_init_type, Unlock, Store, Return, At, Idle
  <2>2. s \in Seq(Frames)
    BY DEF LinkInv, PointerInv, TypeOK
  <2> HIDE DEF s
  <2> QED
    BY <2>1, <2>2, Popped
<1>2. /\ \A p \in Preloaded : type_location[p] # NULL
      /\ Len(s) = 1 /\ f.type \in Preloaded /\ f.step \in {"check", "return"}
  BY <1>1 DEF LinkInv, OthersInv
<1>3. Check(t) \/ Return(t)
  BY <1>1, <1>2 DEF Step, y_Runtime_init_type, Unlock, Store, At
<1>4. UNCHANGED classVars /\ \E r : /\ stack' = [stack EXCEPT ![t] = r]
                                   /\ \/ r = <<>>
                                      \/ /\ Len(r) = 1
                                         /\ r[1].type = f.type
                                         /\ r[1].step = "return"
  <2>1. CASE Check(t)
    <3> DEFINE h == [f EXCEPT !.step = "return"]
               r == <<h>> \o Tail(s)
    <3>1. h \in Frames /\ h.type = f.type /\ h.step = "return"
      BY <1>1 DEF Frames, Steps
    <3>2. UNCHANGED classVars /\ stack' = [stack EXCEPT ![t] = r]
      BY <2>1, <1>1, <1>2 DEF Check, Top, Continue
    <3> HIDE DEF h, s
    <3>3. Len(r) = 1 /\ r[1] = h
      BY <1>1, <1>2, <3>1, Replaced
    <3> QED
      BY <3>1, <3>2, <3>3
  <2>2. CASE Return(t)
    <3>1. Tail(s) = <<>>
      <4> DEFINE q == Tail(s)
      <4> HIDE DEF s
      <4>1. q \in Seq(Frames) /\ Len(q) = 0
        BY <1>1, <1>2, Popped
      <4> HIDE DEF q
      <4>2. q = <<>>
        BY <4>1
      <4> QED
        BY <4>2 DEF q
    <3> QED
      BY <2>2, <3>1 DEF Return
  <2> QED
    BY <1>3, <2>1, <2>2
<1>5. PICK r : /\ stack' = [stack EXCEPT ![t] = r]
               /\ \/ r = <<>>
                  \/ Len(r) = 1 /\ r[1].type = f.type /\ r[1].step = "return"
  BY <1>4
<1>6. stack'[t] = r /\ \A u \in Threads : u # t => stack'[u] = stack[u]
  BY <1>5 DEF LinkInv, PointerInv, TypeOK
<1>7. OthersInv'
  BY <1>2, <1>4, <1>5, <1>6 DEF LinkInv, OthersInv, classVars
<1>8. ClimbInv'
  BY <1>4, <1>6, TypesAssumption DEF LinkInv, ClimbInv, classVars
<1>9. SuperLinked'
  BY <1>4 DEF LinkInv, SuperLinked, classVars
<1> QED
  BY <1>7, <1>8, <1>9

LEMMA MainLinks ==
  ASSUME LinkInv, Step(Main)
  PROVE  OthersInv' /\ ClimbInv' /\ SuperLinked'
<1> DEFINE s == stack[Main]
           f == s[1]
<1>1. /\ s \in Seq(Frames) /\ s # <<>> /\ Head(s) = f /\ f \in Frames
      /\ Len(s) \in Nat /\ Len(s) >= 1 /\ Main \in Threads
  <2>1. s # <<>>
    BY DEF Step, Check, y_Runtime_init_type, Unlock, Store, Return, At, Idle
  <2>2. s \in Seq(Frames)
    BY TypesAssumption DEF LinkInv, PointerInv, TypeOK
  <2> HIDE DEF s
  <2> QED
    BY <2>1, <2>2, Popped, TypesAssumption
<1>2. f.type \in Types /\ f.made \in Structs \cup {NULL}
      /\ f.super \in Structs \cup {NULL} /\ f.step \in Steps
  BY <1>1 DEF Frames
<1>3. /\ \A i \in 2..Len(s) : /\ s[i].step = "init"
                             /\ Super[s[i].type] = s[i - 1].type
                             /\ type_location[s[i].type] = NULL
      /\ f.step = "init" => type_location[f.type] = NULL
      /\ f.step \in {"unlock", "store"} =>
           f.made # NULL /\ type_location[f.type] = f.made
      /\ f.step = "return" => type_location[f.type] # NULL
      /\ f.step = "init" /\ Super[f.type] # NULL =>
           f.super # NULL /\ f.super = type_location[Super[f.type]]
  <2>1. 1 \in 1..Len(s) /\ \A i \in 2..Len(s) : i \in 1..Len(s)
    BY <1>1
  <2> QED
    BY <1>1, <2>1 DEF LinkInv, ClimbInv
<1>4. \A i \in 2..Len(s) : s[i] \in Frames /\ s[i].type \in Types
  <2> HIDE DEF s
  <2>1. \A i \in 2..Len(s) : s[i] \in Frames
    BY <1>1
  <2> QED
    BY <2>1 DEF Frames
<1>5. PointerInv /\ SuperLinked
  BY DEF LinkInv
(* The running call becomes h, and no location changes.                    *)
<1>6. ASSUME NEW h \in Frames, h.type = f.type,
             stack' = [stack EXCEPT ![Main] = <<h>> \o Tail(s)],
             UNCHANGED <<type_location, struct>>,
             h.step = "init" => type_location[h.type] = NULL /\ Super[h.type] = NULL,
             h.step \in {"unlock", "store"} =>
               h.made # NULL /\ type_location[h.type] = h.made,
             h.step = "return" => type_location[h.type] # NULL
      PROVE  OthersInv' /\ ClimbInv' /\ SuperLinked'
  <2> DEFINE r == <<h>> \o Tail(s)
  <2>1. /\ r \in Seq(Frames) /\ Len(r) = Len(s) /\ r[1] = h
        /\ \A i \in 2..Len(s) : r[i] = s[i]
    BY <1>1, Replaced
  <2>2. stack' = [stack EXCEPT ![Main] = r]
    BY <1>6
  <2> HIDE DEF r
  <2>3. ClimbInv'
    <3>1. /\ Len(r) = Len(stack[Main]) /\ Len(r) >= 1
          /\ r[1].type = stack[Main][1].type
          /\ \A i \in 2..Len(r) : r[i] = stack[Main][i]
      BY <1>1, <1>6, <2>1
    <3>2. \A i \in 2..Len(r) : type_location'[r[i].type] = NULL
      BY <1>3, <1>6, <2>1
    <3> HIDE DEF f, s
    <3> QED
      BY <1>6, <2>1, <2>2, <3>1, <3>2, TopReplaced
  <2>4. OthersInv'
    BY <1>6, <2>2, OthersKept
  <2>5. SuperLinked'
    BY <1>5, <1>6 DEF SuperLinked
  <2> QED
    BY <2>3, <2>4, <2>5
<1>7. CASE Check(Main)
  <2>1. UNCHANGED classVars /\ UNCHANGED <<type_location, struct>>
    BY <1>7 DEF Check, classVars
  <2>2. CASE /\ type_location[f.type] # NULL
             /\ stack' = [stack EXCEPT ![Main] =
                            <<[f EXCEPT !.step = "return"]>> \o Tail(s)]
    <3> DEFINE h == [f EXCEPT !.step = "return"]
    <3>1. h \in Frames /\ h.type = f.type /\ h.step = "return"
      BY <1>1 DEF Frames, Steps
    <3>2. stack' = [stack EXCEPT ![Main] = <<h>> \o Tail(s)]
      BY <2>2
    <3> HIDE DEF h
    <3> QED
      BY <2>1, <2>2, <3>1, <3>2, <1>6
  <2>3. CASE /\ type_location[f.type] = NULL /\ Super[f.type] = NULL
             /\ stack' = [stack EXCEPT ![Main] =
                            <<[f EXCEPT !.step = "init"]>> \o Tail(s)]
    <3> DEFINE h == [f EXCEPT !.step = "init"]
    <3>1. h \in Frames /\ h.type = f.type /\ h.step = "init"
      BY <1>1 DEF Frames, Steps
    <3>2. stack' = [stack EXCEPT ![Main] = <<h>> \o Tail(s)]
      BY <2>3
    <3> HIDE DEF h
    <3> QED
      BY <2>1, <2>3, <3>1, <3>2, <1>6
  <2>4. CASE /\ type_location[f.type] = NULL /\ Super[f.type] # NULL
             /\ stack' = [stack EXCEPT ![Main] =
                  <<Frame(Super[f.type]), [f EXCEPT !.step = "init"]>> \o Tail(s)]
    <3> DEFINE h == [f EXCEPT !.step = "init"]
               n == Frame(Super[f.type])
               r == <<n, h>> \o Tail(s)
    <3>1. h \in Frames /\ h.type = f.type /\ h.step = "init"
      BY <1>1 DEF Frames, Steps
    <3>2. n \in Frames /\ n.type = Super[f.type] /\ n.step = "check"
      BY <1>2, <2>4, FrameType, TypesAssumption DEF Frame
    <3>3. stack' = [stack EXCEPT ![Main] = r]
      BY <2>4
    <3> HIDE DEF h, n
    <3>4. /\ r \in Seq(Frames) /\ Len(r) = Len(s) + 1 /\ r[1] = n /\ r[2] = h
          /\ \A i \in 3..Len(s) + 1 : r[i] = s[i - 1]
      BY <1>1, <3>1, <3>2, Pushed
    <3> HIDE DEF r
    <3>5. stack'[Main] = r
      BY <1>1, <3>3 DEF LinkInv, PointerInv, TypeOK
    <3>6. ASSUME NEW i \in 2..Len(r)
          PROVE  /\ r[i].step = "init" /\ Super[r[i].type] = r[i - 1].type
                 /\ type_location'[r[i].type] = NULL
      <4>1. CASE i = 2
        BY <4>1, <2>1, <2>4, <3>1, <3>2, <3>4
      <4>2. CASE i = 3
        <5>1. 2 \in 2..Len(s) /\ r[i] = s[2] /\ r[i - 1].type = f.type
          BY <4>2, <1>1, <3>1, <3>4, <3>6
        <5> QED
          BY <5>1, <1>3, <2>1
      <4>3. CASE i \in 4..Len(r)
        <5>1. /\ i - 1 \in 2..Len(s) /\ r[i] = s[i - 1]
              /\ r[i - 1] = s[(i - 1) - 1]
          <6> HIDE DEF s
          <6>1. /\ i - 1 \in 2..Len(s) /\ i \in 3..Len(s) + 1
                /\ i - 1 \in 3..Len(s) + 1
            BY <4>3, <1>1, <3>4
          <6> QED
            BY <6>1, <3>4
        <5> QED
          BY <5>1, <1>3, <2>1
      <4> QED
        BY <4>1, <4>2, <4>3, <3>4, <1>1
    <3>7. ClimbInv'
      BY <1>1, <3>2, <3>4, <3>5, <3>6 DEF ClimbInv
    <3>8. OthersInv'
      BY <2>1, <3>3, OthersKept
    <3>9. SuperLinked'
      BY <1>5, <2>1 DEF SuperLinked
    <3> QED
      BY <3>7, <3>8, <3>9
  <2>5. Top(Main) = f
    BY <1>1 DEF Top
  <2> HIDE DEF f
  <2> QED
    BY <1>7, <2>2, <2>3, <2>4, <2>5 DEF Check, Continue
<1>8. CASE y_Runtime_init_type(Main)
  <2>1. f.step = "init" /\ type_location[f.type] = NULL
    BY <1>1, <1>3, <1>8 DEF y_Runtime_init_type, At
  <2>2. PICK x \in Structs :
          /\ Fresh(x)
          /\ struct' = [struct EXCEPT ![x] = [type |-> f.type, super |-> f.super]]
          /\ type_location' = [type_location EXCEPT ![f.type] = x]
          /\ stack' = [stack EXCEPT ![Main] =
                         <<[f EXCEPT !.step = "unlock", !.made = x]>> \o Tail(@)]
    BY <1>1, <1>8, <2>1 DEF y_Runtime_init_type, Top, Continue
  <2> DEFINE h == [f EXCEPT !.step = "unlock", !.made = x]
             r == <<h>> \o Tail(s)
  <2>3. h \in Frames /\ h.type = f.type /\ h.step = "unlock" /\ h.made = x
    BY <1>1 DEF Frames, Steps
  <2>4. stack' = [stack EXCEPT ![Main] = r]
    BY <2>2
  <2> HIDE DEF h
  <2>5. /\ r \in Seq(Frames) /\ Len(r) = Len(s) /\ r[1] = h
        /\ \A i \in 2..Len(s) : r[i] = s[i]
    BY <1>1, <2>3, Replaced
  <2> HIDE DEF r
  <2>6. struct[x] = NULL /\ x # NULL
    BY <1>5, <2>2, FreshStruct, TypesAssumption DEF PointerInv
  <2>7. /\ type_location'[f.type] = x
        /\ \A c \in Types : c # f.type => type_location'[c] = type_location[c]
        /\ struct'[x].super = f.super
        /\ \A y \in Structs : y # x => struct'[y] = struct[y]
    BY <1>2, <1>5, <2>2 DEF PointerInv, TypeOK
  <2>8. \A i \in 2..Len(s) : type_location'[s[i].type] = NULL
    <3> TAKE i \in 2..Len(s)
    <3>1. s[i].type # f.type
      BY <1>1, <1>2, NoneTwice
    <3> QED
      BY <3>1, <1>3, <1>4, <2>7
  <2>9. ClimbInv'
    <3>1. /\ Len(r) = Len(stack[Main]) /\ Len(r) >= 1
          /\ r[1].type = stack[Main][1].type
          /\ \A i \in 2..Len(r) : r[i] = stack[Main][i]
      BY <1>1, <2>3, <2>5
    <3>2. \A i \in 2..Len(r) : type_location'[r[i].type] = NULL
      BY <2>5, <2>8
    <3> HIDE DEF f, s
    <3> QED
      BY <2>3, <2>4, <2>5, <2>6, <2>7, <3>1, <3>2, TopReplaced
  <2>10. OthersInv'
    BY <2>4, <2>6, <2>7, OthersKept
  <2>11. SuperLinked'
    <3> SUFFICES ASSUME NEW c \in Types, type_location'[c] # NULL, Super[c] # NULL
                 PROVE  /\ type_location'[Super[c]] # NULL
                        /\ struct'[type_location'[c]].super = type_location'[Super[c]]
      BY DEF SuperLinked
    <3>1. Super[c] \in Types
      BY TypesAssumption
    <3>2. CASE c = f.type
      <4>1. f.type # Super[f.type]
        BY <1>1, <3>1, <3>2, NoneTwice
      <4> QED
        BY <4>1, <1>3, <2>1, <2>7, <3>1, <3>2
    <3>3. CASE c # f.type
      <4>1. /\ type_location[c] # NULL /\ type_location[Super[c]] # NULL
            /\ struct[type_location[c]].super = type_location[Super[c]]
        BY <1>5, <2>7, <3>3 DEF SuperLinked
      <4>2. struct[type_location[c]] # NULL /\ type_location[c] \in Structs
        BY <1>5, <4>1 DEF PointerInv, NoStaleType, TypeOK
      <4> QED
        BY <2>1, <2>6, <2>7, <3>1, <3>3, <4>1, <4>2
    <3> QED
      BY <3>2, <3>3
  <2> QED
    BY <2>9, <2>10, <2>11
<1>9. CASE Unlock(Main)
  <2> DEFINE h == [f EXCEPT !.step = "store"]
  <2>1. h \in Frames /\ h.type = f.type /\ h.step = "store" /\ h.made = f.made
    BY <1>1 DEF Frames, Steps
  <2>2. /\ stack' = [stack EXCEPT ![Main] = <<h>> \o Tail(s)]
        /\ f.step = "unlock" /\ UNCHANGED <<type_location, struct>>
    BY <1>1, <1>9 DEF Unlock, Top, Continue, At, classVars
  <2> HIDE DEF h
  <2> QED
    BY <1>3, <1>6, <2>1, <2>2
<1>10. CASE Store(Main)
  <2> DEFINE h == [f EXCEPT !.step = "return"]
  <2>1. h \in Frames /\ h.type = f.type /\ h.step = "return"
    BY <1>1 DEF Frames, Steps
  <2>2. /\ stack' = [stack EXCEPT ![Main] = <<h>> \o Tail(s)]
        /\ f.step = "store" /\ UNCHANGED struct
        /\ type_location' = [type_location EXCEPT ![f.type] = f.made]
    BY <1>1, <1>10 DEF Store, Top, Continue, At
  <2>3. f.made # NULL /\ type_location[f.type] = f.made
    BY <1>3, <2>2
  <2>4. UNCHANGED type_location
    BY <1>2, <1>5, <2>2, <2>3 DEF PointerInv, TypeOK
  <2> HIDE DEF h
  <2> QED
    BY <1>6, <2>1, <2>2, <2>3, <2>4
<1>11. CASE Return(Main)
  <2> DEFINE rest == Tail(s)
  <2>1. /\ rest \in Seq(Frames) /\ Len(rest) = Len(s) - 1
        /\ \A i \in 1..Len(s) - 1 : rest[i] = s[i + 1]
    BY <1>1, Popped
  <2>2. UNCHANGED <<type_location, struct>> /\ type_location[f.type] # NULL
    BY <1>1, <1>3, <1>11 DEF Return, classVars, At
  <2> HIDE DEF rest
  <2>3. SuperLinked'
    BY <1>5, <2>2 DEF SuperLinked
  <2>4. CASE rest = <<>> /\ stack' = [stack EXCEPT ![Main] = <<>>]
    <3>1. stack'[Main] = <<>>
      BY <1>1, <1>5, <2>4 DEF PointerInv, TypeOK
    <3>2. ClimbInv'
      BY <3>1 DEF ClimbInv
    <3>3. OthersInv'
      BY <2>2, <2>4, OthersKept
    <3> QED
      BY <2>3, <3>2, <3>3
  <2>5. CASE /\ rest # <<>>
             /\ stack' = [stack EXCEPT ![Main] =
                   <<[Head(rest) EXCEPT !.super = type_location[f.type]]>> \o Tail(rest)]
    <3> DEFINE h == [Head(rest) EXCEPT !.super = type_location[f.type]]
               r == <<h>> \o Tail(rest)
    <3>1. Len(rest) >= 1 /\ Head(rest) = rest[1] /\ rest[1] \in Frames
      BY <2>1, <2>5
    <3>2. /\ h \in Frames /\ h.type = rest[1].type /\ h.step = rest[1].step
          /\ h.super = type_location[f.type]
      BY <1>2, <1>5, <3>1 DEF Frames, PointerInv, TypeOK
    <3>3. stack' = [stack EXCEPT ![Main] = r]
      BY <2>5
    <3> HIDE DEF h
    <3>4. /\ r \in Seq(Frames) /\ Len(r) = Len(rest) /\ r[1] = h
          /\ \A i \in 2..Len(rest) : r[i] = rest[i]
      BY <2>1, <2>5, <3>2, Replaced
    <3> HIDE DEF r
    <3>5. stack'[Main] = r
      BY <1>1, <1>5, <3>3 DEF PointerInv, TypeOK
    <3>6. \A i \in 2..Len(r) : r[i] = s[i + 1] /\ i + 1 \in 2..Len(s)
      BY <1>1, <2>1, <3>4
    <3>7. 2 \in 2..Len(s) /\ r[1].type = s[2].type /\ r[1].step = s[2].step
      BY <1>1, <2>1, <3>1, <3>2, <3>4
    <3>8. \A i \in 2..Len(r) : r[i - 1].type = s[i].type
      <4> TAKE i \in 2..Len(r)
      <4>1. CASE i = 2
        BY <4>1, <3>7
      <4>2. CASE i # 2
        <5>1. i - 1 \in 2..Len(r) /\ (i - 1) + 1 = i
          BY <4>2, <2>1, <3>4
        <5> QED
          BY <5>1, <3>6
      <4> QED
        BY <4>1, <4>2
    <3>9. ASSUME NEW i \in 2..Len(r)
          PROVE  /\ r[i].step = "init" /\ Super[r[i].type] = r[i - 1].type
                 /\ type_location'[r[i].type] = NULL
      <4>1. r[i] = s[i + 1] /\ i + 1 \in 2..Len(s) /\ (i + 1) - 1 = i
        BY <3>6
      <4> QED
        BY <4>1, <1>3, <2>2, <3>8
    <3>10. /\ r[1].step = "init" /\ type_location'[r[1].type] = NULL
           /\ Super[r[1].type] = f.type /\ r[1].super = type_location[f.type]
      <4>1. s[2].step = "init" /\ Super[s[2].type] = s[2 - 1].type
            /\ type_location[s[2].type] = NULL
        BY <1>3, <3>7
      <4> QED
        BY <4>1, <2>2, <3>2, <3>4, <3>7
    <3>11. ClimbInv'
      BY <2>1, <2>2, <3>4, <3>5, <3>9, <3>10 DEF ClimbInv
    <3>12. OthersInv'
      BY <2>2, <3>3, OthersKept
    <3> QED
      BY <2>3, <3>11, <3>12
  <2> QED
    BY <1>1, <1>11, <2>4, <2>5 DEF Return, Top, rest
<1> QED
  BY <1>7, <1>8, <1>9, <1>10, <1>11 DEF Step

LEMMA CallLinks ==
  ASSUME LinkInv, "type_race" \notin Freedoms,
         NEW t \in Threads, NEW c \in Types, Call(t, c)
  PROVE  OthersInv' /\ ClimbInv' /\ SuperLinked'
<1> DEFINE r == <<Frame(c)>>
<1>1. /\ Len(r) = 1 /\ r[1].type = c /\ r[1].step = "check"
  BY DEF Frame
<1>2. stack' = [stack EXCEPT ![t] = r] /\ UNCHANGED classVars
  BY DEF Call
<1> HIDE DEF r
<1>3. stack'[t] = r /\ \A u \in Threads : u # t => stack'[u] = stack[u]
  BY <1>2 DEF LinkInv, PointerInv, TypeOK
<1>4. SuperLinked'
  BY <1>2 DEF LinkInv, SuperLinked, classVars
<1>5. CASE t = Main
  <2>1. ClimbInv'
    BY <1>1, <1>3, <1>5 DEF ClimbInv
  <2>2. OthersInv'
    BY <1>2, <1>5, OthersKept DEF classVars
  <2> QED
    BY <1>4, <2>1, <2>2
<1>6. CASE t # Main
  <2>1. c \in Preloaded /\ \A p \in Preloaded : type_location[p] # NULL
    BY <1>6 DEF Call
  <2>2. OthersInv'
    BY <1>1, <1>2, <1>3, <2>1 DEF LinkInv, OthersInv, classVars
  <2>3. ClimbInv'
    BY <1>2, <1>3, <1>6, TypesAssumption DEF LinkInv, ClimbInv, classVars
  <2> QED
    BY <1>4, <2>2, <2>3
<1> QED
  BY <1>5, <1>6

LEMMA NextLinks ==
  ASSUME "type_race" \notin Freedoms
  PROVE  LinkInv /\ [Next]_vars => LinkInv'
<1> SUFFICES ASSUME LinkInv, [Next]_vars
             PROVE  OthersInv' /\ ClimbInv' /\ SuperLinked'
  BY NextPointers DEF LinkInv
<1>1. ASSUME NEW t \in Threads, Step(t)
      PROVE  OthersInv' /\ ClimbInv' /\ SuperLinked'
  BY <1>1, MainLinks, OtherLinks
<1>2. ASSUME NEW t \in Threads, NEW c \in Types, Call(t, c)
      PROVE  OthersInv' /\ ClimbInv' /\ SuperLinked'
  BY <1>2, CallLinks
<1>3. CASE DestroyRuntime
  <2>1. \A t \in Threads : stack'[t] = <<>> /\ Len(stack'[t]) = 0
    BY <1>3 DEF DestroyRuntime, Idle
  <2>2. \A c \in Types : type_location'[c] = NULL
    BY <1>3 DEF DestroyRuntime, LinkInv, PointerInv
  <2>3. ClimbInv'
    BY <2>1, TypesAssumption DEF ClimbInv
  <2> QED
    BY <2>1, <2>2, <2>3 DEF OthersInv, SuperLinked
<1>4. CASE UNCHANGED vars
  BY <1>4 DEF vars, classVars, LinkInv, OthersInv, ClimbInv, SuperLinked
<1> QED
  BY <1>1, <1>2, <1>3, <1>4 DEF Next, Rest

(* Each class that can be found hangs below the struct that can be found   *)
(* for its superclass, if only Main makes classes.                         *)
THEOREM ClassesAreLinked ==
  ASSUME "type_race" \notin Freedoms
  PROVE  Spec => []SuperLinked
<1>1. LinkInv => SuperLinked
  BY DEF LinkInv
<1> QED
  BY <1>1, InitLinks, NextLinks, PTL DEF Spec

(* A call that returns has a class to return.                              *)
LEMMA ReturnFinds ==
  ASSUME LinkInv, NEW t \in Threads, Return(t)
  PROVE  type_location[Top(t).type] # NULL
<1> DEFINE s == stack[t]
<1>1. /\ s \in Seq(Frames) /\ s # <<>> /\ Top(t) = s[1] /\ Len(s) >= 1
      /\ s[1].step = "return" /\ Len(s) \in Nat
  <2>1. s # <<>> /\ Head(s).step = "return" /\ s \in Seq(Frames)
    BY DEF Return, At, Idle, LinkInv, PointerInv, TypeOK
  <2> HIDE DEF s
  <2>2. Head(s) = s[1] /\ Len(s) >= 1 /\ Len(s) \in Nat
    BY <2>1
  <2> QED
    BY <2>1, <2>2 DEF Top, s
<1>2. CASE t = Main
  <2>1. 1 \in 1..Len(s)
    BY <1>1
  <2> QED
    BY <1>1, <1>2, <2>1 DEF LinkInv, ClimbInv
<1>3. CASE t # Main
  BY <1>1, <1>3 DEF LinkInv, OthersInv
<1> QED
  BY <1>2, <1>3

(* Under the same rule every call returns a class, also the inner calls    *)
(* that fetch a superclass.                                                *)
THEOREM CallsReturnTypes ==
  ASSUME "type_race" \notin Freedoms
  PROVE  Spec => ReturnsType
<1> DEFINE A == \A t \in Threads : Return(t) => type_location[Top(t).type] # NULL
<1>1. LinkInv => A
  BY ReturnFinds
<1>2. LinkInv /\ [Next]_vars => [A]_vars
  BY <1>1
<1>3. Spec => [][A]_vars
  BY <1>2, InitLinks, NextLinks, PTL DEF Spec
<1> QED
  BY <1>3 DEF ReturnsType

=============================================================================

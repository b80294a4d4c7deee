------------------------- MODULE Interfaces_proofs -------------------------
(***************************************************************************)
(* Theorems about Interfaces, for every hierarchy of classes, all names    *)
(* and any number of threads.  That ids are unique and that the lock is    *)
(* given back needs no rule for the clients; that lookups are right needs  *)
(* that one thread makes the classes and static ids are used with one      *)
(* runtime.                                                                *)
(***************************************************************************)
EXTENDS Interfaces, TypeRegistry_proofs, WellFoundedInduction, FiniteSetTheorems

-----------------------------------------------------------------------------
(* Induction over numbers, from the least one for which something fails.   *)

(* A set of natural numbers that is not empty has a least element.         *)
LEMMA Least ==
  ASSUME NEW S, S \subseteq Nat, S # {}
  PROVE  \E n \in S : \A m \in S : n <= m
<1> DEFINE R == {ss \in Nat \X Nat : ss[1] < ss[2]}
<1>1. IsWellFoundedOn(R, Nat)
  BY NatLessThanWellFounded DEF OpToRel
<1>2. ASSUME NEW m \in Nat, NEW n \in Nat, m < n
      PROVE  <<m, n>> \in R
  BY <1>2
<1> HIDE DEF R
<1>3. PICK n \in S : \A m \in S : ~(<<m, n>> \in R)
  BY <1>1, WFMin
<1>4. ASSUME NEW m \in S
      PROVE  n <= m
  <2>1. m \in Nat /\ n \in Nat /\ ~(m < n)
    BY <1>2, <1>3
  <2> QED
    BY <2>1
<1> QED
  BY <1>4

(* A set of natural numbers with a bound has a largest element.            *)
LEMMA MaxIs ==
  ASSUME NEW k \in Nat, NEW S, S \subseteq 0..k, S # {}
  PROVE  Max(S) \in S /\ \A i \in S : i <= Max(S)
<1> DEFINE T == {j \in 0..k : k - j \in S}
<1>0. \A i \in S : i \in 0..k
  OBVIOUS
<1>1. T \subseteq Nat /\ T # {}
  <2>1. PICK i \in S : TRUE
    OBVIOUS
  <2>2. i \in 0..k
    BY <1>0
  <2>3. k - i \in 0..k /\ k - (k - i) = i
    BY <2>2
  <2>4. k - i \in T
    BY <2>1, <2>3
  <2>5. T \subseteq Nat
    OBVIOUS
  <2> HIDE DEF T
  <2> QED
    BY <2>4, <2>5
<1>2. PICK j \in T : \A m \in T : j <= m
  <2> HIDE DEF T
  <2> QED
    BY <1>1, Least
<1>3. PICK x \in S : x = k - j /\ j = k - x /\ x \in 0..k
  <2>1. j \in 0..k /\ k - j \in S
    BY <1>2
  <2> QED
    BY <2>1
<1>4. \A i \in S : x >= i
  <2> TAKE i \in S
  <2>1. i \in 0..k /\ k - i \in 0..k /\ k - (k - i) = i
    BY <1>0
  <2>2. k - i \in T
    BY <2>1
  <2>3. j <= k - i
    BY <1>2, <2>2
  <2> HIDE DEF T
  <2> QED
    BY <1>3, <2>1, <2>3
<1>5. Max(S) \in S /\ \A i \in S : Max(S) >= i
  BY <1>4 DEF Max
<1> QED
  BY <1>5

-----------------------------------------------------------------------------
(* y_Runtime_pack_interfaces gives an id to one name after the other. *)

Given(h, n) == y_Runtime_get_interface_id_nolock(h, n)

(* The definition of FoldLeft, whose recursion takes the last name away.   *)
Folds(f, h, s, k) ==
  f = [S \in SUBSET (1..k) |->
         IF S = {} THEN h ELSE Given(f[S \ {Max(S)}], s[Max(S)])]

LEMMA FoldIs ==
  ASSUME NEW h, NEW s, NEW n, DOMAIN s = 1..n
  PROVE  FoldLeft(y_Runtime_get_interface_id_nolock, h, s)
         = (CHOOSE f : Folds(f, h, s, n))[1..n]
BY DEF FoldLeft, MapThenFoldSet, Given, Folds

LEMMA FoldExists ==
  ASSUME NEW h, NEW s, NEW n \in Nat
  PROVE  \E f : Folds(f, h, s, n)
<1> DEFINE Bad == {k \in 0..n : ~\E f : Folds(f, h, s, k)}
<1>1. SUFFICES ASSUME Bad # {}
               PROVE  FALSE
  OBVIOUS
<1>2. PICK k \in Bad : \A m \in Bad : k <= m
  <2>1. Bad \subseteq Nat
    OBVIOUS
  <2> HIDE DEF Bad
  <2> QED
    BY <1>1, <2>1, Least
<1>3. k \in 0..n /\ ~\E f : Folds(f, h, s, k)
  BY <1>2
<1>4. k # 0
  <2> SUFFICES ASSUME k = 0
               PROVE  FALSE
    OBVIOUS
  <2> DEFINE f == [S \in SUBSET (1..0) |-> h]
  <2>1. \A S \in SUBSET (1..0) : S = {}
    OBVIOUS
  <2>2. Folds(f, h, s, 0)
    BY <2>1 DEF Folds
  <2> QED
    BY <1>3, <2>2
<1>5. k - 1 \in 0..n /\ ~(k <= k - 1) /\ k - 1 \in Nat /\ k \in Nat
  BY <1>3, <1>4
<1>6. PICK f : Folds(f, h, s, k - 1)
  BY <1>2, <1>5
<1>7. ASSUME NEW S \in SUBSET (1..k - 1)
      PROVE  f[S] = IF S = {} THEN h ELSE Given(f[S \ {Max(S)}], s[Max(S)])
  BY <1>6 DEF Folds
<1> DEFINE g == [S \in SUBSET (1..k) |->
                   IF k \in S THEN Given(f[S \ {k}], s[k]) ELSE f[S]]
<1>8. ASSUME NEW S \in SUBSET (1..k)
      PROVE  g[S] = IF S = {} THEN h ELSE Given(g[S \ {Max(S)}], s[Max(S)])
  <2>1. S # {} => Max(S) \in S /\ \A i \in S : i <= Max(S)
    <3>1. k \in Nat /\ S \subseteq 0..k
      BY <1>5
    <3> QED
      BY <3>1, MaxIs
  <2>2. CASE k \in S
    <3>1. Max(S) = k
      <4>1. Max(S) \in S /\ k <= Max(S)
        BY <2>1, <2>2
      <4>2. Max(S) \in 1..k
        BY <4>1
      <4> QED
        BY <1>5, <4>1, <4>2
    <3>2. S \ {k} \in SUBSET (1..k) /\ k \notin S \ {k}
      OBVIOUS
    <3>3. g[S \ {k}] = f[S \ {k}]
      BY <3>2
    <3>4. g[S] = Given(f[S \ {k}], s[k])
      BY <2>2
    <3> HIDE DEF g
    <3> QED
      BY <2>2, <3>1, <3>3, <3>4
  <2>3. CASE k \notin S
    <3>1. S \in SUBSET (1..k - 1)
      BY <1>5, <2>3
    <3>2. g[S] = f[S]
      BY <2>3
    <3>3. S \ {Max(S)} \in SUBSET (1..k) /\ k \notin S \ {Max(S)}
      BY <2>3
    <3>4. g[S \ {Max(S)}] = f[S \ {Max(S)}]
      BY <3>3
    <3> HIDE DEF g
    <3> QED
      BY <1>7, <3>1, <3>2, <3>4
  <2> QED
    BY <2>2, <2>3
<1>9. Folds(g, h, s, k)
  <2> DEFINE e(S) == IF S = {} THEN h ELSE Given(g[S \ {Max(S)}], s[Max(S)])
  <2>1. g = [S \in SUBSET (1..k) |-> g[S]]
    OBVIOUS
  <2> HIDE DEF g
  <2>2. g = [S \in SUBSET (1..k) |-> e(S)]
    BY <1>8, <2>1
  <2> QED
    BY <2>2 DEF Folds
<1> QED
  BY <1>3, <1>9

(* The hash after the first k names: one more name for each of them.       *)
LEMMA FoldSteps ==
  ASSUME NEW h, NEW s, NEW n \in Nat, DOMAIN s = 1..n
  PROVE  \E g : /\ g[0] = h
                /\ \A k \in 1..n : g[k] = Given(g[k - 1], s[k])
                /\ FoldLeft(y_Runtime_get_interface_id_nolock, h, s) = g[n]
<1> DEFINE f == CHOOSE f : Folds(f, h, s, n)
           g == [k \in 0..n |-> f[1..k]]
<1>1. Folds(f, h, s, n)
  BY FoldExists
<1>2. FoldLeft(y_Runtime_get_interface_id_nolock, h, s) = f[1..n]
  BY FoldIs
<1> HIDE DEF f
<1>3. ASSUME NEW S \in SUBSET (1..n)
      PROVE  f[S] = IF S = {} THEN h ELSE Given(f[S \ {Max(S)}], s[Max(S)])
  BY <1>1 DEF Folds
<1>4. g[0] = h
  <2>1. 1..0 = {} /\ {} \in SUBSET (1..n) /\ 0 \in 0..n
    OBVIOUS
  <2> QED
    BY <1>3, <2>1
<1>5. ASSUME NEW k \in 1..n
      PROVE  g[k] = Given(g[k - 1], s[k])
  <2>1. 1..k \in SUBSET (1..n) /\ 1..k # {} /\ k \in 0..n /\ k - 1 \in 0..n
    <3>1. 1 \in 1..k /\ \A i \in 1..k : i \in 1..n
      OBVIOUS
    <3>2. k \in 0..n /\ k - 1 \in 0..n
      OBVIOUS
    <3> QED
      BY <3>1, <3>2
  <2>2. Max(1..k) \in 1..k /\ \A i \in 1..k : i <= Max(1..k)
    <3>1. 1..k \subseteq 0..k /\ k \in Nat
      OBVIOUS
    <3> QED
      BY <2>1, <3>1, MaxIs
  <2>3. Max(1..k) = k
    <3>1. k \in 1..k
      OBVIOUS
    <3> QED
      BY <2>2, <3>1
  <2>4. (1..k) \ {k} = 1..k - 1
    OBVIOUS
  <2> QED
    BY <1>3, <2>1, <2>3, <2>4
<1>6. g[n] = f[1..n]
  OBVIOUS
<1> HIDE DEF g
<1> QED
  BY <1>2, <1>4, <1>5, <1>6

(* What is true of the hash and the counter of ids.                        *)
Named(h) == {n \in Names : h.ids[n] # 0}

HashOK(h) ==
  /\ h.size \in Nat
  /\ h.ids \in [Names -> 0..h.size]
  /\ IsFiniteSet(Named(h)) /\ h.size = Cardinality(Named(h))
  /\ \A m, n \in Names : h.ids[m] = h.ids[n] /\ m # n => h.ids[m] = 0

(* g is h with more ids: none is changed, and the new ones are larger.     *)
Grown(h, g) ==
  /\ h.size <= g.size
  /\ \A n \in Names : IF h.ids[n] # 0 THEN g.ids[n] = h.ids[n]
                      ELSE g.ids[n] = 0 \/ g.ids[n] > h.size

LEMMA GrownTwice ==
  ASSUME NEW h, NEW f, NEW g, HashOK(h), HashOK(f), HashOK(g),
         Grown(h, f), Grown(f, g)
  PROVE  Grown(h, g)
<1>1. h.size \in Nat /\ f.size \in Nat /\ g.size \in Nat
  BY DEF HashOK
<1>2. \A n \in Names : h.ids[n] \in Nat /\ f.ids[n] \in Nat /\ g.ids[n] \in Nat
  BY DEF HashOK
<1>3. h.size <= g.size
  BY <1>1 DEF Grown
<1>4. ASSUME NEW n \in Names
      PROVE  IF h.ids[n] # 0 THEN g.ids[n] = h.ids[n]
             ELSE g.ids[n] = 0 \/ g.ids[n] > h.size
  BY <1>1, <1>2 DEF Grown
<1> QED
  BY <1>3, <1>4 DEF Grown

(* y_Runtime_get_interface_id_nolock                                       *)
LEMMA GivenIds ==
  ASSUME NEW h, HashOK(h), NEW n \in Names, NEW g, g = Given(h, n)
  PROVE  HashOK(g) /\ Grown(h, g) /\ g.ids[n] # 0
<1>1. /\ h.size \in Nat /\ \A m \in Names : h.ids[m] \in 0..h.size
      /\ h.ids \in [Names -> 0..h.size]
  BY DEF HashOK
<1>2. CASE h.ids[n] # 0
  <2>1. g = h
    BY <1>2 DEF Given, y_Runtime_get_interface_id_nolock
  <2> QED
    BY <1>1, <1>2, <2>1 DEF Grown
<1>3. CASE h.ids[n] = 0
  <2>1. /\ g.ids = [h.ids EXCEPT ![n] = h.size + 1]
        /\ g.size = h.size + 1
    BY <1>3 DEF Given, y_Runtime_get_interface_id_nolock
  <2>2. g.ids[n] = h.size + 1 /\ \A m \in Names : m # n => g.ids[m] = h.ids[m]
    BY <1>1, <2>1
  <2>3. g.size \in Nat /\ g.ids \in [Names -> 0..g.size]
    <3>1. \A m \in Names : g.ids[m] \in 0..h.size + 1
      BY <1>1, <2>2
    <3> QED
      BY <1>1, <2>1, <3>1
  <2>4. Named(g) = Named(h) \cup {n} /\ n \notin Named(h)
    BY <1>1, <1>3, <2>2 DEF Named
  <2>5. /\ IsFiniteSet(Named(g))
        /\ Cardinality(Named(g)) = Cardinality(Named(h)) + 1
    BY <2>4, FS_AddElement DEF HashOK
  <2>6. \A m, l \in Names : g.ids[m] = g.ids[l] /\ m # l => g.ids[m] = 0
    BY <1>1, <2>2 DEF HashOK
  <2>7. HashOK(g)
    BY <2>1, <2>3, <2>5, <2>6 DEF HashOK
  <2>8. Grown(h, g)
    BY <1>1, <1>3, <2>1, <2>2 DEF Grown
  <2> QED
    BY <1>1, <2>2, <2>7, <2>8
<1> QED
  BY <1>2, <1>3

(* ... and all names of a class in turn.                                   *)
LEMMA FoldIds ==
  ASSUME NEW h, HashOK(h), NEW s \in Seq(Names),
         NEW g, g = FoldLeft(y_Runtime_get_interface_id_nolock, h, s)
  PROVE  HashOK(g) /\ Grown(h, g) /\ \A n \in ToSet(s) : g.ids[n] # 0
<1>1. PICK n \in Nat : n = Len(s) /\ DOMAIN s = 1..n
  OBVIOUS
<1>2. \A k \in 1..n : s[k] \in Names
  BY <1>1
<1>3. PICK f : /\ f[0] = h
               /\ \A k \in 1..n : f[k] = Given(f[k - 1], s[k])
               /\ g = f[n]
  BY <1>1, FoldSteps
<1> DEFINE Good(k) == /\ HashOK(f[k]) /\ Grown(h, f[k])
                      /\ \A i \in 1..k : f[k].ids[s[i]] # 0
           Bad == {k \in 0..n : ~Good(k)}
<1>4. Good(0)
  BY <1>3 DEF Grown, HashOK
<1>5. ASSUME NEW k \in 1..n, Good(k - 1)
      PROVE  Good(k)
  <2>1. f[k] = Given(f[k - 1], s[k]) /\ s[k] \in Names
    BY <1>2, <1>3
  <2>2. HashOK(f[k]) /\ Grown(f[k - 1], f[k]) /\ f[k].ids[s[k]] # 0
    BY <1>5, <2>1, GivenIds
  <2>3. Grown(h, f[k])
    BY <1>5, <2>2, GrownTwice
  <2>4. ASSUME NEW i \in 1..k
        PROVE  f[k].ids[s[i]] # 0
    <3>1. CASE i = k
      BY <2>2, <3>1
    <3>2. CASE i # k
      <4>1. i \in 1..k - 1 /\ s[i] \in Names
        BY <1>2, <3>2
      <4>2. f[k - 1].ids[s[i]] # 0
        BY <1>5, <4>1
      <4> QED
        BY <2>2, <4>1, <4>2 DEF Grown
    <3> QED
      BY <3>1, <3>2
  <2> QED
    BY <2>2, <2>3, <2>4
<1>6. Good(n)
  <2> SUFFICES ASSUME Bad # {}
               PROVE  FALSE
    BY <1>1
  <2>1. Bad \subseteq Nat
    OBVIOUS
  <2>2. PICK k \in Bad : \A m \in Bad : k <= m
    <3> HIDE DEF Bad
    <3> QED
      BY <2>1, Least
  <2>3. k \in 0..n /\ ~Good(k)
    BY <2>2
  <2> HIDE DEF Good
  <2>4. k \in 1..n /\ k - 1 \in 0..n /\ ~(k <= k - 1)
    BY <1>4, <2>3
  <2>5. Good(k - 1)
    BY <2>2, <2>4
  <2> QED
    BY <1>5, <2>3, <2>4, <2>5
<1>7. \A m \in ToSet(s) : \E i \in 1..n : m = s[i]
  BY <1>1 DEF ToSet
<1> QED
  BY <1>3, <1>6, <1>7

-----------------------------------------------------------------------------
(* What a class provides. *)

Stops(c) == Specs[c] # <<>> \/ Super[c] = NULL

(* The definition of provider, whose recursion climbs the hierarchy.       *)
Provides(f) == f = [c \in Types |-> IF Stops(c) THEN c ELSE f[Super[c]]]

LEMMA ProvidedChosen ==
  ASSUME NEW f, f = CHOOSE g : Provides(g)
  PROVE  Provided = [c \in Types |-> {<<f[c], n>> : n \in ToSet(Specs[f[c]])}]
BY DEF Provided, Provides, Stops

(* The classes on the way from c to the one that provides its interfaces.  *)
Climbs(c, S) == c \in S /\ \A d \in S : ~Stops(d) => Super[d] \in S
Way(c) == {d \in Types : \A S \in SUBSET Types : Climbs(c, S) => d \in S}

LEMMA WayIs ==
  ASSUME NEW c \in Types
  PROVE  /\ c \in Way(c)
         /\ Stops(c) => Way(c) = {c}
         /\ ~Stops(c) => Super[c] \in Types /\ Way(c) = {c} \cup Way(Super[c])
<1>1. c \in Way(c)
  BY DEF Way, Climbs
<1>2. ASSUME Stops(c)
      PROVE  Way(c) = {c}
  <2>1. {c} \in SUBSET Types /\ Climbs(c, {c})
    BY <1>2 DEF Climbs
  <2>2. Way(c) \subseteq {c}
    BY <2>1 DEF Way
  <2> QED
    BY <1>1, <2>2
<1>3. ASSUME ~Stops(c)
      PROVE  Super[c] \in Types /\ Way(c) = {c} \cup Way(Super[c])
  <2>1. Super[c] \in Types
    BY <1>3, TypesAssumption DEF Stops
  <2>2. ASSUME NEW d \in Way(Super[c])
        PROVE  d \in Way(c)
    <3> SUFFICES ASSUME NEW S \in SUBSET Types, Climbs(c, S)
                 PROVE  d \in S
      BY DEF Way
    <3>1. Climbs(Super[c], S)
      BY <1>3 DEF Climbs
    <3> QED
      BY <3>1 DEF Way
  <2>3. ASSUME NEW d \in Way(c), d # c
        PROVE  d \in Way(Super[c])
    <3> SUFFICES ASSUME NEW S \in SUBSET Types, Climbs(Super[c], S)
                 PROVE  d \in S
      BY DEF Way
    <3>1. S \cup {c} \in SUBSET Types /\ Climbs(c, S \cup {c})
      BY DEF Climbs
    <3>2. d \in S \cup {c}
      BY <3>1 DEF Way
    <3> QED
      BY <2>3, <3>2
  <2> QED
    BY <1>1, <2>1, <2>2, <2>3
<1> QED
  BY <1>1, <1>2, <1>3

LEMMA ProviderExists == \E f : Provides(f)
<1> DEFINE Ends(c) == {d \in Way(c) : Stops(d)}
           f == [c \in Types |-> CHOOSE d : d \in Ends(c)]
<1>1. ASSUME NEW c \in Types
      PROVE  f[c] = IF Stops(c) THEN c ELSE f[Super[c]]
  <2>1. CASE Stops(c)
    <3>1. Ends(c) = {c}
      BY <2>1, WayIs
    <3>2. f[c] = CHOOSE d : d \in {c}
      BY <3>1
    <3> QED
      BY <2>1, <3>2
  <2>2. CASE ~Stops(c)
    <3>1. Super[c] \in Types /\ Ends(c) = Ends(Super[c])
      BY <2>2, WayIs
    <3> QED
      BY <2>2, <3>1
  <2> QED
    BY <2>1, <2>2
<1>2. f = [c \in Types |-> f[c]]
  OBVIOUS
<1> HIDE DEF f
<1>3. f = [c \in Types |-> IF Stops(c) THEN c ELSE f[Super[c]]]
  BY <1>1, <1>2
<1> QED
  BY <1>3 DEF Provides

LEMMA ProvidedIs ==
  ASSUME NEW c \in Types
  PROVE  Provided[c] = IF Specs[c] # <<>>
                       THEN {<<c, n>> : n \in ToSet(Specs[c])}
                       ELSE IF Super[c] # NULL THEN Provided[Super[c]] ELSE {}
<1> DEFINE f == CHOOSE g : Provides(g)
<1>1. Provides(f)
  BY ProviderExists
<1>2. Provided = [d \in Types |-> {<<f[d], n>> : n \in ToSet(Specs[f[d]])}]
  BY ProvidedChosen
<1> HIDE DEF f
<1>3. f[c] = IF Stops(c) THEN c ELSE f[Super[c]]
  BY <1>1 DEF Provides
<1>4. CASE Specs[c] # <<>>
  BY <1>2, <1>3, <1>4 DEF Stops
<1>5. CASE Specs[c] = <<>> /\ Super[c] # NULL
  <2>1. Super[c] \in Types
    BY <1>5, TypesAssumption
  <2> QED
    BY <1>2, <1>3, <1>5, <2>1 DEF Stops
<1>6. CASE Specs[c] = <<>> /\ Super[c] = NULL
  <2>1. f[c] = c
    BY <1>3, <1>6 DEF Stops
  <2>2. ToSet(Specs[c]) = {}
    BY <1>6 DEF ToSet
  <2> QED
    BY <1>2, <1>6, <2>1, <2>2
<1> QED
  BY <1>4, <1>5, <1>6

-----------------------------------------------------------------------------
(* Tables. *)

(* The vtables for name n among those that class c provides.               *)
For(c, n) == {v \in Provided[c] : v[2] = n}

(* The table is right for class c, with the ids of h.                      *)
Fits(table, h, c) ==
  /\ table \in Seq(Vtables \cup {NULL})
  /\ Len(table) <= h.size
  /\ \A n \in Names :
       IF For(c, n) = {}
       THEN h.ids[n] \in 1..Len(table) => table[h.ids[n]] = NULL
       ELSE h.ids[n] \in 1..Len(table) /\ table[h.ids[n]] \in For(c, n)

(* New ids are beyond the end of the tables that are there.                *)
LEMMA FitsGrown ==
  ASSUME NEW h, NEW g, HashOK(h), HashOK(g), Grown(h, g),
         NEW table, NEW c, Fits(table, h, c)
  PROVE  Fits(table, g, c)
<1>1. /\ h.size \in Nat /\ g.size \in Nat /\ h.size <= g.size
      /\ table \in Seq(Vtables \cup {NULL})
      /\ Len(table) <= h.size
  BY DEF HashOK, Grown, Fits
<1>2. Len(table) \in Nat
  BY <1>1
<1>3. ASSUME NEW n \in Names
      PROVE  IF For(c, n) = {}
             THEN g.ids[n] \in 1..Len(table) => table[g.ids[n]] = NULL
             ELSE g.ids[n] \in 1..Len(table) /\ table[g.ids[n]] \in For(c, n)
  <2>1. h.ids[n] \in Nat /\ g.ids[n] \in Nat
    BY DEF HashOK
  <2>2. IF h.ids[n] # 0 THEN g.ids[n] = h.ids[n]
        ELSE g.ids[n] = 0 \/ g.ids[n] > h.size
    BY DEF Grown
  <2>3. IF For(c, n) = {}
        THEN h.ids[n] \in 1..Len(table) => table[h.ids[n]] = NULL
        ELSE h.ids[n] \in 1..Len(table) /\ table[h.ids[n]] \in For(c, n)
    BY DEF Fits
  <2>4. CASE h.ids[n] # 0
    BY <2>2, <2>3, <2>4
  <2>5. CASE h.ids[n] = 0
    <3>1. h.ids[n] \notin 1..Len(table) /\ g.ids[n] \notin 1..Len(table)
      BY <1>1, <1>2, <2>1, <2>2, <2>5
    <3> QED
      BY <2>3, <3>1
  <2> QED
    BY <2>4, <2>5
<1> QED
  BY <1>1, <1>2, <1>3 DEF Fits

(* y_Runtime_pack_interfaces, when all names of the class have ids.        *)
LEMMA PackFits ==
  ASSUME NEW h, HashOK(h), NEW c \in Types, Specs[c] # <<>>,
         \A n \in ToSet(Specs[c]) : h.ids[n] # 0
  PROVE  Fits(y_Runtime_pack_interfaces(h, c), h, c)
<1> DEFINE N == ToSet(Specs[c])
           I == {h.ids[n] : n \in N}
           max == CHOOSE i \in I : \A n \in N : h.ids[n] <= i
           table == [i \in 1..max |->
                       IF \E n \in N : h.ids[n] = i
                       THEN <<c, CHOOSE n \in N : h.ids[n] = i>> ELSE NULL]
<1>1. y_Runtime_pack_interfaces(h, c) = table
  BY DEF y_Runtime_pack_interfaces
<1>2. N \subseteq Names /\ N # {}
  <2>1. Specs[c] \in Seq(Names)
    BY InterfacesAssumption
  <2>2. DOMAIN Specs[c] = 1..Len(Specs[c]) /\ Len(Specs[c]) \in Nat
        /\ Len(Specs[c]) # 0 /\ \A i \in 1..Len(Specs[c]) : Specs[c][i] \in Names
    BY <2>1
  <2>3. 1 \in DOMAIN Specs[c]
    BY <2>2
  <2> QED
    BY <2>2, <2>3 DEF ToSet
<1>3. /\ h.size \in Nat
      /\ \A n \in Names : h.ids[n] \in 0..h.size
      /\ \A m, n \in Names : h.ids[m] = h.ids[n] /\ m # n => h.ids[m] = 0
  BY DEF HashOK
<1>4. \A n \in N : h.ids[n] # 0 /\ h.ids[n] \in 1..h.size
  BY <1>2, <1>3
<1> HIDE DEF N
<1>5. max \in 1..h.size /\ \A n \in N : h.ids[n] <= max
  <2>1. I \subseteq 0..h.size /\ I # {}
    BY <1>2, <1>4
  <2>2. Max(I) \in I /\ \A i \in I : i <= Max(I)
    <3> HIDE DEF I
    <3> QED
      BY <1>3, <2>1, MaxIs
  <2>3. \A n \in N : h.ids[n] <= Max(I)
    BY <2>2
  <2>4. max \in I /\ \A n \in N : h.ids[n] <= max
    BY <2>2, <2>3
  <2> QED
    BY <1>4, <2>4
<1> HIDE DEF max, I
<1>6. table \in [1..max -> Vtables \cup {NULL}]
  <2>1. ASSUME NEW i \in 1..max, \E n \in N : h.ids[n] = i
        PROVE  <<c, CHOOSE n \in N : h.ids[n] = i>> \in Vtables
    <3>1. PICK m \in Names : m = CHOOSE n \in N : h.ids[n] = i
      BY <1>2, <2>1
    <3>2. <<c, m>> \in Vtables
      BY DEF Vtables
    <3> QED
      BY <3>1, <3>2
  <2> QED
    BY <2>1
<1>7. table \in Seq(Vtables \cup {NULL}) /\ Len(table) = max
  <2> HIDE DEF table
  <2> QED
    BY <1>5, <1>6
<1>8. \A n \in Names : For(c, n) = IF n \in N THEN {<<c, n>>} ELSE {}
  <2>1. Provided[c] = {<<c, n>> : n \in N}
    BY ProvidedIs DEF N
  <2> QED
    BY <2>1 DEF For
<1>9. ASSUME NEW n \in Names
      PROVE  IF For(c, n) = {}
             THEN h.ids[n] \in 1..Len(table) => table[h.ids[n]] = NULL
             ELSE h.ids[n] \in 1..Len(table) /\ table[h.ids[n]] \in For(c, n)
  <2>1. \A m \in N : h.ids[m] = h.ids[n] => m = n
    BY <1>2, <1>3, <1>4
  <2>2. CASE n \in N
    <3>1. h.ids[n] \in 1..max
      BY <1>4, <1>5, <2>2
    <3>2. table[h.ids[n]] = <<c, CHOOSE m \in N : h.ids[m] = h.ids[n]>>
      BY <2>2, <3>1
    <3>3. (CHOOSE m \in N : h.ids[m] = h.ids[n]) = n
      BY <2>1, <2>2
    <3> HIDE DEF table
    <3> QED
      BY <1>7, <1>8, <2>2, <3>1, <3>2, <3>3
  <2>3. CASE n \notin N
    <3>1. h.ids[n] \in 1..max => table[h.ids[n]] = NULL
      BY <2>1, <2>3
    <3> HIDE DEF table
    <3> QED
      BY <1>7, <1>8, <2>3, <3>1
  <2> QED
    BY <2>2, <2>3
<1>10. Len(table) <= h.size
  BY <1>5, <1>7
<1> HIDE DEF table
<1> QED
  BY <1>1, <1>7, <1>9, <1>10 DEF Fits

(* A class without interfaces has those of its superclass.                 *)
LEMMA InheritFits ==
  ASSUME NEW h, HashOK(h), NEW c \in Types, Specs[c] = <<>>
  PROVE  /\ Super[c] = NULL => Fits(<<>>, h, c)
         /\ Super[c] # NULL => \A table : Fits(table, h, Super[c]) => Fits(table, h, c)
<1>1. Provided[c] = IF Super[c] # NULL THEN Provided[Super[c]] ELSE {}
  BY ProvidedIs
<1>2. ASSUME Super[c] = NULL
      PROVE  Fits(<<>>, h, c)
  <2>1. <<>> \in Seq(Vtables \cup {NULL}) /\ Len(<<>>) = 0
    OBVIOUS
  <2>2. \A n \in Names : For(c, n) = {}
    BY <1>1, <1>2 DEF For
  <2>3. 0 <= h.size /\ \A i : i \notin 1..0
    BY DEF HashOK
  <2> QED
    BY <2>1, <2>2, <2>3 DEF Fits
<1>3. ASSUME Super[c] # NULL, NEW table, Fits(table, h, Super[c])
      PROVE  Fits(table, h, c)
  <2>1. \A n : For(c, n) = For(Super[c], n)
    BY <1>1, <1>3 DEF For
  <2> QED
    BY <1>3, <2>1 DEF Fits
<1> QED
  BY <1>2, <1>3

-----------------------------------------------------------------------------
(* The frames of classes without a superclass have none. *)

Rooted(s) ==
  \A i \in 1..Len(s) : Super[s[i].type] = NULL => s[i].super = NULL

RootInv == \A t \in Threads : Rooted(stack[t])

LEMMA RootKept ==
  ASSUME LinkInv, RootInv, NEW t \in Threads, NEW r,
         stack' = [stack EXCEPT ![t] = r], Rooted(r)
  PROVE  RootInv'
<1>1. \A u \in Threads : stack'[u] = IF u = t THEN r ELSE stack[u]
  BY DEF LinkInv, PointerInv, TypeOK
<1> QED
  BY <1>1 DEF RootInv, Rooted

LEMMA CallRoot ==
  ASSUME LinkInv, RootInv, NEW t \in Threads, NEW c \in Types, Call(t, c)
  PROVE  RootInv'
<1> DEFINE r == <<Frame(c)>>
<1>1. Rooted(r)
  <2>1. Len(r) = 1 /\ r[1].super = NULL
    BY DEF Frame
  <2> HIDE DEF r
  <2> QED
    BY <2>1 DEF Rooted
<1>2. stack' = [stack EXCEPT ![t] = r]
  BY DEF Call
<1> HIDE DEF r
<1> QED
  BY <1>1, <1>2, RootKept

LEMMA StepRoot ==
  ASSUME LinkInv, RootInv, NEW t \in Threads, Step(t)
  PROVE  RootInv'
<1> DEFINE s == stack[t]
           f == Head(s)
<1>1. s \in Seq(Frames) /\ s # <<>> /\ f \in Frames /\ f = s[1]
  <2>1. s # <<>>
    BY DEF Step, Check, y_Runtime_init_type, Unlock, Store, Return, At, Idle
  <2>2. s \in Seq(Frames)
    BY DEF LinkInv, PointerInv, TypeOK
  <2> HIDE DEF s
  <2> QED
    BY <2>1, <2>2, Popped
<1>2. Rooted(s)
  BY DEF RootInv
<1>3. Len(s) \in Nat /\ Len(s) >= 1 /\ Top(t) = f
  <2> HIDE DEF s
  <2>1. Len(s) \in Nat /\ Len(s) >= 1
    BY <1>1
  <2> QED
    BY <2>1 DEF Top, s
<1>4. ASSUME NEW h \in Frames, h.type = f.type, h.super = f.super,
             Continue(t, h)
      PROVE  RootInv'
  <2> DEFINE r == <<h>> \o Tail(s)
  <2>1. /\ Len(r) = Len(s) /\ r[1] = h
        /\ \A i \in 2..Len(s) : r[i] = s[i]
    BY <1>1, Replaced
  <2>2. stack' = [stack EXCEPT ![t] = r]
    BY <1>4 DEF Continue
  <2> HIDE DEF r, s, f
  <2>3. Rooted(r)
    BY <1>1, <1>2, <1>3, <1>4, <2>1 DEF Rooted
  <2> QED
    BY <2>2, <2>3, RootKept
<1>5. CASE Check(t)
  <2> DEFINE g(step) == [f EXCEPT !.step = step]
  <2>1. \A step \in Steps : /\ g(step) \in Frames /\ g(step).type = f.type
                           /\ g(step).super = f.super
    BY <1>1 DEF Frames
  <2>2. ASSUME Super[f.type] # NULL,
               stack' = [stack EXCEPT ![t] =
                           <<Frame(Super[f.type]), g("init")>> \o Tail(@)]
        PROVE  RootInv'
    <3> DEFINE n == Frame(Super[f.type])
               h == g("init")
               r == <<n, h>> \o Tail(s)
    <3>1. n \in Frames /\ n.super = NULL
      <4>1. f.type \in Types
        BY <1>1 DEF Frames
      <4> QED
        BY <2>2, <4>1, FrameType, TypesAssumption DEF Frame
    <3>2. h \in Frames /\ h.type = f.type /\ h.super = f.super
      BY <2>1 DEF Steps
    <3>3. stack' = [stack EXCEPT ![t] = r]
      BY <2>2
    <3> HIDE DEF n, h, s, f
    <3>4. /\ Len(r) = Len(s) + 1 /\ r[1] = n /\ r[2] = h
          /\ \A i \in 3..Len(s) + 1 : r[i] = s[i - 1]
      BY <1>1, <3>1, <3>2, Pushed
    <3> HIDE DEF r
    <3>5. Rooted(r)
      <4> SUFFICES ASSUME NEW i \in 1..Len(r), Super[r[i].type] = NULL
                   PROVE  r[i].super = NULL
        BY DEF Rooted
      <4>1. CASE i = 1
        BY <4>1, <3>1, <3>4
      <4>2. CASE i = 2
        BY <4>2, <1>1, <1>2, <1>3, <3>2, <3>4 DEF Rooted
      <4>3. CASE i \in 3..Len(s) + 1
        <5>1. i - 1 \in 1..Len(s) /\ r[i] = s[i - 1]
          BY <4>3, <3>4, <1>3
        <5> QED
          BY <5>1, <1>2 DEF Rooted
      <4> QED
        BY <4>1, <4>2, <4>3, <3>4, <1>3
    <3> QED
      BY <3>3, <3>5, RootKept
  <2>3. "init" \in Steps /\ "return" \in Steps
    BY DEF Steps
  <2>4. CASE Continue(t, g("return")) \/ Continue(t, g("init"))
    BY <1>4, <2>1, <2>3, <2>4
  <2> QED
    BY <1>3, <1>5, <2>2, <2>4 DEF Check
<1>6. CASE y_Runtime_init_type(t)
  <2>1. CASE Continue(t, [f EXCEPT !.step = "unlock"])
    <3> DEFINE h == [f EXCEPT !.step = "unlock"]
    <3>1. h \in Frames /\ h.type = f.type /\ h.super = f.super
      BY <1>1 DEF Frames, Steps
    <3> HIDE DEF h
    <3> QED
      BY <1>4, <2>1, <3>1 DEF h
  <2>2. ASSUME NEW x \in Structs, Continue(t, [f EXCEPT !.step = "unlock", !.made = x])
        PROVE  RootInv'
    <3> DEFINE h == [f EXCEPT !.step = "unlock", !.made = x]
    <3>1. h \in Frames /\ h.type = f.type /\ h.super = f.super
      BY <1>1 DEF Frames, Steps
    <3> HIDE DEF h
    <3> QED
      BY <1>4, <2>2, <3>1 DEF h
  <2> QED
    BY <1>3, <1>6, <2>1, <2>2 DEF y_Runtime_init_type
<1>7. CASE Unlock(t)
  <2> DEFINE h == [f EXCEPT !.step = "store"]
  <2>1. h \in Frames /\ h.type = f.type /\ h.super = f.super
    BY <1>1 DEF Frames, Steps
  <2>2. Continue(t, h)
    BY <1>3, <1>7 DEF Unlock
  <2> HIDE DEF h
  <2> QED
    BY <1>4, <2>1, <2>2
<1>8. CASE Store(t)
  <2> DEFINE h == [f EXCEPT !.step = "return"]
  <2>1. h \in Frames /\ h.type = f.type /\ h.super = f.super
    BY <1>1 DEF Frames, Steps
  <2>2. Continue(t, h)
    BY <1>3, <1>8 DEF Store
  <2> HIDE DEF h
  <2> QED
    BY <1>4, <2>1, <2>2
<1>9. CASE Return(t)
  <2> DEFINE rest == Tail(s)
             v == type_location[f.type]
  <2>1. /\ rest \in Seq(Frames) /\ Len(rest) = Len(s) - 1
        /\ \A i \in 1..Len(s) - 1 : rest[i] = s[i + 1]
    BY <1>1, Popped
  <2> HIDE DEF rest
  <2>2. CASE rest = <<>> /\ stack' = [stack EXCEPT ![t] = <<>>]
    <3>1. Rooted(<<>>)
      BY DEF Rooted
    <3> QED
      BY <2>2, <3>1, RootKept
  <2>3. CASE /\ rest # <<>>
             /\ stack' = [stack EXCEPT ![t] =
                            <<[Head(rest) EXCEPT !.super = v]>> \o Tail(rest)]
    <3> DEFINE h == [Head(rest) EXCEPT !.super = v]
               r == <<h>> \o Tail(rest)
    <3>1. Len(rest) >= 1 /\ Head(rest) = rest[1] /\ rest[1] \in Frames
      BY <2>1, <2>3
    <3>2. h \in Frames /\ h.type = rest[1].type
      <4>1. v \in Structs \cup {NULL}
        <5>1. f.type \in Types
          BY <1>1 DEF Frames
        <5> QED
          BY <5>1 DEF LinkInv, PointerInv, TypeOK
      <4> HIDE DEF v
      <4> QED
        BY <3>1, <4>1 DEF Frames
    <3>3. stack' = [stack EXCEPT ![t] = r]
      BY <2>3
    <3> HIDE DEF h
    <3>4. /\ Len(r) = Len(rest) /\ r[1] = h
          /\ \A i \in 2..Len(rest) : r[i] = rest[i]
      BY <2>1, <2>3, <3>2, Replaced
    <3> HIDE DEF r
    <3>5. 2 \in 2..Len(s) /\ rest[1] = s[2]
      BY <1>3, <2>1, <3>1
    <3>6. Super[s[2].type] # NULL
      <4>1. t = Main
        BY <1>1, <1>3, <3>5 DEF LinkInv, OthersInv
      <4>2. Super[s[2].type] = s[2 - 1].type
        BY <3>5, <4>1 DEF LinkInv, ClimbInv
      <4>3. s[1].type \in Types
        BY <1>1 DEF Frames
      <4> QED
        BY <4>2, <4>3, TypesAssumption
    <3>7. Rooted(r)
      <4> SUFFICES ASSUME NEW i \in 1..Len(r), Super[r[i].type] = NULL
                   PROVE  r[i].super = NULL
        BY DEF Rooted
      <4>1. i # 1
        BY <3>2, <3>4, <3>5, <3>6
      <4>2. i \in 2..Len(rest) /\ i + 1 \in 1..Len(s) /\ i \in 1..Len(s) - 1
        BY <1>3, <2>1, <3>4, <4>1
      <4>3. r[i] = s[i + 1]
        BY <2>1, <3>4, <4>2
      <4> QED
        BY <1>2, <4>2, <4>3 DEF Rooted
    <3> QED
      BY <3>3, <3>7, RootKept
  <2> QED
    BY <1>3, <1>9, <2>2, <2>3 DEF Return, rest
<1> QED
  BY <1>5, <1>6, <1>7, <1>8, <1>9 DEF Step

-----------------------------------------------------------------------------
(* The invariant. *)

Hash == [ids |-> interface_ids, size |-> interface_size]

(* Every class struct has the right table,                                 *)
TableInv ==
  /\ interfaces \in [Structs -> Seq(Vtables \cup {NULL})]
  /\ \A s \in Structs : struct[s] # NULL =>
       Fits(interfaces[s], Hash, struct[s].type)

(* ... every id that a static variable keeps is that of its name,          *)
StaticInv ==
  /\ iface_id \in [Names -> Nat]
  /\ \A n \in Names : iface_id[n] # 0 => iface_id[n] = interface_ids[n]

LookupSteps == {"idle", "find", "lock", "unlock", "keep", "get", "return"}
LookupCalls ==
  [step : LookupSteps, struct : Structs \cup {NULL}, name : Names \cup {NULL},
   static : BOOLEAN, id : Nat, result : Vtables \cup {NULL}]

Right(l) ==
  IF For(struct[l.struct].type, l.name) = {} THEN l.result = NULL
  ELSE l.result \in For(struct[l.struct].type, l.name)

(* ... and a lookup has the id when it needs it, and the right vtable when *)
(* it returns.                                                             *)
LookupOK(l) ==
  /\ l \in LookupCalls
  /\ l.step = "idle" => l.id = 0
  /\ l.step # "idle" => /\ l.name \in Names /\ l.struct \in Structs
                        /\ struct[l.struct] # NULL
  /\ l.id # 0 => l.id = interface_ids[l.name]
  /\ l.step \in {"unlock", "keep"} => l.id # 0
  /\ l.step = "get" => (IF l.static THEN iface_id[l.name] ELSE l.id) # 0
  /\ l.step = "return" => Right(l)

LookupInv ==
  /\ DOMAIN lookup = Threads
  /\ \A t \in Threads : LookupOK(lookup[t])

InterfaceInv ==
  /\ LinkInv /\ RootInv
  /\ HashOK(Hash) /\ TableInv /\ StaticInv /\ LookupInv

LEMMA HashTypes ==
  ASSUME HashOK(Hash)
  PROVE  /\ interface_size \in Nat
         /\ interface_ids \in [Names -> 0..interface_size]
         /\ interface_ids \in [Names -> Nat]
BY DEF HashOK, Hash

LEMMA NoLookupOK == LookupOK(NoLookup)
BY DEF NoLookup, LookupOK, LookupCalls, LookupSteps

(* A lookup that does not move minds neither new ids nor new structs.      *)
LEMMA LookupKept ==
  ASSUME InterfaceInv, NEW t \in Threads, HashOK(Hash)', Grown(Hash, Hash'),
         \A s \in Structs : struct[s] # NULL => struct'[s] = struct[s],
         \A n \in Names : iface_id[n] # 0 => iface_id'[n] # 0
  PROVE  LookupOK(lookup[t])
           => /\ lookup[t].step # "idle" =>
                    struct'[lookup[t].struct] = struct[lookup[t].struct]
              /\ lookup[t].id # 0 =>
                    interface_ids'[lookup[t].name] = interface_ids[lookup[t].name]
              /\ lookup'[t] = lookup[t] => LookupOK(lookup[t])'
<1> SUFFICES ASSUME LookupOK(lookup[t])
             PROVE  /\ lookup[t].step # "idle" =>
                          struct'[lookup[t].struct] = struct[lookup[t].struct]
                    /\ lookup[t].id # 0 =>
                          interface_ids'[lookup[t].name] = interface_ids[lookup[t].name]
                    /\ lookup'[t] = lookup[t] => LookupOK(lookup[t])'
  OBVIOUS
<1> DEFINE l == lookup[t]
<1>1. /\ l \in LookupCalls
      /\ l.step = "idle" => l.id = 0
      /\ l.step # "idle" => /\ l.name \in Names /\ l.struct \in Structs
                            /\ struct[l.struct] # NULL
      /\ l.id # 0 => l.id = interface_ids[l.name]
      /\ l.step \in {"unlock", "keep"} => l.id # 0
      /\ l.step = "get" => (IF l.static THEN iface_id[l.name] ELSE l.id) # 0
      /\ l.step = "return" => Right(l)
  BY DEF LookupOK
<1> HIDE DEF l
<1>2. l.step # "idle" => struct'[l.struct] = struct[l.struct]
  BY <1>1
<1>3. l.id # 0 => interface_ids'[l.name] = interface_ids[l.name]
  <2>1. \A n \in Names : interface_ids[n] # 0 => interface_ids'[n] = interface_ids[n]
    BY DEF Grown, Hash
  <2> QED
    BY <1>1, <2>1
<1>4. ASSUME lookup'[t] = l
      PROVE  LookupOK(lookup[t])'
  <2>1. l.step = "return" => Right(l)'
    BY <1>1, <1>2, <1>4 DEF Right, l
  <2>2. l.step = "get" => (IF l.static THEN iface_id'[l.name] ELSE l.id) # 0
    BY <1>1
  <2> QED
    BY <1>1, <1>2, <1>3, <1>4, <2>1, <2>2 DEF LookupOK, Right
<1> QED
  BY <1>2, <1>3, <1>4 DEF l

LEMMA InterfacesInitOK == InterfacesInit => InterfaceInv
<1> SUFFICES ASSUME InterfacesInit
             PROVE  InterfaceInv
  OBVIOUS
<1>1. LinkInv
  BY InitLinks DEF InterfacesInit
<1>2. RootInv
  BY DEF InterfacesInit, Init, RootInv, Rooted
<1>3. HashOK(Hash)
  <2>1. Named(Hash) = {}
    BY DEF InterfacesInit, Hash, Named
  <2>2. Hash.size = 0 /\ Hash.ids = [n \in Names |-> 0]
    BY DEF InterfacesInit, Hash
  <2> QED
    BY <2>1, <2>2, FS_EmptySet DEF HashOK
<1>4. TableInv
  BY DEF InterfacesInit, Init, TableInv
<1>5. StaticInv
  BY DEF InterfacesInit, StaticInv
<1>6. LookupInv
  BY NoLookupOK DEF InterfacesInit, LookupInv
<1> QED
  BY <1>1, <1>2, <1>3, <1>4, <1>5, <1>6 DEF InterfaceInv

(* The steps of TypeRegistry that leave the tables alone.                  *)
LEMMA SameTables ==
  ASSUME InterfaceInv,
         UNCHANGED interfaceVars, UNCHANGED struct, LinkInv', RootInv'
  PROVE  InterfaceInv'
<1>1. Hash' = Hash /\ UNCHANGED <<interfaces, iface_id, lookup>>
      /\ UNCHANGED <<interface_ids, interface_size>>
  BY DEF interfaceVars, idVars, Hash
<1>2. HashOK(Hash)' /\ Grown(Hash, Hash')
  <2>1. HashOK(Hash)'
    BY <1>1 DEF InterfaceInv, HashOK, Named
  <2> QED
    BY <1>1, <2>1 DEF InterfaceInv, HashOK, Grown
<1>3. TableInv'
  BY <1>1 DEF InterfaceInv, TableInv, Fits
<1>4. StaticInv'
  BY <1>1 DEF InterfaceInv, StaticInv
<1>5. LookupInv'
  BY <1>1, <1>2, LookupKept DEF InterfaceInv, LookupInv
<1> QED
  BY <1>2, <1>3, <1>4, <1>5 DEF InterfaceInv

LEMMA TypeStepOK ==
  ASSUME InterfaceInv, "type_race" \notin Freedoms,
         NEW t \in Threads, TypeStep(t)
  PROVE  InterfaceInv'
<1>1. UNCHANGED interfaceVars
  BY DEF TypeStep
<1>2. CASE Check(t) \/ Unlock(t) \/ Store(t) \/ Return(t)
  <2>1. Step(t)
    BY <1>2 DEF Step
  <2>2. LinkInv' /\ RootInv'
    BY <2>1, NextLinks, StepRoot DEF Next, InterfaceInv
  <2>3. UNCHANGED struct
    BY <1>2 DEF Check, Unlock, Store, Return, classVars
  <2> QED
    BY <1>1, <2>2, <2>3, SameTables
<1>3. ASSUME NEW c \in Types, Call(t, c)
      PROVE  InterfaceInv'
  <2>1. LinkInv' /\ RootInv'
    BY <1>3, NextLinks, CallRoot DEF Next, InterfaceInv
  <2>2. UNCHANGED struct
    BY <1>3 DEF Call, classVars
  <2> QED
    BY <1>1, <2>1, <2>2, SameTables
<1> QED
  BY <1>2, <1>3 DEF TypeStep

(* Making a class: ids for its interfaces, then its table.                 *)
LEMMA InitTypeOK ==
  ASSUME InterfaceInv, "type_race" \notin Freedoms,
         NEW t \in Threads, InitType(t)
  PROVE  InterfaceInv'
<1> DEFINE f == Top(t)
           s == type_location'[f.type]
           h == FoldLeft(y_Runtime_get_interface_id_nolock, Hash, Specs[f.type])
<1>1. y_Runtime_init_type(t) /\ UNCHANGED <<iface_id, lookup>>
  BY DEF InitType
<1>2. LinkInv' /\ RootInv'
  <2>1. Step(t)
    BY <1>1 DEF Step
  <2> QED
    BY <2>1, NextLinks, StepRoot DEF Next, InterfaceInv
<1>3. CASE type_location[f.type] # NULL
  <2>1. UNCHANGED <<idVars, interfaces>>
    BY <1>3 DEF InitType
  <2>2. UNCHANGED struct
    BY <1>1, <1>3 DEF y_Runtime_init_type, classVars
  <2> QED
    BY <1>1, <1>2, <2>1, <2>2, SameTables DEF interfaceVars
<1>4. CASE type_location[f.type] = NULL
  <2>1. PICK x \in Structs :
          /\ Fresh(x)
          /\ struct' = [struct EXCEPT ![x] = [type |-> f.type, super |-> f.super]]
          /\ type_location' = [type_location EXCEPT ![f.type] = x]
    BY <1>1, <1>4 DEF y_Runtime_init_type
  <2>2. /\ interface_ids' = h.ids /\ interface_size' = h.size
        /\ interfaces' = [interfaces EXCEPT ![s] =
              IF Specs[f.type] # <<>> THEN y_Runtime_pack_interfaces(h, f.type)
              ELSE IF f.super # NULL THEN interfaces[f.super] ELSE <<>>]
    BY <1>4 DEF InitType, Hash
  <2>3. /\ t = Main /\ stack[t] # <<>> /\ f = stack[t][1] /\ f \in Frames
        /\ Len(stack[t]) >= 1 /\ f.step = "init"
    <3>1. stack[t] \in Seq(Frames) /\ stack[t] # <<>> /\ f.step = "init"
      BY <1>1 DEF y_Runtime_init_type, At, Idle, Top, InterfaceInv, LinkInv,
                  PointerInv, TypeOK
    <3>2. f = stack[t][1] /\ f \in Frames /\ Len(stack[t]) >= 1
      BY <3>1 DEF Top
    <3>3. t = Main
      BY <3>1, <3>2 DEF InterfaceInv, LinkInv, OthersInv
    <3> QED
      BY <3>1, <3>2, <3>3
  <2>4. f.type \in Types /\ f.super \in Structs \cup {NULL}
    BY <2>3 DEF Frames
  <2>5. s = x
    BY <2>1, <2>4 DEF InterfaceInv, LinkInv, PointerInv, TypeOK
  <2> DEFINE table == IF Specs[f.type] # <<>>
                      THEN y_Runtime_pack_interfaces(h, f.type)
                      ELSE IF f.super # NULL THEN interfaces[f.super] ELSE <<>>
  <2>6. interfaces' = [interfaces EXCEPT ![x] = table]
    BY <2>2, <2>5
  <2> HIDE DEF s, h
  <2>7. HashOK(h) /\ Grown(Hash, h) /\ \A n \in ToSet(Specs[f.type]) : h.ids[n] # 0
    <3>1. Specs[f.type] \in Seq(Names)
      BY <2>4, InterfacesAssumption
    <3> QED
      BY <3>1, FoldIds DEF InterfaceInv, h
  <2>8. Hash'.ids = h.ids /\ Hash'.size = h.size
    BY <2>2 DEF Hash
  <2>9. HashOK(Hash)' /\ HashOK(Hash') /\ Grown(Hash, Hash')
    <3>1. HashOK(Hash') /\ Grown(Hash, Hash')
      BY <2>7, <2>8 DEF HashOK, Named, Grown
    <3> QED
      BY <3>1 DEF HashOK, Named
  <2>10. \A tb, c : Fits(tb, h, c) => Fits(tb, Hash', c)
    BY <2>8 DEF Fits
  <2>11. struct[x] = NULL
    BY <2>1, FreshStruct DEF InterfaceInv, LinkInv, PointerInv
  <2>12. /\ struct'[x].type = f.type
         /\ \A y \in Structs : y # x => struct'[y] = struct[y]
    BY <2>1 DEF InterfaceInv, LinkInv, PointerInv, TypeOK
  <2>13. Fits(table, h, f.type)
    <3>1. CASE Specs[f.type] # <<>>
      BY <2>4, <2>7, <3>1, PackFits
    <3>2. CASE Specs[f.type] = <<>> /\ Super[f.type] = NULL
      <4>1. 1 \in 1..Len(stack[t])
        BY <2>3
      <4>2. f.super = NULL
        BY <2>3, <3>2, <4>1 DEF InterfaceInv, RootInv, Rooted
      <4>3. table = <<>>
        BY <3>2, <4>2
      <4> QED
        BY <2>4, <2>7, <3>2, <4>3, InheritFits
    <3>3. CASE Specs[f.type] = <<>> /\ Super[f.type] # NULL
      <4>1. f.super # NULL /\ f.super = type_location[Super[f.type]]
        BY <2>3, <3>3 DEF InterfaceInv, LinkInv, ClimbInv
      <4>2. Super[f.type] \in Types
        BY <2>4, <3>3, TypesAssumption
      <4>3. struct[f.super] # NULL /\ struct[f.super].type = Super[f.type]
        BY <4>1, <4>2 DEF InterfaceInv, LinkInv, PointerInv, NoStaleType
      <4>4. Fits(interfaces[f.super], Hash, Super[f.type])
        BY <2>4, <4>1, <4>3 DEF InterfaceInv, TableInv
      <4>5. Fits(interfaces[f.super], h, Super[f.type])
        BY <2>7, <4>4, FitsGrown DEF InterfaceInv
      <4>6. table = interfaces[f.super]
        BY <3>3, <4>1
      <4> QED
        BY <2>4, <2>7, <3>3, <4>5, <4>6, InheritFits
    <3> QED
      BY <3>1, <3>2, <3>3
  <2> HIDE DEF table
  <2>14. TableInv'
    <3>1. interfaces' \in [Structs -> Seq(Vtables \cup {NULL})]
      BY <2>6, <2>13 DEF InterfaceInv, TableInv, Fits
    <3>2. /\ interfaces'[x] = table
          /\ \A y \in Structs : y # x => interfaces'[y] = interfaces[y]
      BY <2>6 DEF InterfaceInv, TableInv
    <3>3. ASSUME NEW y \in Structs, struct'[y] # NULL
          PROVE  Fits(interfaces'[y], Hash', struct'[y].type)
      <4>1. CASE y = x
        BY <2>10, <2>12, <2>13, <3>2, <4>1
      <4>2. CASE y # x
        <5>1. Fits(interfaces[y], Hash, struct[y].type)
          BY <2>12, <3>3, <4>2 DEF InterfaceInv, TableInv
        <5>2. Fits(interfaces[y], Hash', struct[y].type)
          BY <2>9, <5>1, FitsGrown DEF InterfaceInv
        <5> QED
          BY <2>12, <3>2, <4>2, <5>2
      <4> QED
        BY <4>1, <4>2
    <3> QED
      BY <3>1, <3>3 DEF TableInv, Fits
  <2>15. StaticInv'
    <3>1. \A n \in Names : interface_ids[n] # 0 => interface_ids'[n] = interface_ids[n]
      BY <2>9 DEF Grown, Hash
    <3> QED
      BY <1>1, <3>1 DEF InterfaceInv, StaticInv
  <2>16. LookupInv'
    <3>1. \A y \in Structs : struct[y] # NULL => struct'[y] = struct[y]
      BY <2>11, <2>12
    <3>2. \A u \in Threads : LookupOK(lookup[u])'
      BY <1>1, <2>9, <3>1, LookupKept DEF InterfaceInv, LookupInv
    <3> QED
      BY <1>1, <3>2 DEF InterfaceInv, LookupInv
  <2> QED
    BY <1>2, <2>9, <2>14, <2>15, <2>16 DEF InterfaceInv
<1> QED
  BY <1>3, <1>4

(* The end of a runtime.                                                   *)
LEMMA DestroyOK ==
  ASSUME InterfaceInv, "type_race" \notin Freedoms, "stale_id" \notin Freedoms,
         DestroyIds
  PROVE  InterfaceInv'
<1>1. /\ DestroyRuntime
      /\ \A t \in Threads : lookup[t] = NoLookup
      /\ \A n \in Names : iface_id[n] = 0
      /\ interface_ids' = [n \in Names |-> 0] /\ interface_size' = 0
      /\ interfaces' = [s \in Structs |-> <<>>]
      /\ iface_id' = iface_id /\ lookup' = lookup
  BY DEF DestroyIds
<1>2. LinkInv'
  BY <1>1, NextLinks DEF Next, InterfaceInv
<1>3. RootInv'
  BY <1>1 DEF DestroyRuntime, InterfaceInv, RootInv, Rooted
<1>4. HashOK(Hash)'
  <2>1. Named(Hash)' = {}
    BY <1>1 DEF Hash, Named
  <2>2. Hash'.size = 0 /\ Hash'.ids = [n \in Names |-> 0]
    BY <1>1 DEF Hash
  <2> QED
    BY <2>1, <2>2, FS_EmptySet DEF HashOK
<1>5. TableInv'
  <2>1. \A s \in Structs : struct'[s] = NULL
    BY <1>1 DEF DestroyRuntime
  <2> QED
    BY <1>1, <2>1 DEF TableInv
<1>6. StaticInv'
  BY <1>1 DEF InterfaceInv, StaticInv
<1>7. LookupInv'
  <2>1. LookupOK(NoLookup)'
    BY DEF NoLookup, LookupOK, LookupCalls, LookupSteps
  <2> QED
    BY <1>1, <2>1 DEF InterfaceInv, LookupInv
<1> QED
  BY <1>2, <1>3, <1>4, <1>5, <1>6, <1>7 DEF InterfaceInv

-----------------------------------------------------------------------------
(* Lookups. *)

(* A step of a lookup leaves the classes alone.                            *)
LEMMA LookupStepOK ==
  ASSUME InterfaceInv, NEW t \in Threads, NEW l,
         UNCHANGED <<classVars, stack, interfaces>>,
         mutex' \in Threads \cup {NULL}, calls' \in [Threads -> Nat],
         HashOK(Hash)', Grown(Hash, Hash'), StaticInv',
         \A n \in Names : iface_id[n] # 0 => iface_id'[n] # 0,
         lookup' = [lookup EXCEPT ![t] = l], LookupOK(l)'
  PROVE  InterfaceInv'
<1>1. UNCHANGED <<type_location, struct, registered, stack, interfaces>>
  BY DEF classVars
<1>2. LinkInv'
  <2>1. PointerInv'
    BY <1>1 DEF InterfaceInv, LinkInv, PointerInv, TypeOK, NoStaleType, MadeInv
  <2>2. OthersInv' /\ ClimbInv' /\ SuperLinked'
    BY <1>1 DEF InterfaceInv, LinkInv, OthersInv, ClimbInv, SuperLinked
  <2> QED
    BY <2>1, <2>2 DEF LinkInv
<1>3. RootInv'
  BY <1>1 DEF InterfaceInv, RootInv, Rooted
<1>4. TableInv'
  <2>1. HashOK(Hash')
    BY DEF HashOK, Named
  <2>2. \A s \in Structs : struct[s] # NULL =>
          Fits(interfaces[s], Hash', struct[s].type)
    BY <2>1, FitsGrown DEF InterfaceInv, TableInv
  <2> QED
    BY <1>1, <2>2 DEF InterfaceInv, TableInv, Fits
<1>5. LookupInv'
  <2>1. \A u \in Threads : lookup'[u] = IF u = t THEN l ELSE lookup[u]
    BY DEF InterfaceInv, LookupInv
  <2>2. ASSUME NEW u \in Threads, u # t
        PROVE  LookupOK(lookup[u])'
    BY <1>1, <2>1, <2>2, LookupKept DEF InterfaceInv, LookupInv
  <2>3. LookupOK(lookup[t])'
    BY <2>1 DEF LookupOK, Right
  <2> QED
    BY <2>2, <2>3 DEF InterfaceInv, LookupInv
<1> QED
  BY <1>2, <1>3, <1>4, <1>5 DEF InterfaceInv

(* Nothing but the lookup itself changes.                                  *)
LEMMA OnlyLookup ==
  ASSUME InterfaceInv, NEW t \in Threads, NEW l,
         UNCHANGED <<classVars, stack, calls, idVars, interfaces, iface_id>>,
         mutex' \in Threads \cup {NULL},
         lookup' = [lookup EXCEPT ![t] = l], LookupOK(l)
  PROVE  InterfaceInv'
<1>1. UNCHANGED <<type_location, struct, interface_ids, interface_size, iface_id, calls>>
  BY DEF classVars, idVars
<1>2. Hash' = Hash
  BY <1>1 DEF Hash
<1>3. HashOK(Hash)' /\ Grown(Hash, Hash')
  BY <1>2 DEF InterfaceInv, HashOK, Named, Grown
<1>4. StaticInv'
  BY <1>1 DEF InterfaceInv, StaticInv
<1>5. LookupOK(l)'
  BY <1>1 DEF LookupOK, Right
<1>6. calls' \in [Threads -> Nat]
  BY <1>1 DEF InterfaceInv, LinkInv, PointerInv, TypeOK
<1> QED
  BY <1>1, <1>3, <1>4, <1>5, <1>6, LookupStepOK

LEMMA CallLookupOK ==
  ASSUME InterfaceInv, NEW t \in Threads, NEW c \in Types, NEW n \in Names,
         NEW static \in BOOLEAN, CallLookup(t, c, n, static)
  PROVE  InterfaceInv'
<1>0. PICK l : l = [NoLookup EXCEPT
                     !.struct = type_location[c], !.name = n, !.static = static,
                     !.step = IF static /\ iface_id[n] # 0 THEN "get" ELSE "find"]
  OBVIOUS
<1>1. type_location[c] \in Structs /\ struct[type_location[c]] # NULL
  BY DEF CallLookup, InterfaceInv, LinkInv, PointerInv, TypeOK, NoStaleType
<1>2. LookupOK(l)
  BY <1>0, <1>1 DEF NoLookup, LookupOK, LookupCalls, LookupSteps
<1>3. lookup' = [lookup EXCEPT ![t] = l]
  BY <1>0 DEF CallLookup, LookupGoto
<1>4. UNCHANGED <<classVars, mutex, stack, idVars, interfaces, iface_id>>
      /\ calls' = [calls EXCEPT ![t] = @ + 1]
  BY DEF CallLookup
<1>5. UNCHANGED <<type_location, struct, interface_ids, interface_size, iface_id, mutex>>
  BY <1>4 DEF classVars, idVars
<1>6. Hash' = Hash
  BY <1>5 DEF Hash
<1>7. HashOK(Hash)' /\ Grown(Hash, Hash')
  BY <1>6 DEF InterfaceInv, HashOK, Named, Grown
<1>8. StaticInv'
  BY <1>5 DEF InterfaceInv, StaticInv
<1>9. LookupOK(l)'
  BY <1>2, <1>5 DEF LookupOK, Right
<1>10. calls' \in [Threads -> Nat] /\ mutex' \in Threads \cup {NULL}
  BY <1>4, <1>5 DEF InterfaceInv, LinkInv, PointerInv, TypeOK
<1> QED
  BY <1>3, <1>4, <1>5, <1>7, <1>8, <1>9, <1>10, LookupStepOK

LEMMA LookupMoves ==
  ASSUME InterfaceInv, NEW t \in Threads, LookupStep(t)
  PROVE  InterfaceInv'
<1> DEFINE l == lookup[t]
<1>1. /\ l \in LookupCalls
      /\ l.step # "idle" => /\ l.name \in Names /\ l.struct \in Structs
                            /\ struct[l.struct] # NULL
      /\ l.id # 0 => l.id = interface_ids[l.name]
      /\ l.step \in {"unlock", "keep"} => l.id # 0
      /\ l.step = "get" => (IF l.static THEN iface_id[l.name] ELSE l.id) # 0
  BY DEF InterfaceInv, LookupInv, LookupOK
<1>2. /\ interface_size \in Nat /\ interface_ids \in [Names -> Nat]
      /\ mutex \in Threads \cup {NULL}
  BY HashTypes DEF InterfaceInv, LinkInv, PointerInv, TypeOK
<1>3. \A step : LookupAt(t, step) => l.step = step
  BY DEF LookupAt
<1> HIDE DEF l
<1>4. CASE FindId(t)
  <2> DEFINE id == interface_ids[l.name]
  <2>1. l.step = "find"
    BY <1>3, <1>4 DEF FindId
  <2>2. /\ UNCHANGED <<classVars, mutex, stack, calls, idVars, interfaces, iface_id>>
        /\ \/ id # 0 /\ lookup' = [lookup EXCEPT ![t] =
                                      [l EXCEPT !.step = "keep", !.id = id]]
           \/ lookup' = [lookup EXCEPT ![t] = [l EXCEPT !.step = "lock"]]
    BY <1>4 DEF FindId, LookupGoto, vars, l
  <2>3. id \in Nat
    BY <1>1, <1>2, <2>1
  <2>4. CASE id # 0 /\ lookup' = [lookup EXCEPT ![t] =
                                     [l EXCEPT !.step = "keep", !.id = id]]
    <3> DEFINE m == [l EXCEPT !.step = "keep", !.id = id]
    <3>1. LookupOK(m)
      BY <1>1, <2>1, <2>3, <2>4 DEF LookupOK, LookupCalls, LookupSteps
    <3> HIDE DEF m
    <3> QED
      BY <1>2, <2>2, <2>4, <3>1, OnlyLookup DEF m
  <2>5. CASE lookup' = [lookup EXCEPT ![t] = [l EXCEPT !.step = "lock"]]
    <3> DEFINE m == [l EXCEPT !.step = "lock"]
    <3>1. LookupOK(m)
      BY <1>1, <2>1 DEF LookupOK, LookupCalls, LookupSteps
    <3> HIDE DEF m
    <3> QED
      BY <1>2, <2>2, <2>5, <3>1, OnlyLookup DEF m
  <2> QED
    BY <2>2, <2>4, <2>5
<1>5. CASE AddId(t)
  <2> DEFINE n == l.name
             h == Given(Hash, n)
  <2>0. PICK m : m = [l EXCEPT !.step = "unlock", !.id = h.ids[n]]
    OBVIOUS
  <2>1. l.step = "lock" /\ n \in Names
    BY <1>1, <1>3, <1>5 DEF AddId
  <2>2. /\ UNCHANGED <<classVars, stack, calls, interfaces, iface_id>>
        /\ mutex' = t
        /\ interface_ids' = h.ids /\ interface_size' = h.size
        /\ lookup' = [lookup EXCEPT ![t] = m]
    BY <1>5, <2>0 DEF AddId, LookupGoto, l, Given, Hash
  <2>3. HashOK(h) /\ Grown(Hash, h) /\ h.ids[n] # 0
    <3> HIDE DEF n
    <3> QED
      BY <2>1, GivenIds DEF InterfaceInv
  <2> HIDE DEF h
  <2>4. Hash'.ids = h.ids /\ Hash'.size = h.size
    BY <2>2 DEF Hash
  <2>5. HashOK(Hash)' /\ Grown(Hash, Hash')
    BY <2>3, <2>4 DEF HashOK, Named, Grown
  <2>6. StaticInv'
    <3>1. \A k \in Names : interface_ids[k] # 0 => interface_ids'[k] = interface_ids[k]
      BY <2>5 DEF Grown, Hash
    <3> QED
      BY <2>2, <3>1 DEF InterfaceInv, StaticInv
  <2>7. h.ids[n] \in Nat
    BY <2>1, <2>3 DEF HashOK
  <2>8. m \in LookupCalls /\ m.id = h.ids[n] /\ m.name = n /\ m.step = "unlock"
        /\ m.struct = l.struct
    BY <1>1, <2>0, <2>7 DEF LookupCalls, LookupSteps
  <2>9. LookupOK(m)'
    BY <1>1, <2>1, <2>2, <2>3, <2>8 DEF LookupOK, classVars
  <2>10. calls' \in [Threads -> Nat] /\ mutex' \in Threads \cup {NULL}
    BY <2>2 DEF InterfaceInv, LinkInv, PointerInv, TypeOK
  <2> QED
    BY <2>2, <2>5, <2>6, <2>9, <2>10, LookupStepOK
<1>6. CASE UnlockId(t)
  <2> DEFINE m == [l EXCEPT !.step = "keep"]
  <2>1. l.step = "unlock"
    BY <1>3, <1>6 DEF UnlockId
  <2>2. LookupOK(m)
    BY <1>1, <2>1 DEF LookupOK, LookupCalls, LookupSteps
  <2>3. /\ UNCHANGED <<classVars, stack, calls, idVars, interfaces, iface_id>>
        /\ mutex' = NULL /\ lookup' = [lookup EXCEPT ![t] = m]
    BY <1>6 DEF UnlockId, LookupGoto, l
  <2> HIDE DEF m
  <2> QED
    BY <2>2, <2>3, OnlyLookup
<1>7. CASE KeepId(t)
  <2>0. PICK m : m = [l EXCEPT !.step = "get"]
    OBVIOUS
  <2>1. l.step = "keep" /\ l.name \in Names /\ l.id # 0 /\ l.id \in Nat
    BY <1>1, <1>3, <1>7 DEF KeepId, LookupCalls
  <2>2. /\ UNCHANGED <<classVars, mutex, stack, calls, idVars, interfaces>>
        /\ iface_id' = IF l.static THEN [iface_id EXCEPT ![l.name] = l.id] ELSE iface_id
        /\ lookup' = [lookup EXCEPT ![t] = m]
    BY <1>7, <2>0 DEF KeepId, LookupGoto, l, vars
  <2>3. UNCHANGED <<type_location, struct, interface_ids, interface_size, mutex>>
    BY <2>2 DEF classVars, idVars
  <2>4. HashOK(Hash)' /\ Grown(Hash, Hash')
    <3>1. Hash' = Hash
      BY <2>3 DEF Hash
    <3> QED
      BY <3>1 DEF InterfaceInv, HashOK, Named, Grown
  <2>5. iface_id \in [Names -> Nat]
    BY DEF InterfaceInv, StaticInv
  <2>6. StaticInv'
    BY <1>1, <2>1, <2>2, <2>3 DEF InterfaceInv, StaticInv
  <2>7. \A n \in Names : iface_id[n] # 0 => iface_id'[n] # 0
    BY <2>1, <2>2, <2>5
  <2>8. m \in LookupCalls /\ m.id = l.id /\ m.name = l.name /\ m.step = "get"
        /\ m.struct = l.struct /\ m.static = l.static
    BY <1>1, <2>0 DEF LookupCalls, LookupSteps
  <2>9. LookupOK(m)'
    BY <1>1, <2>1, <2>2, <2>3, <2>5, <2>8 DEF LookupOK
  <2>10. calls' \in [Threads -> Nat] /\ mutex' \in Threads \cup {NULL}
    BY <2>2 DEF InterfaceInv, LinkInv, PointerInv, TypeOK
  <2> QED
    BY <2>2, <2>4, <2>6, <2>7, <2>9, <2>10, LookupStepOK
<1>8. CASE y_get_implementation(t)
  <2> DEFINE id == IF l.static THEN iface_id[l.name] ELSE l.id
             vtables == interfaces[l.struct]
             result == IF id <= Len(vtables) THEN vtables[id] ELSE NULL
             m == [l EXCEPT !.step = "return", !.result = result]
  <2>1. l.step = "get" /\ l.name \in Names /\ l.struct \in Structs
        /\ struct[l.struct] # NULL /\ id # 0
    BY <1>1, <1>3, <1>8 DEF y_get_implementation
  <2>2. /\ UNCHANGED <<classVars, mutex, stack, calls, idVars, interfaces, iface_id>>
        /\ lookup' = [lookup EXCEPT ![t] = m]
    BY <1>8 DEF y_get_implementation, LookupGoto, l, vars
  <2>3. id = interface_ids[l.name] /\ id \in Nat
    BY <1>1, <1>2, <2>1 DEF InterfaceInv, StaticInv
  <2>4. Fits(vtables, Hash, struct[l.struct].type)
    BY <2>1 DEF InterfaceInv, TableInv
  <2> HIDE DEF id, vtables
  <2>5. vtables \in Seq(Vtables \cup {NULL}) /\ Len(vtables) \in Nat
    BY <2>4 DEF Fits
  <2>6. id <= Len(vtables) <=> id \in 1..Len(vtables)
    BY <2>1, <2>3, <2>5
  <2>7. result \in Vtables \cup {NULL}
    BY <2>5, <2>6
  <2>8. IF For(struct[l.struct].type, l.name) = {} THEN result = NULL
        ELSE result \in For(struct[l.struct].type, l.name)
    <3>1. IF For(struct[l.struct].type, l.name) = {}
          THEN id \in 1..Len(vtables) => vtables[id] = NULL
          ELSE id \in 1..Len(vtables) /\ vtables[id] \in For(struct[l.struct].type, l.name)
      BY <2>1, <2>3, <2>4 DEF Fits, Hash
    <3> QED
      BY <2>6, <3>1
  <2> HIDE DEF result
  <2>9. m \in LookupCalls /\ m.id = l.id /\ m.name = l.name /\ m.step = "return"
        /\ m.struct = l.struct /\ m.result = result
    BY <1>1, <2>7 DEF LookupCalls, LookupSteps
  <2> HIDE DEF m
  <2>10. LookupOK(m)
    BY <1>1, <2>1, <2>8, <2>9 DEF LookupOK, Right
  <2> QED
    BY <1>2, <2>2, <2>10, OnlyLookup
<1>9. CASE ReturnVtable(t)
  <2>1. /\ UNCHANGED <<classVars, mutex, stack, calls, idVars, interfaces, iface_id>>
        /\ lookup' = [lookup EXCEPT ![t] = NoLookup]
    BY <1>9 DEF ReturnVtable, LookupGoto, vars
  <2> QED
    BY <1>2, <2>1, NoLookupOK, OnlyLookup
<1> QED
  BY <1>4, <1>5, <1>6, <1>7, <1>8, <1>9 DEF LookupStep

-----------------------------------------------------------------------------
(* Theorems. *)

LEMMA InterfacesStep ==
  ASSUME "type_race" \notin Freedoms, "stale_id" \notin Freedoms
  PROVE  InterfaceInv /\ [InterfacesNext]_allVars => InterfaceInv'
<1> SUFFICES ASSUME InterfaceInv, [InterfacesNext]_allVars
             PROVE  InterfaceInv'
  OBVIOUS
<1>1. ASSUME NEW t \in Threads, InitType(t) \/ TypeStep(t) \/ LookupStep(t)
      PROVE  InterfaceInv'
  BY <1>1, InitTypeOK, TypeStepOK, LookupMoves
<1>2. ASSUME NEW t \in Threads, NEW c \in Types, NEW n \in Names,
             NEW static \in BOOLEAN, CallLookup(t, c, n, static)
      PROVE  InterfaceInv'
  BY <1>2, CallLookupOK
<1>3. CASE DestroyIds
  BY <1>3, DestroyOK
<1>4. CASE UNCHANGED vars /\ UNCHANGED interfaceVars
  <2>1. UNCHANGED <<type_location, struct, registered, mutex, stack, calls>>
    BY <1>4 DEF vars, classVars
  <2>2. LinkInv'
    BY <1>4, NextLinks DEF InterfaceInv
  <2>3. RootInv'
    BY <2>1 DEF InterfaceInv, RootInv, Rooted
  <2> QED
    BY <1>4, <2>1, <2>2, <2>3, SameTables
<1>5. CASE UNCHANGED allVars
  BY <1>4, <1>5 DEF allVars
<1> QED
  BY <1>1, <1>2, <1>3, <1>4, <1>5 DEF InterfacesNext, Rest

(* The invariant of ids, tables and lookups holds in every state, if one   *)
(* thread makes the classes and the static ids are used with one runtime.  *)
THEOREM InterfacesInvariant ==
  ASSUME "type_race" \notin Freedoms, "stale_id" \notin Freedoms
  PROVE  InterfacesSpec => []InterfaceInv
<1>1. InterfacesInit => InterfaceInv
  BY InterfacesInitOK
<1>2. InterfaceInv /\ [InterfacesNext]_allVars => InterfaceInv'
  BY InterfacesStep
<1> QED
  BY <1>1, <1>2, PTL DEF InterfacesSpec

(* y_get_implementation returns what the class of the object provides, or  *)
(* else its superclass, for every hierarchy of classes and every order in  *)
(* which ids are given, classes made and lookups run.                      *)
THEOREM LookupsAreRight ==
  ASSUME "type_race" \notin Freedoms, "stale_id" \notin Freedoms
  PROVE  InterfacesSpec => []RightVtable
<1>1. InterfaceInv => RightVtable
  BY DEF InterfaceInv, LookupInv, LookupOK, Right, For, RightVtable, LookupAt
<1> QED
  BY <1>1, InterfacesInvariant, PTL

(* With lookups between its steps TypeRegistry does what it does without:  *)
(* classes are linked, no static pointer is stale, every call returns a    *)
(* class.                                                                  *)
THEOREM TypesWithLookups ==
  ASSUME "type_race" \notin Freedoms, "stale_id" \notin Freedoms
  PROVE  InterfacesSpec => /\ [](TypeOK /\ SuperLinked /\ NoStaleType)
                           /\ ReturnsType
<1> DEFINE A == \A t \in Threads : Return(t) => type_location[Top(t).type] # NULL
<1>1. InterfaceInv => TypeOK /\ SuperLinked /\ NoStaleType
  BY DEF InterfaceInv, LinkInv, PointerInv
<1>2. InterfaceInv => [A]_vars
  BY ReturnFinds DEF InterfaceInv
<1>3. InterfacesSpec => [][A]_vars
  BY <1>2, InterfacesInvariant, PTL
<1> QED
  BY <1>1, <1>3, InterfacesInvariant, PTL DEF ReturnsType

-----------------------------------------------------------------------------
(* What needs no rule: ids and the lock, also where threads race for a     *)
(* class and static ids outlive their runtime.                             *)

(* All calls of a thread but the running one wait for a superclass.        *)
Waiting(s) == \A i \in 2..Len(s) : s[i].step = "init"
WaitInv == \A t \in Threads : Waiting(stack[t])

LEMMA WaitKept ==
  ASSUME PointerInv, WaitInv, NEW t \in Threads, NEW r,
         stack' = [stack EXCEPT ![t] = r], Waiting(r)
  PROVE  WaitInv'
<1>1. \A u \in Threads : stack'[u] = IF u = t THEN r ELSE stack[u]
  BY DEF PointerInv, TypeOK
<1> QED
  BY <1>1 DEF WaitInv, Waiting

LEMMA CallWaits ==
  ASSUME PointerInv, WaitInv, NEW t \in Threads, NEW c \in Types, Call(t, c)
  PROVE  WaitInv'
<1>1. PICK r : r = <<Frame(c)>>
  OBVIOUS
<1>2. Len(r) = 1
  BY <1>1
<1>3. Waiting(r)
  BY <1>2 DEF Waiting
<1> QED
  BY <1>1, <1>3, WaitKept DEF Call

LEMMA StepWaits ==
  ASSUME PointerInv, WaitInv, NEW t \in Threads, Step(t)
  PROVE  WaitInv'
<1>1. PICK s : s = stack[t] /\ s \in Seq(Frames) /\ s # <<>> /\ Head(s) \in Frames
  <2>1. stack[t] # <<>> /\ stack[t] \in Seq(Frames)
    BY DEF Step, Check, y_Runtime_init_type, Unlock, Store, Return, At, Idle,
           PointerInv, TypeOK
  <2> QED
    BY <2>1
<1>2. Waiting(s) /\ Top(t) = Head(s) /\ Len(s) \in Nat /\ Len(s) >= 1
  BY <1>1 DEF WaitInv, Top
<1>3. ASSUME NEW h \in Frames, Continue(t, h)
      PROVE  WaitInv'
  <2>1. PICK r : r = <<h>> \o Tail(s)
    OBVIOUS
  <2>2. Len(r) = Len(s) /\ \A i \in 2..Len(s) : r[i] = s[i]
    BY <1>1, <2>1, Replaced
  <2>3. stack' = [stack EXCEPT ![t] = r]
    BY <1>1, <1>3, <2>1 DEF Continue
  <2>4. Waiting(r)
    BY <1>2, <2>2 DEF Waiting
  <2> QED
    BY <2>3, <2>4, WaitKept
<1>4. \A step \in Steps, x \in Structs :
        /\ [Top(t) EXCEPT !.step = step] \in Frames
        /\ [Top(t) EXCEPT !.step = step, !.made = x] \in Frames
        /\ [Top(t) EXCEPT !.step = step].step = step
  BY <1>1, <1>2 DEF Frames
<1>5. \A step \in Steps : [Top(t) EXCEPT !.step = step] \in Frames
                          /\ [Top(t) EXCEPT !.step = step].step = step
  BY <1>1, <1>2 DEF Frames
<1>6. CASE Check(t)
  <2>1. CASE Super[Top(t).type] # NULL
             /\ stack' = [stack EXCEPT ![t] =
                            <<Frame(Super[Top(t).type]),
                              [Top(t) EXCEPT !.step = "init"]>> \o Tail(@)]
    <3>1. PICK g, h : g = Frame(Super[Top(t).type])
                      /\ h = [Top(t) EXCEPT !.step = "init"]
      OBVIOUS
    <3>2. g \in Frames /\ h \in Frames /\ h.step = "init"
      <4>1. Top(t).type \in Types
        BY <1>1, <1>2 DEF Frames
      <4>2. Super[Top(t).type] \in Types
        BY <2>1, <4>1, TypesAssumption
      <4> QED
        BY <1>5, <3>1, <4>2, FrameType DEF Steps
    <3>3. PICK r : r = <<g, h>> \o Tail(s)
      OBVIOUS
    <3>4. /\ Len(r) = Len(s) + 1 /\ r[2] = h
          /\ \A i \in 3..Len(s) + 1 : r[i] = s[i - 1]
      BY <1>1, <3>2, <3>3, Pushed
    <3>5. Waiting(r)
      <4> SUFFICES ASSUME NEW i \in 2..Len(r), i # 2
                   PROVE  r[i].step = "init"
        BY <3>2, <3>4 DEF Waiting
      <4>1. i \in 3..Len(s) + 1 /\ i - 1 \in 2..Len(s)
        BY <1>2, <3>4
      <4> QED
        BY <1>2, <3>4, <4>1 DEF Waiting
    <3>6. stack' = [stack EXCEPT ![t] = r]
      BY <1>1, <2>1, <3>1, <3>3
    <3> QED
      BY <3>5, <3>6, WaitKept
  <2>2. CASE \E step \in {"return", "init"} :
               Continue(t, [Top(t) EXCEPT !.step = step])
    BY <1>3, <1>5, <2>2 DEF Steps
  <2> QED
    BY <1>6, <2>1, <2>2 DEF Check
<1>7. CASE y_Runtime_init_type(t)
  <2>1. "unlock" \in Steps
    BY DEF Steps
  <2> QED
    BY <1>3, <1>4, <1>5, <1>7, <2>1 DEF y_Runtime_init_type
<1>8. CASE Unlock(t) \/ Store(t)
  BY <1>3, <1>5, <1>8 DEF Unlock, Store, Steps
<1>9. CASE Return(t)
  <2>1. PICK rest : rest = Tail(s) /\ rest \in Seq(Frames)
    BY <1>1, Popped
  <2>2. /\ Len(rest) = Len(s) - 1
        /\ \A i \in 1..Len(s) - 1 : rest[i] = s[i + 1]
    BY <1>1, <2>1, Popped
  <2>3. CASE rest = <<>>
    <3>1. Waiting(<<>>)
      BY DEF Waiting
    <3> QED
      BY <1>1, <1>9, <2>1, <2>3, <3>1, WaitKept DEF Return
  <2>4. CASE rest # <<>>
    <3>1. PICK h : h = [Head(rest) EXCEPT !.super = type_location[Top(t).type]]
      OBVIOUS
    <3>2. h \in Frames
      <4>1. Top(t).type \in Types
        BY <1>1, <1>2 DEF Frames
      <4>2. type_location[Top(t).type] \in Structs \cup {NULL}
        BY <4>1 DEF PointerInv, TypeOK
      <4>3. Head(rest) \in Frames
        BY <2>1, <2>4, Popped
      <4> QED
        BY <3>1, <4>2, <4>3 DEF Frames
    <3>3. PICK r : r = <<h>> \o Tail(rest)
      OBVIOUS
    <3>4. Len(r) = Len(rest) /\ \A i \in 2..Len(rest) : r[i] = rest[i]
      BY <2>1, <2>4, <3>2, <3>3, Replaced
    <3>5. stack' = [stack EXCEPT ![t] = r]
      BY <1>1, <1>9, <2>1, <2>4, <3>1, <3>3 DEF Return
    <3>6. Waiting(r)
      <4> SUFFICES ASSUME NEW i \in 2..Len(r)
                   PROVE  r[i].step = "init"
        BY DEF Waiting
      <4>1. i \in 1..Len(s) - 1 /\ i + 1 \in 2..Len(s) /\ i \in 2..Len(rest)
        BY <1>2, <2>2, <3>4
      <4> QED
        BY <1>2, <2>2, <3>4, <4>1 DEF Waiting
    <3> QED
      BY <3>5, <3>6, WaitKept
  <2> QED
    BY <2>3, <2>4
<1> QED
  BY <1>6, <1>7, <1>8, <1>9 DEF Step

(* What a lookup carries is the id of its name.                            *)
LookupFields == {"step", "struct", "name", "static", "id", "result"}
IdOK(l) ==
  /\ DOMAIN l = LookupFields
  /\ l.step # "idle" => l.name \in Names
  /\ l.id # 0 => l.name \in Names /\ l.id = interface_ids[l.name]

IdsInv ==
  /\ PointerInv /\ WaitInv
  /\ HashOK(Hash)
  /\ DOMAIN lookup = Threads
  /\ \A t \in Threads : IdOK(lookup[t])

(* The ids that are there stay, and at most one lookup moves.              *)
LEMMA IdsKept ==
  ASSUME IdsInv, PointerInv', WaitInv', HashOK(Hash)', Grown(Hash, Hash'),
         \/ lookup' = lookup
         \/ \E t \in Threads : \E l : lookup' = [lookup EXCEPT ![t] = l] /\ IdOK(l)'
  PROVE  IdsInv'
<1>1. ASSUME NEW u \in Threads
      PROVE  IdOK(lookup[u]) => /\ DOMAIN lookup[u] = LookupFields
                                /\ lookup[u].step # "idle" => lookup[u].name \in Names
                                /\ lookup[u].id # 0 =>
                                     /\ lookup[u].name \in Names
                                     /\ lookup[u].id = interface_ids'[lookup[u].name]
  BY DEF IdOK, Grown, Hash
<1>2. CASE lookup' = lookup
  BY <1>1, <1>2 DEF IdsInv, IdOK
<1>3. ASSUME NEW t \in Threads, NEW l,
             lookup' = [lookup EXCEPT ![t] = l], IdOK(l)'
      PROVE  IdsInv'
  <2>1. DOMAIN lookup' = Threads
    BY <1>3 DEF IdsInv
  <2>2. ASSUME NEW u \in Threads
        PROVE  IdOK(lookup[u])'
    <3>1. CASE u = t
      <4>1. lookup'[u] = l
        BY <1>3, <3>1 DEF IdsInv
      <4> QED
        BY <1>3, <4>1 DEF IdOK
    <3>2. CASE u # t
      <4>1. lookup'[u] = lookup[u]
        BY <1>3, <3>2 DEF IdsInv
      <4> QED
        BY <1>1, <4>1 DEF IdsInv, IdOK
    <3> QED
      BY <3>1, <3>2
  <2> QED
    BY <2>1, <2>2 DEF IdsInv
<1> QED
  BY <1>2, <1>3

(* The steps of TypeRegistry.                                              *)
LEMMA TypesKeepIds ==
  ASSUME IdsInv, NEW t \in Threads, InitType(t) \/ TypeStep(t)
  PROVE  IdsInv'
<1>1. /\ Step(t) \/ \E c \in Types : Call(t, c)
      /\ lookup' = lookup
  BY DEF InitType, TypeStep, Step, interfaceVars
<1>2. PointerInv'
  BY <1>1, NextPointers DEF Next, IdsInv
<1>3. WaitInv'
  BY <1>1, StepWaits, CallWaits DEF IdsInv
<1>4. CASE UNCHANGED idVars
  <2>1. HashOK(Hash)' /\ Grown(Hash, Hash')
    BY <1>4 DEF idVars, IdsInv, Hash, HashOK, Named, Grown
  <2> QED
    BY <1>1, <1>2, <1>3, <2>1, IdsKept
<1>5. CASE InitType(t) /\ type_location[Top(t).type] = NULL
  <2>1. PICK h : h = FoldLeft(y_Runtime_get_interface_id_nolock, Hash,
                              Specs[Top(t).type])
    OBVIOUS
  <2>2. Hash'.ids = h.ids /\ Hash'.size = h.size
    BY <1>5, <2>1 DEF InitType, Hash
  <2>3. Specs[Top(t).type] \in Seq(Names)
    <3>1. stack[t] \in Seq(Frames) /\ stack[t] # <<>>
      BY <1>5 DEF InitType, y_Runtime_init_type, At, Idle, IdsInv, PointerInv, TypeOK
    <3>2. Top(t) \in Frames
      BY <3>1 DEF Top
    <3>3. Top(t).type \in Types
      BY <3>2 DEF Frames
    <3> QED
      BY <3>3, InterfacesAssumption
  <2>4. HashOK(h) /\ Grown(Hash, h)
    BY <2>1, <2>3, FoldIds DEF IdsInv
  <2>5. HashOK(Hash') /\ Grown(Hash, Hash')
    BY <2>2, <2>4 DEF HashOK, Named, Grown
  <2>6. HashOK(Hash)'
    BY <2>5 DEF HashOK, Named
  <2> QED
    BY <1>1, <1>2, <1>3, <2>5, <2>6, IdsKept
<1>6. CASE InitType(t) /\ type_location[Top(t).type] # NULL
  BY <1>4, <1>6 DEF InitType
<1>7. CASE TypeStep(t)
  BY <1>4, <1>7 DEF TypeStep, interfaceVars
<1> QED
  BY <1>5, <1>6, <1>7

(* Lookups leave the calls for classes alone.                              *)
LEMMA LookupsKeepTypes ==
  ASSUME IdsInv, UNCHANGED <<classVars, stack>>,
         mutex' \in Threads \cup {NULL}, calls' \in [Threads -> Nat]
  PROVE  PointerInv' /\ WaitInv'
<1>1. UNCHANGED <<type_location, struct, registered, stack>>
  BY DEF classVars
<1>2. PointerInv'
  BY <1>1 DEF IdsInv, PointerInv, TypeOK, NoStaleType, MadeInv
<1> QED
  BY <1>1, <1>2 DEF IdsInv, WaitInv, Waiting

LEMMA CallLookupKeepsIds ==
  ASSUME IdsInv, NEW t \in Threads, NEW c \in Types, NEW n \in Names,
         NEW static \in BOOLEAN, CallLookup(t, c, n, static)
  PROVE  IdsInv'
<1>1. PICK l :
        l = [NoLookup EXCEPT !.struct = type_location[c], !.name = n,
               !.static = static,
               !.step = IF static /\ iface_id[n] # 0 THEN "get" ELSE "find"]
  OBVIOUS
<1>2. IdOK(l)'
  BY <1>1 DEF IdOK, LookupFields, NoLookup
<1>3. /\ UNCHANGED <<classVars, mutex, stack, idVars, interfaces, iface_id>>
      /\ calls' = [calls EXCEPT ![t] = @ + 1]
      /\ lookup' = [lookup EXCEPT ![t] = l]
  BY <1>1 DEF CallLookup, LookupGoto
<1>4. PointerInv' /\ WaitInv'
  <2>1. mutex' \in Threads \cup {NULL} /\ calls' \in [Threads -> Nat]
    BY <1>3 DEF IdsInv, PointerInv, TypeOK
  <2> QED
    BY <1>3, <2>1, LookupsKeepTypes
<1>5. HashOK(Hash)' /\ Grown(Hash, Hash')
  BY <1>3 DEF idVars, IdsInv, Hash, HashOK, Named, Grown
<1> QED
  BY <1>2, <1>3, <1>4, <1>5, IdsKept

LEMMA LookupStepKeepsIds ==
  ASSUME IdsInv, NEW t \in Threads, LookupStep(t)
  PROVE  IdsInv'
<1> USE DEF LookupAt, LookupGoto
<1>1. /\ UNCHANGED <<classVars, stack, calls>>
      /\ mutex' \in {mutex, t, NULL}
  BY DEF LookupStep, FindId, AddId, UnlockId, KeepId, y_get_implementation,
     ReturnVtable, vars
<1>2. PointerInv' /\ WaitInv'
  <2>1. mutex' \in Threads \cup {NULL} /\ calls' \in [Threads -> Nat]
    BY <1>1 DEF IdsInv, PointerInv, TypeOK
  <2> QED
    BY <1>1, <2>1, LookupsKeepTypes
<1>3. IdOK(lookup[t])
  BY DEF IdsInv
<1>4. CASE AddId(t)
  <2>1. PICK n : n = lookup[t].name /\ n \in Names
    BY <1>3, <1>4 DEF AddId, IdOK
  <2>2. PICK h : h = Given(Hash, n)
    OBVIOUS
  <2>3. HashOK(h) /\ Grown(Hash, h)
    BY <2>1, <2>2, GivenIds DEF IdsInv
  <2>4. PICK l : l = [lookup[t] EXCEPT !.step = "unlock", !.id = h.ids[n]]
    OBVIOUS
  <2>5. /\ interface_ids' = h.ids /\ interface_size' = h.size
        /\ lookup' = [lookup EXCEPT ![t] = l]
    BY <1>4, <2>1, <2>2, <2>4 DEF AddId, Given, Hash
  <2>6. Hash'.ids = h.ids /\ Hash'.size = h.size
    BY <2>5 DEF Hash
  <2>7. HashOK(Hash') /\ Grown(Hash, Hash')
    BY <2>3, <2>6 DEF HashOK, Named, Grown
  <2>8. HashOK(Hash)'
    BY <2>7 DEF HashOK, Named
  <2>9. IdOK(l)'
    BY <1>3, <2>1, <2>4, <2>5 DEF IdOK, LookupFields
  <2> QED
    BY <1>2, <2>5, <2>7, <2>8, <2>9, IdsKept
<1>5. CASE UNCHANGED idVars
           /\ \E l : lookup' = [lookup EXCEPT ![t] = l] /\ IdOK(l)
  <2>1. UNCHANGED <<interface_ids, interface_size>>
    BY <1>5 DEF idVars
  <2>2. HashOK(Hash)' /\ Grown(Hash, Hash')
    BY <2>1 DEF IdsInv, Hash, HashOK, Named, Grown
  <2>3. PICK l : lookup' = [lookup EXCEPT ![t] = l] /\ IdOK(l)
    BY <1>5
  <2>4. IdOK(l)'
    BY <2>1, <2>3 DEF IdOK
  <2> QED
    BY <1>2, <2>2, <2>3, <2>4, IdsKept
<1>6. CASE FindId(t)
  <2>1. ASSUME interface_ids[lookup[t].name] # 0
        PROVE  IdOK([lookup[t] EXCEPT !.step = "keep",
                       !.id = interface_ids[lookup[t].name]])
    BY <1>3, <1>6 DEF FindId, IdOK, LookupFields
  <2>2. IdOK([lookup[t] EXCEPT !.step = "lock"])
    BY <1>3, <1>6 DEF FindId, IdOK, LookupFields
  <2> QED
    BY <1>5, <1>6, <2>1, <2>2 DEF FindId
<1>7. CASE UnlockId(t)
  <2>1. IdOK([lookup[t] EXCEPT !.step = "keep"])
    BY <1>3, <1>7 DEF UnlockId, IdOK, LookupFields
  <2> QED
    BY <1>5, <1>7, <2>1 DEF UnlockId
<1>8. CASE KeepId(t)
  <2>1. IdOK([lookup[t] EXCEPT !.step = "get"])
    BY <1>3, <1>8 DEF KeepId, IdOK, LookupFields
  <2> QED
    BY <1>5, <1>8, <2>1 DEF KeepId
<1>9. CASE y_get_implementation(t)
  <2>1. ASSUME NEW v
        PROVE  IdOK([lookup[t] EXCEPT !.step = "return", !.result = v])
    BY <1>3, <1>9 DEF y_get_implementation, IdOK, LookupFields
  <2>2. PICK v : lookup' = [lookup EXCEPT ![t] =
                              [lookup[t] EXCEPT !.step = "return", !.result = v]]
    BY <1>9 DEF y_get_implementation
  <2> QED
    BY <1>5, <1>9, <2>1, <2>2 DEF y_get_implementation
<1>10. CASE ReturnVtable(t)
  <2>1. IdOK(NoLookup)
    BY DEF NoLookup, IdOK, LookupFields
  <2> QED
    BY <1>5, <1>10, <2>1 DEF ReturnVtable
<1> QED
  BY <1>4, <1>6, <1>7, <1>8, <1>9, <1>10 DEF LookupStep

(* The end of the runtime takes all ids with it.                           *)
LEMMA DestroyKeepsIds ==
  ASSUME IdsInv, DestroyIds
  PROVE  IdsInv'
<1>1. /\ DestroyRuntime
      /\ \A t \in Threads : lookup[t] = NoLookup
      /\ interface_ids' = [n \in Names |-> 0] /\ interface_size' = 0
      /\ lookup' = lookup
  BY DEF DestroyIds
<1>2. PointerInv'
  BY <1>1, NextPointers DEF Next, IdsInv
<1>3. WaitInv'
  BY <1>1 DEF DestroyRuntime, IdsInv, WaitInv, Waiting
<1>4. HashOK(Hash)'
  <2>1. Named(Hash)' = {}
    BY <1>1 DEF Hash, Named
  <2>2. Hash'.size = 0 /\ Hash'.ids = [n \in Names |-> 0]
    BY <1>1 DEF Hash
  <2> QED
    BY <2>1, <2>2, FS_EmptySet DEF HashOK
<1>5. \A t \in Threads : IdOK(lookup[t])'
  BY <1>1 DEF IdOK, NoLookup, LookupFields
<1> QED
  BY <1>1, <1>2, <1>3, <1>4, <1>5 DEF IdsInv

LEMMA IdsStep == IdsInv /\ [InterfacesNext]_allVars => IdsInv'
<1> SUFFICES ASSUME IdsInv, [InterfacesNext]_allVars
             PROVE  IdsInv'
  OBVIOUS
<1>1. ASSUME NEW t \in Threads, InitType(t) \/ TypeStep(t) \/ LookupStep(t)
      PROVE  IdsInv'
  BY <1>1, TypesKeepIds, LookupStepKeepsIds
<1>2. ASSUME NEW t \in Threads, NEW c \in Types, NEW n \in Names,
             NEW static \in BOOLEAN, CallLookup(t, c, n, static)
      PROVE  IdsInv'
  BY <1>2, CallLookupKeepsIds
<1>3. CASE DestroyIds
  BY <1>3, DestroyKeepsIds
<1>4. CASE UNCHANGED <<vars, interfaceVars>>
  <2>1. UNCHANGED <<classVars, mutex, stack, calls, idVars, lookup>>
    BY <1>4 DEF vars, interfaceVars
  <2>2. PointerInv' /\ WaitInv'
    BY <2>1, LookupsKeepTypes DEF IdsInv, PointerInv, TypeOK
  <2>3. HashOK(Hash)' /\ Grown(Hash, Hash')
    BY <2>1 DEF idVars, IdsInv, Hash, HashOK, Named, Grown
  <2> QED
    BY <2>1, <2>2, <2>3, IdsKept
<1> QED
  BY <1>1, <1>2, <1>3, <1>4 DEF InterfacesNext, Rest, allVars

THEOREM IdsInvariant == InterfacesSpec => []IdsInv
<1>1. InterfacesInit => IdsInv
  <2> SUFFICES ASSUME InterfacesInit
               PROVE  IdsInv
    OBVIOUS
  <2>1. PointerInv
    BY InitPointers DEF InterfacesInit
  <2>2. WaitInv
    BY DEF InterfacesInit, Init, WaitInv, Waiting
  <2>3. HashOK(Hash)
    BY InterfacesInitOK DEF InterfaceInv
  <2>4. IdOK(NoLookup)
    BY DEF IdOK, NoLookup, LookupFields
  <2> QED
    BY <2>1, <2>2, <2>3, <2>4 DEF IdsInv, InterfacesInit
<1>2. IdsInv /\ [InterfacesNext]_allVars => IdsInv'
  BY IdsStep
<1> QED
  BY <1>1, <1>2, PTL DEF InterfacesSpec

(* y_Runtime_get_interface_id: every name has one id, whoever asks first,  *)
(* no two names share one, and the counter is the number of them.  Neither *)
(* threads that race for a class nor static ids that outlive their runtime *)
(* change that.                                                            *)
THEOREM IdsAreUnique == InterfacesSpec => []IdsAgree
<1>1. IdsInv => IdsAgree
  BY DEF IdsInv, IdsAgree, IdOK, HashOK, Hash, Named
<1> QED
  BY <1>1, IdsInvariant, PTL

-----------------------------------------------------------------------------
(* The runtime's mutex. *)

InLock(t) == At(t, "unlock") \/ LookupAt(t, "unlock")

MutexInv ==
  \A t \in Threads : /\ mutex = t <=> InLock(t)
                     /\ ~Idle(t) => LookupAt(t, "idle")

(* The step of the running call is that of the first frame.                *)
LEMMA AtFirst ==
  ASSUME PointerInv, NEW t \in Threads, NEW step
  PROVE  /\ stack[t] \in Seq(Frames)
         /\ At(t, step) <=> stack[t] # <<>> /\ stack[t][1].step = step
         /\ ~Idle(t) => Top(t) = stack[t][1] /\ Top(t) \in Frames
<1>1. stack[t] \in Seq(Frames)
  BY DEF PointerInv, TypeOK
<1> QED
  BY <1>1, Popped DEF At, Idle, Top

(* A step of one thread keeps, takes or gives back the mutex.              *)
LEMMA OneLocks ==
  ASSUME MutexInv, NEW t \in Threads,
         \A u \in Threads : u # t => stack'[u] = stack[u] /\ lookup'[u] = lookup[u],
         ~Idle(t)' => LookupAt(t, "idle")',
         \/ mutex' = mutex /\ ~InLock(t) /\ ~InLock(t)'
         \/ mutex = NULL /\ mutex' = t /\ InLock(t)'
         \/ InLock(t) /\ mutex' = NULL /\ ~InLock(t)'
  PROVE  MutexInv'
<1>1. NULL \notin Threads
  BY TypesAssumption
<1>2. ASSUME NEW u \in Threads, u # t
      PROVE  (InLock(u)' <=> InLock(u)) /\ (~Idle(u)' => LookupAt(u, "idle")')
  BY <1>2 DEF InLock, At, Idle, LookupAt, MutexInv
<1>3. ASSUME NEW u \in Threads, u # t
      PROVE  mutex' = u <=> InLock(u)'
  BY <1>1, <1>2, <1>3 DEF MutexInv
<1>4. mutex' = t <=> InLock(t)'
  BY <1>1 DEF MutexInv
<1> QED
  BY <1>2, <1>3, <1>4 DEF MutexInv

(* A step in a call for a class, seen by its first frame.                  *)
LEMMA FrameLocks ==
  ASSUME MutexInv, PointerInv, PointerInv', NEW t \in Threads, ~Idle(t),
         NEW s, stack' = [stack EXCEPT ![t] = s], lookup' = lookup,
         \/ /\ mutex' = mutex /\ Top(t).step # "unlock"
            /\ s # <<>> => s[1].step # "unlock"
         \/ mutex = NULL /\ mutex' = t /\ s # <<>> /\ s[1].step = "unlock"
         \/ /\ Top(t).step = "unlock" /\ mutex' = NULL
            /\ s # <<>> => s[1].step # "unlock"
  PROVE  MutexInv'
<1>1. stack'[t] = s /\ \A u \in Threads : u # t => stack'[u] = stack[u]
  BY DEF PointerInv, TypeOK
<1>2. LookupAt(t, "idle") /\ LookupAt(t, "idle")' /\ ~LookupAt(t, "unlock")
        /\ ~LookupAt(t, "unlock")'
  BY DEF MutexInv, LookupAt
<1>3. InLock(t) <=> Top(t).step = "unlock"
  BY <1>2 DEF InLock, At, Top
<1>4. InLock(t)' <=> s # <<>> /\ s[1].step = "unlock"
  <2>1. At(t, "unlock")' <=> stack'[t] # <<>> /\ stack'[t][1].step = "unlock"
    <3>1. stack'[t] \in Seq(Frames)
      BY DEF PointerInv, TypeOK
    <3> QED
      BY <3>1, Popped DEF At, Idle
  <2> QED
    BY <1>1, <1>2, <2>1 DEF InLock
<1> QED
  BY <1>1, <1>2, <1>3, <1>4, OneLocks

(* A step in a lookup.                                                     *)
LEMMA LookupLocks ==
  ASSUME MutexInv, IdsInv, NEW t \in Threads, ~LookupAt(t, "idle"),
         NEW l, lookup' = [lookup EXCEPT ![t] = l], stack' = stack,
         \/ mutex' = mutex /\ ~LookupAt(t, "unlock") /\ l.step # "unlock"
         \/ mutex = NULL /\ mutex' = t /\ l.step = "unlock"
         \/ LookupAt(t, "unlock") /\ mutex' = NULL /\ l.step # "unlock"
  PROVE  MutexInv'
<1>1. lookup'[t] = l /\ \A u \in Threads : u # t => lookup'[u] = lookup[u]
  BY DEF IdsInv
<1>2. Idle(t) /\ Idle(t)'
  BY DEF MutexInv, Idle
<1>3. /\ InLock(t) <=> LookupAt(t, "unlock")
      /\ InLock(t)' <=> l.step = "unlock"
  BY <1>1, <1>2 DEF InLock, At, LookupAt
<1> QED
  BY <1>1, <1>2, <1>3, OneLocks

LEMMA TypeLocks ==
  ASSUME MutexInv, IdsInv, IdsInv', NEW t \in Threads,
         InitType(t) \/ TypeStep(t)
  PROVE  MutexInv'
<1>1. PointerInv /\ PointerInv' /\ lookup' = lookup
  BY DEF IdsInv, InitType, TypeStep, interfaceVars
<1>2. CASE InitType(t) \/ Check(t) \/ Unlock(t) \/ Store(t)
  <2>1. ~Idle(t) /\ stack[t] \in Seq(Frames) /\ stack[t] # <<>> /\ Top(t) \in Frames
    BY <1>1, <1>2, AtFirst
    DEF InitType, y_Runtime_init_type, Check, Unlock, Store, At, Idle
  <2>2. ASSUME NEW f \in Frames
        PROVE  (<<f>> \o Tail(stack[t]))[1] = f
    BY <2>1, Replaced
  <2>3. CASE InitType(t)
    <3>1. PICK f \in Frames : /\ f.step = "unlock"
                              /\ stack' = [stack EXCEPT ![t] = <<f>> \o Tail(stack[t])]
                              /\ mutex = NULL /\ mutex' = t
      <4>1. ASSUME NEW s \in Structs
            PROVE  /\ [Top(t) EXCEPT !.step = "unlock", !.made = s] \in Frames
                   /\ [Top(t) EXCEPT !.step = "unlock", !.made = s].step = "unlock"
        BY <2>1 DEF Frames, Steps
      <4>2. /\ [Top(t) EXCEPT !.step = "unlock"] \in Frames
            /\ [Top(t) EXCEPT !.step = "unlock"].step = "unlock"
        BY <2>1 DEF Frames, Steps
      <4> QED
        BY <2>3, <4>1, <4>2 DEF InitType, y_Runtime_init_type, Continue
    <3>2. PICK s : s = <<f>> \o Tail(stack[t])
      OBVIOUS
    <3>3. s # <<>> /\ s[1].step = "unlock"
      BY <2>1, <2>2, <3>1, <3>2, Replaced
    <3> QED
      BY <1>1, <2>1, <3>1, <3>2, <3>3, FrameLocks
  <2>4. CASE Check(t)
    <3>1. Top(t).step = "check" /\ mutex' = mutex
      BY <2>4 DEF Check, At, Top
    <3>2. PICK f \in Frames :
            /\ f.step # "unlock"
            /\ \/ stack' = [stack EXCEPT ![t] = <<f>> \o Tail(stack[t])]
               \/ \E g \in Frames :
                    stack' = [stack EXCEPT ![t] = <<f, g>> \o Tail(stack[t])]
      <4>1. \A step \in {"return", "init"} :
              /\ [Top(t) EXCEPT !.step = step] \in Frames
              /\ [Top(t) EXCEPT !.step = step].step = step
        BY <2>1 DEF Frames, Steps
      <4>2. Super[Top(t).type] # NULL =>
              /\ Frame(Super[Top(t).type]) \in Frames
              /\ Frame(Super[Top(t).type]).step = "check"
        BY <2>1, TypesAssumption DEF Frame, Frames, Steps
      <4> QED
        BY <2>4, <4>1, <4>2 DEF Check, Continue
    <3>3. PICK s : s # <<>> /\ s[1] = f /\ stack' = [stack EXCEPT ![t] = s]
      <4>1. CASE stack' = [stack EXCEPT ![t] = <<f>> \o Tail(stack[t])]
        <5>1. <<f>> \o Tail(stack[t]) # <<>>
          BY <2>1, Replaced
        <5> QED
          BY <2>2, <4>1, <5>1
      <4>2. ASSUME NEW g \in Frames,
                   stack' = [stack EXCEPT ![t] = <<f, g>> \o Tail(stack[t])]
            PROVE  \E s : s # <<>> /\ s[1] = f /\ stack' = [stack EXCEPT ![t] = s]
        <5>1. /\ <<f, g>> \o Tail(stack[t]) # <<>>
              /\ (<<f, g>> \o Tail(stack[t]))[1] = f
          BY <2>1, Pushed
        <5> QED
          BY <4>2, <5>1
      <4> QED
        BY <3>2, <4>1, <4>2
    <3> QED
      BY <1>1, <2>1, <3>1, <3>2, <3>3, FrameLocks
  <2>5. CASE Unlock(t) \/ Store(t)
    <3>1. PICK f \in Frames :
            /\ f.step # "unlock"
            /\ stack' = [stack EXCEPT ![t] = <<f>> \o Tail(stack[t])]
      <4>1. \A step \in {"store", "return"} :
              /\ [Top(t) EXCEPT !.step = step] \in Frames
              /\ [Top(t) EXCEPT !.step = step].step = step
        BY <2>1 DEF Frames, Steps
      <4> QED
        BY <2>5, <4>1 DEF Unlock, Store, Continue
    <3>2. PICK s : s = <<f>> \o Tail(stack[t])
      OBVIOUS
    <3>3. s[1] = f
      BY <2>2, <3>2
    <3>4. \/ mutex' = mutex /\ Top(t).step # "unlock"
          \/ Top(t).step = "unlock" /\ mutex' = NULL
      BY <2>5 DEF Unlock, Store, At, Top
    <3> QED
      BY <1>1, <2>1, <3>1, <3>2, <3>3, <3>4, FrameLocks
  <2> QED
    BY <1>2, <2>3, <2>4, <2>5
<1>3. CASE Return(t)
  <2>1. /\ ~Idle(t) /\ Top(t).step = "return" /\ mutex' = mutex
        /\ stack[t] \in Seq(Frames) /\ stack[t] # <<>>
    BY <1>1, <1>3, AtFirst DEF Return, At, Top, Idle
  <2>2. PICK r \in Seq(Frames) :
          /\ r = Tail(stack[t]) /\ Len(r) = Len(stack[t]) - 1
          /\ \A i \in 1..Len(stack[t]) - 1 : r[i] = stack[t][i + 1]
    <3>1. PICK r : r = Tail(stack[t])
      OBVIOUS
    <3>2. r \in Seq(Frames) /\ Len(r) = Len(stack[t]) - 1
      BY <2>1, <3>1, Popped
    <3>3. \A i \in 1..Len(stack[t]) - 1 : r[i] = stack[t][i + 1]
      BY <2>1, <3>1, Popped
    <3> QED
      BY <3>1, <3>2, <3>3
  <2>3. Len(stack[t]) \in Nat /\ Len(r) \in Nat
    BY <2>1, <2>2
  <2>4. r # <<>> => Head(r) \in Frames /\ Head(r).step = "init"
    <3> SUFFICES ASSUME r # <<>>
                 PROVE  Head(r) \in Frames /\ Head(r).step = "init"
      OBVIOUS
    <3>1. Head(r) = r[1] /\ r[1] \in Frames /\ Len(r) >= 1
      BY <2>2, Popped
    <3>2. 1 \in 1..Len(stack[t]) - 1 /\ 2 \in 2..Len(stack[t])
      BY <2>2, <2>3, <3>1
    <3>3. r[1] = stack[t][2]
      BY <2>2, <3>2
    <3>4. stack[t][2].step = "init"
      BY <3>2 DEF IdsInv, WaitInv, Waiting
    <3> QED
      BY <3>1, <3>3, <3>4
  <2>5. PICK s : /\ stack' = [stack EXCEPT ![t] = s]
                 /\ s # <<>> => s[1].step # "unlock"
    <3>1. CASE r = <<>>
      BY <1>3, <2>2, <3>1 DEF Return
    <3>2. CASE r # <<>>
      <4>1. PICK f : f = [Head(r) EXCEPT !.super = type_location[Top(t).type]]
        OBVIOUS
      <4>2. f.step = "init"
        BY <2>4, <3>2, <4>1 DEF Frames
      <4>3. stack' = [stack EXCEPT ![t] = <<f>> \o Tail(r)]
        BY <1>3, <2>2, <3>2, <4>1 DEF Return
      <4>4. PICK s : s = <<f>> \o Tail(r)
        OBVIOUS
      <4>5. s[1] = f
        BY <2>2, <3>2, <4>4
      <4> QED
        BY <4>2, <4>3, <4>4, <4>5
    <3> QED
      BY <3>1, <3>2
  <2> QED
    BY <1>1, <2>1, <2>5, FrameLocks
<1>4. ASSUME NEW c \in Types, Call(t, c), LookupAt(t, "idle")
      PROVE  MutexInv'
  <2>1. PICK s : s = <<Frame(c)>>
    OBVIOUS
  <2>2. s[1].step = "check"
    BY <2>1 DEF Frame
  <2>3. Idle(t) /\ mutex' = mutex /\ stack' = [stack EXCEPT ![t] = s]
    BY <1>4, <2>1 DEF Call
  <2>4. stack'[t] = s /\ \A u \in Threads : u # t => stack'[u] = stack[u]
    BY <1>1, <2>3 DEF PointerInv, TypeOK
  <2>5. ~InLock(t) /\ ~InLock(t)' /\ LookupAt(t, "idle")'
    <3>1. LookupAt(t, "idle")' /\ ~LookupAt(t, "unlock")'
      BY <1>1, <1>4 DEF LookupAt
    <3>2. ~At(t, "unlock")'
      <4>1. stack'[t] \in Seq(Frames)
        BY <1>1 DEF PointerInv, TypeOK
      <4>2. Head(stack'[t]) = stack'[t][1] \/ stack'[t] = <<>>
        BY <4>1
      <4> QED
        BY <2>2, <2>4, <4>2 DEF At, Idle
    <3> QED
      BY <1>4, <2>3, <3>1, <3>2 DEF InLock, At, LookupAt
  <2> QED
    BY <1>1, <2>3, <2>4, <2>5, OneLocks
<1> QED
  BY <1>2, <1>3, <1>4 DEF TypeStep

LEMMA LookupStepLocks ==
  ASSUME MutexInv, IdsInv, NEW t \in Threads, LookupStep(t)
  PROVE  MutexInv'
<1> USE DEF LookupAt, LookupGoto
<1>1. DOMAIN lookup[t] = LookupFields /\ ~LookupAt(t, "idle")
  BY DEF IdsInv, IdOK, LookupStep, FindId, AddId, UnlockId, KeepId,
     y_get_implementation, ReturnVtable
<1>2. stack' = stack
  BY DEF LookupStep, FindId, AddId, UnlockId, KeepId, y_get_implementation,
     ReturnVtable, vars
<1>3. PICK l : /\ lookup' = [lookup EXCEPT ![t] = l]
               /\ \/ mutex' = mutex /\ lookup[t].step # "unlock" /\ l.step # "unlock"
                  \/ mutex = NULL /\ mutex' = t /\ l.step = "unlock"
                  \/ lookup[t].step = "unlock" /\ mutex' = NULL /\ l.step # "unlock"
  <2>1. CASE FindId(t)
    <3>1. PICK l : /\ lookup' = [lookup EXCEPT ![t] = l]
                   /\ l \in {[lookup[t] EXCEPT !.step = "lock"],
                             [lookup[t] EXCEPT !.step = "keep",
                                !.id = interface_ids[lookup[t].name]]}
      BY <2>1 DEF FindId
    <3>2. l.step \in {"lock", "keep"}
      BY <1>1, <3>1 DEF LookupFields
    <3> QED
      BY <2>1, <3>1, <3>2 DEF FindId, vars
  <2>2. CASE AddId(t)
    <3>1. PICK id, l : /\ lookup' = [lookup EXCEPT ![t] = l]
                       /\ l = [lookup[t] EXCEPT !.step = "unlock", !.id = id]
      BY <2>2 DEF AddId
    <3>2. l.step = "unlock"
      BY <1>1, <3>1 DEF LookupFields
    <3> QED
      BY <2>2, <3>1, <3>2 DEF AddId
  <2>3. CASE UnlockId(t)
    <3>1. PICK l : l = [lookup[t] EXCEPT !.step = "keep"]
      OBVIOUS
    <3>2. l.step = "keep"
      BY <1>1, <3>1 DEF LookupFields
    <3> QED
      BY <2>3, <3>1, <3>2 DEF UnlockId
  <2>4. CASE KeepId(t)
    <3>1. PICK l : l = [lookup[t] EXCEPT !.step = "get"]
      OBVIOUS
    <3>2. l.step = "get"
      BY <1>1, <3>1 DEF LookupFields
    <3> QED
      BY <2>4, <3>1, <3>2 DEF KeepId, vars
  <2>5. CASE y_get_implementation(t)
    <3>1. PICK result, l : /\ lookup' = [lookup EXCEPT ![t] = l]
                           /\ l = [lookup[t] EXCEPT !.step = "return", !.result = result]
      BY <2>5 DEF y_get_implementation
    <3>2. l.step = "return"
      BY <1>1, <3>1 DEF LookupFields
    <3> QED
      BY <2>5, <3>1, <3>2 DEF y_get_implementation, vars
  <2>6. CASE ReturnVtable(t)
    <3>1. PICK l : l = NoLookup
      OBVIOUS
    <3>2. l.step = "idle"
      BY <3>1 DEF NoLookup
    <3> QED
      BY <2>6, <3>1, <3>2 DEF ReturnVtable, vars
  <2> QED
    BY <2>1, <2>2, <2>3, <2>4, <2>5, <2>6 DEF LookupStep
<1> QED
  BY <1>1, <1>2, <1>3, LookupLocks

(* The runtime's mutex is held by the thread that is between lock and      *)
(* unlock, in y_Runtime_init_type or in y_Runtime_get_interface_id, and by *)
(* no other: no thread waits for itself, who waits waits for one that can  *)
(* go on, and no call leaves the runtime locked.                           *)
THEOREM MutexGivenBack ==
  InterfacesSpec =>
    [](\A t \in Threads : mutex = t <=> At(t, "unlock") \/ LookupAt(t, "unlock"))
<1> DEFINE Paired == \A t \in Threads :
                       mutex = t <=> At(t, "unlock") \/ LookupAt(t, "unlock")
<1>1. InterfacesInit => MutexInv
  BY TypesAssumption
  DEF InterfacesInit, Init, MutexInv, InLock, At, Idle, LookupAt, NoLookup
<1>2. IdsInv /\ IdsInv' /\ MutexInv /\ [InterfacesNext]_allVars => MutexInv'
  <2> SUFFICES ASSUME IdsInv, IdsInv', MutexInv, [InterfacesNext]_allVars
               PROVE  MutexInv'
    OBVIOUS
  <2>1. ASSUME NEW t \in Threads, InitType(t) \/ TypeStep(t) \/ LookupStep(t)
        PROVE  MutexInv'
    BY <2>1, TypeLocks, LookupStepLocks
  <2>2. ASSUME NEW t \in Threads, NEW c \in Types, NEW n \in Names,
               NEW static \in BOOLEAN, CallLookup(t, c, n, static)
        PROVE  MutexInv'
    <3>1. PICK l :
            l = [NoLookup EXCEPT !.struct = type_location[c], !.name = n,
                   !.static = static,
                   !.step = IF static /\ iface_id[n] # 0 THEN "get" ELSE "find"]
      OBVIOUS
    <3>2. l.step # "unlock" /\ lookup' = [lookup EXCEPT ![t] = l]
      <4>1. l.step # "unlock"
        BY <3>1 DEF NoLookup
      <4> QED
        BY <2>2, <3>1, <4>1 DEF CallLookup, LookupGoto
    <3>3. Idle(t) /\ LookupAt(t, "idle") /\ stack' = stack /\ mutex' = mutex
      BY <2>2 DEF CallLookup
    <3>4. lookup'[t] = l /\ \A u \in Threads : u # t => lookup'[u] = lookup[u]
      BY <3>2 DEF IdsInv
    <3>5. Idle(t)' /\ ~InLock(t) /\ ~InLock(t)'
      BY <3>2, <3>3, <3>4 DEF InLock, At, Idle, LookupAt
    <3> QED
      BY <3>3, <3>4, <3>5, OneLocks
  <2>3. CASE UNCHANGED <<mutex, stack, lookup>>
    BY <2>3 DEF MutexInv, InLock, At, Idle, LookupAt
  <2>4. CASE DestroyIds
    BY <2>3, <2>4 DEF DestroyIds, DestroyRuntime
  <2> QED
    BY <2>1, <2>2, <2>3, <2>4
    DEF InterfacesNext, Rest, vars, allVars, interfaceVars
<1>3. MutexInv => Paired
  BY DEF MutexInv, InLock
<1> QED
  BY <1>1, <1>2, <1>3, IdsInvariant, PTL DEF InterfacesSpec
=============================================================================

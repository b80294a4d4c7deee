-------------------------- MODULE ErrorChain_proofs --------------------------
(***************************************************************************)
(* Theorems about ErrorChain, for every number of threads and errors and   *)
(* every size of the buffer, if the clients keep to the two rules for the  *)
(* end of a runtime.                                                       *)
(***************************************************************************)
EXTENDS ErrorChain, FiniteSetTheorems, SequenceTheorems, TLAPS

-----------------------------------------------------------------------------
(* Sequences. *)

(* f comes before e in s; among the children of a pool, f is newer.        *)
Under(s, f, e) ==
  \E i, j \in 1..Len(s) : i < j /\ s[i] = f /\ s[j] = e

(* What is in a sequence, and when it has nothing twice.                   *)
LEMMA RangeIs ==
  ASSUME NEW X, NEW s \in Seq(X)
  PROVE  /\ \A x : x \in Range(s) <=> \E i \in 1..Len(s) : s[i] = x
         /\ IsInjective(s) <=>
              \A i, j \in 1..Len(s) : s[i] = s[j] => i = j
         /\ Range(s) \subseteq X
BY DEF Range, IsInjective

(* Removing one element moves those after it up by one.                    *)
LEMMA RemoveIndex ==
  ASSUME NEW X, NEW s \in Seq(X), IsInjective(s), NEW k \in 1..Len(s)
  PROVE  LET r == RemoveFirst(s, s[k]) IN
         /\ r \in Seq(X) /\ Len(r) = Len(s) - 1
         /\ \A i \in 1..Len(s) - 1 : r[i] = IF i < k THEN s[i] ELSE s[i + 1]
<1> DEFINE Test(v) == v = s[k]
<1>1. {i \in 1..Len(s) : s[i] = s[k]} = {k}
  BY RangeIs
<1>2. Min({k}) = k
  BY DEF Min
<1>3. SelectInSeq(s, LAMBDA v : v = s[k]) = k
  BY <1>1, <1>2 DEF SelectInSeq
<1>4. RemoveFirst(s, s[k]) = RemoveAt(s, k)
  BY <1>3 DEF RemoveFirst
<1>5. PICK n \in Nat : n = Len(s)
  BY LenProperties
<1> DEFINE a == SubSeq(s, 1, k - 1)
           b == SubSeq(s, k + 1, n)
<1>6. \A i \in 1..n : s[i] \in X
  BY <1>5, ElementOfSeq
<1>7. k \in Int /\ k \in 1..n /\ k - 1 \in Int /\ k + 1 \in Int /\ n \in Int
  BY <1>5
<1>8. /\ a \in Seq(X) /\ Len(a) = k - 1 /\ \A i \in 1..k - 1 : a[i] = s[i]
  <2>1. \A i \in 1..k - 1 : s[i] \in X
    BY <1>6, <1>7
  <2>2. /\ a \in Seq(X) /\ Len(a) = IF 1 <= k - 1 THEN (k - 1) - 1 + 1 ELSE 0
        /\ \A i \in 1..(k - 1) - 1 + 1 : a[i] = s[1 + i - 1]
    BY <1>7, <2>1, SubSeqProperties
  <2> HIDE DEF a
  <2> QED
    BY <1>7, <2>2
<1>9. /\ b \in Seq(X) /\ Len(b) = n - k
      /\ \A i \in 1..n - k : b[i] = s[k + i]
  <2>1. \A i \in k + 1..n : s[i] \in X
    BY <1>6, <1>7
  <2>2. /\ b \in Seq(X) /\ Len(b) = IF k + 1 <= n THEN n - (k + 1) + 1 ELSE 0
        /\ \A i \in 1..n - (k + 1) + 1 : b[i] = s[k + 1 + i - 1]
    BY <1>7, <2>1, SubSeqProperties
  <2> HIDE DEF b
  <2> QED
    BY <1>7, <2>2
<1> HIDE DEF a, b
<1>10. /\ a \o b \in Seq(X) /\ Len(a \o b) = n - 1
       /\ \A i \in 1..n - 1 : (a \o b)[i] = IF i <= k - 1 THEN a[i] ELSE b[i - (k - 1)]
  <2>1. /\ a \o b \in Seq(X) /\ Len(a \o b) = Len(a) + Len(b)
        /\ \A i \in 1..Len(a) + Len(b) :
             (a \o b)[i] = IF i <= Len(a) THEN a[i] ELSE b[i - Len(a)]
    BY <1>8, <1>9, ConcatProperties
  <2>2. Len(a) + Len(b) = n - 1 /\ Len(a) = k - 1
    BY <1>7, <1>8, <1>9
  <2> QED
    BY <2>1, <2>2
<1>11. ASSUME NEW i \in 1..n - 1
       PROVE  (a \o b)[i] = IF i < k THEN s[i] ELSE s[i + 1]
  <2>1. CASE i <= k - 1
    BY <1>7, <1>8, <1>10, <2>1
  <2>2. CASE ~(i <= k - 1)
    <3>1. i - (k - 1) \in 1..n - k /\ ~(i < k) /\ k + (i - (k - 1)) = i + 1
      BY <1>7, <2>2
    <3> QED
      BY <1>9, <1>10, <2>2, <3>1
  <2> QED
    BY <2>1, <2>2
<1>12. RemoveAt(s, k) = a \o b
  BY <1>5 DEF RemoveAt, a, b
<1> QED
  BY <1>4, <1>5, <1>10, <1>11, <1>12

(* What is left when the element e is removed, and that it keeps its order. *)
LEMMA RemoveFacts ==
  ASSUME NEW X, NEW s \in Seq(X), IsInjective(s), NEW e \in Range(s), NEW r,
         r = RemoveFirst(s, e)
  PROVE  /\ r \in Seq(X) /\ IsInjective(r)
         /\ Range(r) = Range(s) \ {e}
         /\ \A f, g : f # e /\ g # e /\ Under(s, f, g) => Under(r, f, g)
         /\ s[1] # e => r # <<>> /\ r[1] = s[1]
<1>1. PICK k \in 1..Len(s) : s[k] = e
  BY RangeIs
<1>2. PICK n \in Nat : n = Len(s) /\ k \in 1..n
  BY LenProperties
<1>3. \A i, j \in 1..n : s[i] = s[j] => i = j
  BY <1>2, RangeIs
<1>4. /\ r \in Seq(X) /\ Len(r) = n - 1
      /\ \A i \in 1..n - 1 : r[i] = IF i < k THEN s[i] ELSE s[i + 1]
  BY <1>1, <1>2, RemoveIndex
<1>5. IsInjective(r)
  <2>1. ASSUME NEW i \in 1..n - 1, NEW j \in 1..n - 1, r[i] = r[j]
        PROVE  i = j
    <3>1. PICK a \in 1..n : a = (IF i < k THEN i ELSE i + 1) /\ r[i] = s[a]
      BY <1>2, <1>4
    <3>2. PICK b \in 1..n : b = (IF j < k THEN j ELSE j + 1) /\ r[j] = s[b]
      BY <1>2, <1>4
    <3>3. a = b
      BY <1>3, <2>1, <3>1, <3>2
    <3> QED
      BY <1>2, <3>1, <3>2, <3>3
  <2>2. r \in Seq(X) /\ \A i, j \in 1..Len(r) : r[i] = r[j] => i = j
    BY <1>4, <2>1
  <2> QED
    BY <2>2, RangeIs
<1>6. ASSUME NEW j \in 1..n, j # k
      PROVE  \E i \in 1..n - 1 : r[i] = s[j] /\ i = (IF j < k THEN j ELSE j - 1)
  <2>1. CASE j < k
    <3>1. j \in 1..n - 1
      BY <1>2, <2>1
    <3> QED
      BY <1>4, <2>1, <3>1
  <2>2. CASE ~(j < k)
    <3>1. j - 1 \in 1..n - 1 /\ ~(j - 1 < k) /\ (j - 1) + 1 = j
      BY <1>2, <1>6, <2>2
    <3> QED
      BY <1>4, <2>2, <3>1
  <2> QED
    BY <2>1, <2>2
<1>7. \A i \in 1..n - 1 : r[i] # e /\ \E j \in 1..n : r[i] = s[j]
  BY <1>1, <1>2, <1>3, <1>4
<1>8. Range(r) = Range(s) \ {e}
  <2>1. \A x : x \in Range(r) <=> \E i \in 1..n - 1 : r[i] = x
    BY <1>4, RangeIs
  <2>2. \A x : x \in Range(s) <=> \E i \in 1..n : s[i] = x
    BY <1>2, RangeIs
  <2>3. ASSUME NEW x \in Range(s), x # e
        PROVE  x \in Range(r)
    BY <1>1, <1>6, <2>1, <2>2, <2>3
  <2>4. ASSUME NEW x \in Range(r)
        PROVE  x \in Range(s) /\ x # e
    BY <1>7, <2>1, <2>2, <2>4
  <2> QED
    BY <2>3, <2>4
<1>9. ASSUME NEW f, NEW g, f # e, g # e, Under(s, f, g)
      PROVE  Under(r, f, g)
  <2>1. PICK i, j \in 1..n : i < j /\ s[i] = f /\ s[j] = g
    BY <1>2, <1>9 DEF Under
  <2>2. i # k /\ j # k
    BY <1>1, <1>9, <2>1
  <2>3. PICK a \in 1..n - 1 : r[a] = f /\ a = (IF i < k THEN i ELSE i - 1)
    BY <1>6, <2>1, <2>2
  <2>4. PICK b \in 1..n - 1 : r[b] = g /\ b = (IF j < k THEN j ELSE j - 1)
    BY <1>6, <2>1, <2>2
  <2>5. a < b
    BY <1>2, <2>1, <2>2, <2>3, <2>4
  <2> QED
    BY <1>4, <2>3, <2>4, <2>5 DEF Under
<1>10. ASSUME s[1] # e
       PROVE  r # <<>> /\ r[1] = s[1]
  <2>1. k # 1 /\ n > 1
    BY <1>1, <1>2, <1>10
  <2>2. r[1] = s[1] /\ Len(r) > 0
    BY <1>2, <1>4, <2>1
  <2> QED
    BY <1>4, <2>2
<1> QED
  BY <1>4, <1>5, <1>8, <1>9, <1>10

(* An element put in front of a sequence comes before all others.          *)
LEMMA ConsIndex ==
  ASSUME NEW X, NEW s \in Seq(X), NEW e \in X
  PROVE  /\ Cons(e, s) \in Seq(X) /\ Len(Cons(e, s)) = Len(s) + 1
         /\ Len(s) \in Nat /\ Cons(e, s)[1] = e
         /\ \A i \in 1..Len(s) : Cons(e, s)[i + 1] = s[i]
BY DEF Cons

LEMMA ConsFacts ==
  ASSUME NEW X, NEW s \in Seq(X), NEW e \in X
  PROVE  LET r == Cons(e, s) IN
         /\ r \in Seq(X)
         /\ \A x : x \in Range(r) <=> x = e \/ x \in Range(s)
         /\ IsInjective(s) /\ e \notin Range(s) => IsInjective(r)
         /\ \A f, g : Under(s, f, g) => Under(r, f, g)
         /\ \A g \in Range(s) : Under(r, e, g)
<1> DEFINE r == Cons(e, s)
<1>1. PICK n \in Nat : n = Len(s)
  BY ConsIndex
<1>2. /\ r \in Seq(X) /\ Len(r) = n + 1 /\ r[1] = e
      /\ \A i \in 1..n : r[i + 1] = s[i]
  <2>1. /\ Cons(e, s) \in Seq(X) /\ Len(Cons(e, s)) = Len(s) + 1
        /\ Cons(e, s)[1] = e
    BY ConsIndex
  <2>2. \A i \in 1..Len(s) : Cons(e, s)[i + 1] = s[i]
    BY ConsIndex
  <2> QED
    BY <1>1, <2>1, <2>2 DEF r
<1> HIDE DEF r
<1>3. \A i \in 1..n + 1 : i = 1 \/ \E j \in 1..n : i = j + 1 /\ r[i] = s[j]
  <2> SUFFICES ASSUME NEW i \in 1..n + 1, i # 1
               PROVE  \E j \in 1..n : i = j + 1 /\ r[i] = s[j]
    OBVIOUS
  <2>1. i - 1 \in 1..n /\ i = (i - 1) + 1
    BY <1>1
  <2> QED
    BY <1>2, <2>1
<1>4. /\ \A x : x \in Range(r) <=> \E i \in 1..n + 1 : r[i] = x
      /\ \A x : x \in Range(s) <=> \E i \in 1..n : s[i] = x
  <2>1. \A x : x \in Range(r) <=> \E i \in 1..Len(r) : r[i] = x
    <3>1. DOMAIN r = 1..Len(r)
      BY <1>2
    <3> QED
      BY <3>1 DEF Range
  <2>2. \A x : x \in Range(s) <=> \E i \in 1..Len(s) : s[i] = x
    BY RangeIs
  <2> QED
    BY <1>1, <1>2, <2>1, <2>2
<1>5. /\ 1 \in 1..n + 1 /\ \A i \in 1..n : i + 1 \in 1..n + 1 /\ 1 < i + 1
      /\ \A i, j \in 1..n : i < j => i + 1 < j + 1
  BY <1>1
<1>6. \A x : x \in Range(r) <=> x = e \/ x \in Range(s)
  BY <1>2, <1>3, <1>4, <1>5
<1>7. ASSUME IsInjective(s), e \notin Range(s)
      PROVE  IsInjective(r)
  <2>1. \A i, j \in 1..n : s[i] = s[j] => i = j
    BY <1>1, <1>7, RangeIs
  <2>4. \A k \in 1..n : s[k] # e
    BY <1>4, <1>7
  <2>2. \A i, j \in 1..n + 1 : r[i] = r[j] => i = j
    BY <1>2, <1>3, <2>1, <2>4
  <2>3. DOMAIN r = 1..n + 1
    BY <1>2
  <2> QED
    BY <2>2, <2>3 DEF IsInjective
<1>8. ASSUME NEW f, NEW g, Under(s, f, g)
      PROVE  Under(r, f, g)
  <2>1. PICK i, j \in 1..n : i < j /\ s[i] = f /\ s[j] = g
    BY <1>1, <1>8 DEF Under
  <2>2. /\ i + 1 \in 1..n + 1 /\ j + 1 \in 1..n + 1 /\ i + 1 < j + 1
        /\ r[i + 1] = f /\ r[j + 1] = g
    BY <1>2, <1>5, <2>1
  <2> QED
    BY <1>2, <2>2 DEF Under
<1>9. \A g \in Range(s) : Under(r, e, g)
  BY <1>2, <1>4, <1>5 DEF Under
<1> QED
  BY <1>1, <1>2, <1>6, <1>7, <1>8, <1>9 DEF r

(* ... and one taken from its front.                                       *)
LEMMA TailFacts ==
  ASSUME NEW X, NEW s \in Seq(X), s # <<>>, NEW r, r = Tail(s)
  PROVE  /\ r \in Seq(X) /\ Len(r) = Len(s) - 1
         /\ \A i \in 1..Len(r) : r[i] = s[i + 1]
         /\ Head(s) = s[1] /\ s[1] \in X /\ s[1] \in Range(s) /\ Len(s) > 0
         /\ \A x : x \in Range(s) <=> x = s[1] \/ x \in Range(r)
         /\ IsInjective(s) => IsInjective(r) /\ s[1] \notin Range(r)
         /\ \A f, g : f # s[1] /\ g # s[1] /\ Under(s, f, g) => Under(r, f, g)
<1>1. PICK n \in Nat : n = Len(s) /\ n > 0
  BY LenProperties, EmptySeq
<1>2. /\ r \in Seq(X) /\ Len(r) = n - 1 /\ Head(s) = s[1] /\ s[1] \in X
      /\ \A i \in 1..n - 1 : r[i] = s[i + 1]
  BY <1>1
<1>3. /\ \A x : x \in Range(r) <=> \E i \in 1..n - 1 : r[i] = x
      /\ \A x : x \in Range(s) <=> \E i \in 1..n : s[i] = x
  <2>1. \A x : x \in Range(r) <=> \E i \in 1..Len(r) : r[i] = x
    <3>1. DOMAIN r = 1..Len(r)
      BY <1>2
    <3> QED
      BY <3>1 DEF Range
  <2>2. \A x : x \in Range(s) <=> \E i \in 1..Len(s) : s[i] = x
    BY RangeIs
  <2> QED
    BY <1>1, <1>2, <2>1, <2>2
<1>4. /\ 1 \in 1..n /\ \A i \in 1..n - 1 : i + 1 \in 1..n /\ i + 1 # 1
      /\ \A i, j \in 1..n - 1 : i + 1 = j + 1 => i = j
  BY <1>1
<1>5. \A i \in 1..n : i = 1 \/ \E j \in 1..n - 1 : i = j + 1 /\ s[i] = r[j]
  <2> SUFFICES ASSUME NEW i \in 1..n, i # 1
               PROVE  \E j \in 1..n - 1 : i = j + 1 /\ s[i] = r[j]
    OBVIOUS
  <2>1. i - 1 \in 1..n - 1 /\ i = (i - 1) + 1
    BY <1>1
  <2> QED
    BY <1>2, <2>1
<1>6. ASSUME NEW x
      PROVE  x \in Range(s) <=> x = s[1] \/ x \in Range(r)
  <2>1. ASSUME x \in Range(s)
        PROVE  x = s[1] \/ x \in Range(r)
    BY <1>3, <1>5, <2>1
  <2>2. ASSUME x \in Range(r)
        PROVE  x \in Range(s)
    <3>1. PICK i \in 1..n - 1 : r[i] = x
      BY <1>3, <2>2
    <3>2. i + 1 \in 1..n /\ s[i + 1] = x
      BY <1>2, <1>4, <3>1
    <3> QED
      BY <1>3, <3>2
  <2>3. s[1] \in Range(s)
    BY <1>3, <1>4
  <2> QED
    BY <2>1, <2>2, <2>3
<1>7. ASSUME IsInjective(s)
      PROVE  IsInjective(r) /\ s[1] \notin Range(r)
  <2>1. \A i, j \in 1..n : s[i] = s[j] => i = j
    BY <1>1, <1>7, RangeIs
  <2>2. \A i, j \in 1..n - 1 : r[i] = r[j] => i = j
    BY <1>2, <1>4, <2>1
  <2>3. s[1] \notin Range(r)
    BY <1>2, <1>3, <1>4, <2>1
  <2> QED
    BY <1>2, <2>2, <2>3, RangeIs
<1>8. ASSUME NEW f, NEW g, f # s[1], g # s[1], Under(s, f, g)
      PROVE  Under(r, f, g)
  <2>1. PICK i, j \in 1..n : i < j /\ s[i] = f /\ s[j] = g
    BY <1>1, <1>8 DEF Under
  <2>2. PICK a \in 1..n - 1 : i = a + 1 /\ f = r[a]
    BY <1>5, <1>8, <2>1
  <2>3. PICK b \in 1..n - 1 : j = b + 1 /\ g = r[b]
    BY <1>5, <1>8, <2>1
  <2>4. a < b
    BY <1>1, <2>1, <2>2, <2>3
  <2> QED
    BY <1>2, <2>2, <2>3, <2>4 DEF Under
<1> QED
  BY <1>1, <1>2, <1>3, <1>4, <1>6, <1>7, <1>8

(* ... and one taken from its end.                                         *)
LEMMA FrontFacts ==
  ASSUME NEW X, NEW s \in Seq(X), s # <<>>, NEW r, r = Front(s)
  PROVE  /\ r \in Seq(X) /\ Len(r) = Len(s) - 1
         /\ Last(s) \in X
         /\ \A x : x \in Range(s) <=> x = Last(s) \/ x \in Range(r)
         /\ IsInjective(s) => IsInjective(r) /\ Last(s) \notin Range(r)
<1>1. PICK n \in Nat : n = Len(s) /\ n > 0
  BY LenProperties, EmptySeq
<1>2. /\ r \in Seq(X) /\ Len(r) = n - 1 /\ \A i \in 1..n - 1 : r[i] = s[i]
  <2>1. \A i \in 1..n - 1 : s[i] \in X
    BY <1>1
  <2>2. n - 1 \in Int /\ 1 \in Int
    BY <1>1
  <2>3. r = SubSeq(s, 1, n - 1)
    BY <1>1 DEF Front
  <2>4. /\ r \in Seq(X) /\ Len(r) = (IF 1 <= n - 1 THEN (n - 1) - 1 + 1 ELSE 0)
        /\ \A i \in 1..(n - 1) - 1 + 1 : r[i] = s[1 + i - 1]
    BY <2>1, <2>2, <2>3, SubSeqProperties
  <2> QED
    BY <1>1, <2>4
<1>3. Last(s) = s[n] /\ Last(s) \in X
  BY <1>1 DEF Last
<1>4. /\ \A x : x \in Range(r) <=> \E i \in 1..n - 1 : r[i] = x
      /\ \A x : x \in Range(s) <=> \E i \in 1..n : s[i] = x
  <2>1. \A x : x \in Range(r) <=> \E i \in 1..Len(r) : r[i] = x
    <3>1. DOMAIN r = 1..Len(r)
      BY <1>2
    <3> QED
      BY <3>1 DEF Range
  <2>2. \A x : x \in Range(s) <=> \E i \in 1..Len(s) : s[i] = x
    BY RangeIs
  <2> QED
    BY <1>1, <1>2, <2>1, <2>2
<1>5. \A i : i \in 1..n <=> i = n \/ i \in 1..n - 1
  BY <1>1
<1>6. \A i \in 1..n - 1 : i # n
  BY <1>1
<1>7. \A x : x \in Range(s) <=> x = Last(s) \/ x \in Range(r)
  BY <1>2, <1>3, <1>4, <1>5
<1>8. ASSUME IsInjective(s)
      PROVE  IsInjective(r) /\ Last(s) \notin Range(r)
  <2>1. \A i, j \in 1..n : s[i] = s[j] => i = j
    BY <1>1, <1>8, RangeIs
  <2>2. \A i, j \in 1..n - 1 : r[i] = r[j] => i = j
    BY <1>2, <1>5, <2>1
  <2>3. Last(s) \notin Range(r)
    BY <1>2, <1>3, <1>4, <1>5, <1>6, <2>1
  <2> QED
    BY <1>2, <2>2, <2>3, RangeIs
<1> QED
  BY <1>1, <1>2, <1>3, <1>7, <1>8

LEMMA UnderFacts ==
  ASSUME NEW X, NEW s \in Seq(X), IsInjective(s), NEW f, NEW e, Under(s, f, e)
  PROVE  /\ f \in Range(s) /\ e \in Range(s) /\ f # e /\ e # s[1]
         /\ \A g : Under(s, e, g) => Under(s, f, g)
<1>1. PICK n \in Nat : n = Len(s)
  BY LenProperties
<1>2. PICK i, j \in 1..n : i < j /\ s[i] = f /\ s[j] = e
  BY <1>1 DEF Under
<1>3. \A a, b \in 1..n : s[a] = s[b] => a = b
  BY <1>1, RangeIs
<1>4. f # e /\ e # s[1] /\ f \in Range(s) /\ e \in Range(s)
  BY <1>1, <1>2, <1>3, RangeIs
<1>5. ASSUME NEW g, Under(s, e, g)
      PROVE  Under(s, f, g)
  <2>1. PICK a, b \in 1..n : a < b /\ s[a] = e /\ s[b] = g
    BY <1>1, <1>5 DEF Under
  <2>2. i < b
    BY <1>1, <1>2, <1>3, <2>1
  <2> QED
    BY <1>1, <1>2, <2>1, <2>2 DEF Under
<1> QED
  BY <1>4, <1>5

(* An element changed for another leaves a set as large as it was.         *)
LEMMA SwapCard ==
  ASSUME NEW S, IsFiniteSet(S), NEW a \in S, NEW b, b \notin S
  PROVE  LET T == (S \ {a}) \cup {b} IN
           IsFiniteSet(T) /\ Cardinality(T) = Cardinality(S)
<1>1. /\ IsFiniteSet(S \ {a}) /\ Cardinality(S \ {a}) = Cardinality(S) - 1
  BY FS_RemoveElement
<1>2. b \notin S \ {a} /\ Cardinality(S) \in Nat
  BY FS_CardinalityType
<1>3. /\ IsFiniteSet((S \ {a}) \cup {b})
      /\ Cardinality((S \ {a}) \cup {b}) = Cardinality(S \ {a}) + 1
  BY <1>1, <1>2, FS_AddElement
<1> QED
  BY <1>1, <1>2, <1>3

-----------------------------------------------------------------------------
(* The invariant. *)

Size == rt.pool_buffer_size

Destroys(f) == f.step \in {"clear", "uncause", "end"}

(* f has given its reference to its cause to the y_unref that it calls.    *)
Uncausing(f) ==
  \E t \in Threads : \E i \in 1..Len(stack[t]) :
    stack[t][i].error = f /\ stack[t][i].step = "uncause"

Owns(f, e) == life[f] = "live" /\ cause[f] = e /\ ~Uncausing(f)

Unrefs(t, e) == At(t, "unref") /\ Top(t).error = e

(* The references that clients hold,                                       *)
Held(e) ==
  {<<"location", t>> : t \in {u \in Threads : location[u] = e}}
    \cup {<<"kept", t>> : t \in {u \in Threads : kept[u] = e}}

(* ... and those that other errors and calls do.                           *)
Used(e) ==
  {<<"cause", f>> : f \in {g \in Errors : Owns(g, e)}}
    \cup {<<"unref", t>> : t \in {u \in Threads : Unrefs(u, e)}}

Owners(e) == Held(e) \cup Used(e)

(* The count of a live error is the number of its owners.  Nothing that    *)
(* the library follows leads to an error that is gone, nor do the clients' *)
(* pointers while the runtime is there.                                    *)
Counted(e) ==
  /\ e \in Live => /\ IsFiniteSet(Owners(e))
                   /\ refcount[e] = Cardinality(Owners(e))
  /\ e \notin Live => Used(e) = {} /\ (phase = "running" => Held(e) = {})

CountInv == \A e \in Errors : Counted(e)

(* A call below another one waits for it in y_Error_clear.  The error that *)
(* a call destroys has no owner left, unless it is the pool's newest child *)
(* and cleared because the pool goes.                                      *)
FrameOK(t, i) ==
  LET f == stack[t][i] IN
  /\ f.error \in Live
  /\ i > 1 => f.step = "uncause"
  /\ f.step = "end" => cause[f.error] = NULL
  /\ f.step = "unref" => ~f.last
  /\ Destroys(f) /\ ~f.last => refcount[f.error] = 0
  /\ f.last => /\ t = Main /\ phase = "walking" /\ i = Len(stack[t])
               /\ children # <<>> /\ f.error = children[1]

FrameInv == \A t \in Threads : \A i \in 1..Len(stack[t]) : FrameOK(t, i)

(* Down a cascade the errors are older, if no pool is used twice.          *)
ChainInv ==
  Size = 0 =>
    \A t \in Threads : \A i, j \in 1..Len(stack[t]) : i < j =>
      Under(children, stack[t][j].error, stack[t][i].error)

(* No error is destroyed by two calls.                                     *)
OnceInv ==
  \A t, u \in Threads : \A i \in 1..Len(stack[t]), j \in 1..Len(stack[u]) :
    Destroys(stack[t][i]) /\ Destroys(stack[u][j])
      /\ stack[t][i].error = stack[u][j].error => t = u /\ i = j

PhaseInv ==
  /\ phase \in {"orphaned", "done"} => AllIdle
  /\ phase = "walking" =>
       /\ \A t \in Threads \ {Main} : Idle(t)
       /\ ~Idle(Main) => stack[Main][Len(stack[Main])].last
       /\ Size # 0 =>
            /\ \A e \in Live : cause[e] = NULL
            /\ \A i \in 1..Len(stack[Main]) :
                 stack[Main][i].step \in {"clear", "end"}
  /\ ~rt.allocated => phase # "running" /\ Live = {}

(* Every error has its pool; the pools that are kept have none.            *)
PoolInv ==
  /\ Live \subseteq Range(children)
  /\ phase \in {"running", "orphaned"} =>
       /\ IsInjective(buffer)
       /\ Range(buffer) \subseteq Range(children)
       /\ Range(buffer) \cap Live = {}

(* A cause is older than the error that owns it: so there are no cycles,   *)
(* and if no pool is used twice a cause comes after its error among the    *)
(* children.                                                               *)
OrderInv ==
  /\ Size = 0 =>
       \A f, e \in Errors : Owns(f, e) => Under(children, f, e)
  /\ \A S \in SUBSET Live :
       S # {} => \E e \in S : \A f \in S : ~Owns(f, e)

(* An error without owners is being destroyed.                             *)
Kept(e) ==
  \/ Owners(e) # {}
  \/ \E t \in Threads : \E i \in 1..Len(stack[t]) :
       stack[t][i].error = e /\ Destroys(stack[t][i])

KeptInv == \A e \in Live : Kept(e)

ErrorInv ==
  /\ TypeOK /\ CountInv /\ FrameInv /\ ChainInv /\ OnceInv
  /\ PhaseInv /\ PoolInv /\ OrderInv /\ KeptInv

-----------------------------------------------------------------------------
(* Owners. *)

LEMMA OwnersAre ==
  ASSUME NEW e
  PROVE  /\ \A t : <<"location", t>> \in Owners(e)
                     <=> t \in Threads /\ location[t] = e
         /\ \A t : <<"kept", t>> \in Owners(e) <=> t \in Threads /\ kept[t] = e
         /\ \A t : <<"unref", t>> \in Owners(e)
                     <=> t \in Threads /\ Unrefs(t, e)
         /\ \A f : <<"cause", f>> \in Owners(e) <=> f \in Errors /\ Owns(f, e)
         /\ \A x \in Owners(e) : \E k : x \in {<<"location", k>>, <<"kept", k>>,
                                              <<"unref", k>>, <<"cause", k>>}
BY DEF Owners, Held, Used

LEMMA OwnersAreNext ==
  ASSUME NEW e
  PROVE  /\ \A t : <<"location", t>> \in Owners(e)'
                     <=> t \in Threads /\ location'[t] = e
         /\ \A t : <<"kept", t>> \in Owners(e)'
                     <=> t \in Threads /\ kept'[t] = e
         /\ \A t : <<"unref", t>> \in Owners(e)'
                     <=> t \in Threads /\ Unrefs(t, e)'
         /\ \A f : <<"cause", f>> \in Owners(e)'
                     <=> f \in Errors /\ Owns(f, e)'
         /\ \A x \in Owners(e)' :
              \E k : x \in {<<"location", k>>, <<"kept", k>>,
                            <<"unref", k>>, <<"cause", k>>}
BY DEF Owners, Held, Used

(* The references to e that no difference of the two states in D is about. *)
LEMMA OwnersBut ==
  ASSUME NEW e, NEW D,
         \A u \in Threads :
           /\ <<"location", u>> \in D \/ (location'[u] = e <=> location[u] = e)
           /\ <<"kept", u>> \in D \/ (kept'[u] = e <=> kept[u] = e)
           /\ <<"unref", u>> \in D \/ (Unrefs(u, e)' <=> Unrefs(u, e)),
         \A f \in Errors : <<"cause", f>> \in D \/ (Owns(f, e)' <=> Owns(f, e))
  PROVE  \A x : x \notin D => (x \in Owners(e)' <=> x \in Owners(e))
<1>1. ASSUME NEW x \in Owners(e), x \notin D
      PROVE  x \in Owners(e)'
  <2>1. PICK k : x \in {<<"location", k>>, <<"kept", k>>,
                        <<"unref", k>>, <<"cause", k>>}
    BY OwnersAre
  <2>2. CASE x = <<"location", k>>
    BY <1>1, <2>2, OwnersAre, OwnersAreNext
  <2>3. CASE x = <<"kept", k>>
    BY <1>1, <2>3, OwnersAre, OwnersAreNext
  <2>4. CASE x = <<"unref", k>>
    BY <1>1, <2>4, OwnersAre, OwnersAreNext
  <2>5. CASE x = <<"cause", k>>
    BY <1>1, <2>5, OwnersAre, OwnersAreNext
  <2> QED
    BY <2>1, <2>2, <2>3, <2>4, <2>5
<1>2. ASSUME NEW x \in Owners(e)', x \notin D
      PROVE  x \in Owners(e)
  <2>1. PICK k : x \in {<<"location", k>>, <<"kept", k>>,
                        <<"unref", k>>, <<"cause", k>>}
    BY OwnersAreNext
  <2>2. CASE x = <<"location", k>>
    BY <1>2, <2>2, OwnersAre, OwnersAreNext
  <2>3. CASE x = <<"kept", k>>
    BY <1>2, <2>3, OwnersAre, OwnersAreNext
  <2>4. CASE x = <<"unref", k>>
    BY <1>2, <2>4, OwnersAre, OwnersAreNext
  <2>5. CASE x = <<"cause", k>>
    BY <1>2, <2>5, OwnersAre, OwnersAreNext
  <2> QED
    BY <2>1, <2>2, <2>3, <2>4, <2>5
<1> QED
  BY <1>1, <1>2

(* An error whose owners stay.                                             *)
LEMMA OwnersStay ==
  ASSUME NEW e,
         \A u \in Threads : /\ location'[u] = e <=> location[u] = e
                            /\ kept'[u] = e <=> kept[u] = e
                            /\ Unrefs(u, e)' <=> Unrefs(u, e),
         \A f \in Errors : Owns(f, e)' <=> Owns(f, e)
  PROVE  /\ Owners(e)' = Owners(e) /\ Held(e)' = Held(e) /\ Used(e)' = Used(e)
BY DEF Owners, Held, Used

LEMMA CountedStays ==
  ASSUME NEW e, Counted(e), Owners(e)' = Owners(e),
         Held(e)' = Held(e), Used(e)' = Used(e),
         e \in Live' <=> e \in Live, refcount'[e] = refcount[e],
         phase' = "running" => phase = "running"
  PROVE  Counted(e)'
BY DEF Counted

(* A reference that changes hands.                                         *)
LEMMA OwnersSwap ==
  ASSUME NEW e \in Errors, e \in Live, e \in Live', Counted(e), NEW a, NEW b,
         a \in Owners(e), a \notin Owners(e)',
         b \notin Owners(e), b \in Owners(e)', NEW D, D = {a, b},
         \A u \in Threads :
           /\ <<"location", u>> \in D \/ (location'[u] = e <=> location[u] = e)
           /\ <<"kept", u>> \in D \/ (kept'[u] = e <=> kept[u] = e)
           /\ <<"unref", u>> \in D \/ (Unrefs(u, e)' <=> Unrefs(u, e)),
         \A f \in Errors : <<"cause", f>> \in D \/ (Owns(f, e)' <=> Owns(f, e)),
         refcount'[e] = refcount[e]
  PROVE  Counted(e)' /\ Owners(e)' # {}
<1>1. Owners(e)' = (Owners(e) \ {a}) \cup {b}
  <2>1. \A x : x \notin D => (x \in Owners(e)' <=> x \in Owners(e))
    BY OwnersBut
  <2> QED
    BY <2>1
<1>2. PICK T : T = (Owners(e) \ {a}) \cup {b}
  OBVIOUS
<1>3. IsFiniteSet(T) /\ Cardinality(T) = Cardinality(Owners(e))
  BY <1>2, SwapCard DEF Counted
<1> QED
  BY <1>1, <1>2, <1>3 DEF Counted

LEMMA OwnersGrow ==
  ASSUME NEW e \in Errors, e \in Live, e \in Live', Counted(e), NEW b,
         b \notin Owners(e), b \in Owners(e)', NEW D, D = {b},
         \A u \in Threads :
           /\ <<"location", u>> \in D \/ (location'[u] = e <=> location[u] = e)
           /\ <<"kept", u>> \in D \/ (kept'[u] = e <=> kept[u] = e)
           /\ <<"unref", u>> \in D \/ (Unrefs(u, e)' <=> Unrefs(u, e)),
         \A f \in Errors : <<"cause", f>> \in D \/ (Owns(f, e)' <=> Owns(f, e)),
         refcount'[e] = refcount[e] + 1
  PROVE  Counted(e)' /\ Owners(e)' # {}
<1>1. Owners(e)' = Owners(e) \cup {b}
  <2>1. \A x : x \notin D => (x \in Owners(e)' <=> x \in Owners(e))
    BY OwnersBut
  <2> QED
    BY <2>1
<1>2. PICK T : T = Owners(e) \cup {b}
  OBVIOUS
<1>3. IsFiniteSet(T) /\ Cardinality(T) = Cardinality(Owners(e)) + 1
  BY <1>2, FS_AddElement DEF Counted
<1> QED
  BY <1>1, <1>2, <1>3 DEF Counted

LEMMA OwnersShrink ==
  ASSUME NEW e \in Errors, e \in Live, e \in Live', Counted(e), NEW a,
         a \in Owners(e), a \notin Owners(e)', NEW D, D = {a},
         \A u \in Threads :
           /\ <<"location", u>> \in D \/ (location'[u] = e <=> location[u] = e)
           /\ <<"kept", u>> \in D \/ (kept'[u] = e <=> kept[u] = e)
           /\ <<"unref", u>> \in D \/ (Unrefs(u, e)' <=> Unrefs(u, e)),
         \A f \in Errors : <<"cause", f>> \in D \/ (Owns(f, e)' <=> Owns(f, e)),
         refcount'[e] = refcount[e] - 1
  PROVE  Counted(e)' /\ (refcount'[e] # 0 => Owners(e)' # {})
<1>1. Owners(e)' = Owners(e) \ {a}
  <2>1. \A x : x \notin D => (x \in Owners(e)' <=> x \in Owners(e))
    BY OwnersBut
  <2> QED
    BY <2>1
<1>2. PICK T : T = Owners(e) \ {a}
  OBVIOUS
<1>3. IsFiniteSet(T) /\ Cardinality(T) = Cardinality(Owners(e)) - 1
  BY <1>2, FS_RemoveElement DEF Counted
<1>4. T = {} => Cardinality(T) = 0
  BY FS_EmptySet
<1> QED
  BY <1>1, <1>2, <1>3, <1>4 DEF Counted

(* An error that has an owner is there and is not destroyed, except that   *)
(* its pool may be about to go.                                            *)
LEMMA Owned ==
  ASSUME ErrorInv, NEW e \in Errors,
         \/ Used(e) # {}
         \/ phase = "running" /\ Held(e) # {}
  PROVE  /\ e \in Live /\ Owners(e) # {} /\ refcount[e] \in Nat
         /\ refcount[e] > 0
         /\ \A t \in Threads : \A i \in 1..Len(stack[t]) :
              stack[t][i].error = e /\ Destroys(stack[t][i]) => stack[t][i].last
<1>1. Counted(e) /\ refcount[e] \in Nat
  BY DEF ErrorInv, CountInv, TypeOK
<1>2. e \in Live /\ Owners(e) # {}
  BY <1>1 DEF Counted, Owners
<1>3. refcount[e] > 0
  <2>1. Cardinality(Owners(e)) # 0
    BY <1>1, <1>2, FS_EmptySet DEF Counted
  <2> QED
    BY <1>1, <1>2, <2>1 DEF Counted
<1>4. ASSUME NEW t \in Threads, NEW i \in 1..Len(stack[t]),
             stack[t][i].error = e, Destroys(stack[t][i]), ~stack[t][i].last
      PROVE  FALSE
  BY <1>1, <1>3, <1>4 DEF ErrorInv, FrameInv, FrameOK
<1> QED
  BY <1>1, <1>2, <1>3, <1>4

LEMMA Unowned ==
  ASSUME ErrorInv, NEW e \in Live, refcount[e] = 0
  PROVE  Owners(e) = {}
<1>1. e \in Errors /\ Counted(e)
  BY DEF ErrorInv, CountInv, Live
<1> QED
  BY <1>1, FS_EmptySet DEF Counted

(* While the runtime is there, no call destroys an error that a client     *)
(* still holds.                                                            *)
LEMMA HeldIsLive ==
  ASSUME ErrorInv, phase = "running", NEW t \in Threads, NEW e \in Errors,
         location[t] = e \/ kept[t] = e
  PROVE  /\ e \in Live /\ Owners(e) # {} /\ ~Uncausing(e)
         /\ \A u \in Threads : \A i \in 1..Len(stack[u]) :
              stack[u][i].error = e => ~Destroys(stack[u][i])
<1>1. Held(e) # {}
  BY DEF Held
<1>2. /\ e \in Live /\ Owners(e) # {}
      /\ \A u \in Threads : \A i \in 1..Len(stack[u]) :
           stack[u][i].error = e /\ Destroys(stack[u][i]) => stack[u][i].last
  BY <1>1, Owned
<1>3. \A u \in Threads : \A i \in 1..Len(stack[u]) : ~stack[u][i].last
  BY DEF ErrorInv, FrameInv, FrameOK
<1> QED
  BY <1>2, <1>3 DEF Uncausing, Destroys

-----------------------------------------------------------------------------
(* Stacks. *)

LEMMA TopFacts ==
  ASSUME TypeOK, NEW t \in Threads, ~Idle(t)
  PROVE  /\ stack[t] \in Seq(Frames) /\ Len(stack[t]) \in Nat
         /\ Len(stack[t]) > 0 /\ 1 \in 1..Len(stack[t])
         /\ Top(t) = stack[t][1] /\ Top(t) \in Frames
         /\ Top(t).error \in Errors
<1>1. stack[t] \in Seq(Frames) /\ stack[t] # <<>>
  BY DEF TypeOK, Idle
<1>2. PICK n \in Nat : n = Len(stack[t]) /\ n > 0
  BY <1>1, LenProperties, EmptySeq
<1>3. Head(stack[t]) = stack[t][1] /\ stack[t][1] \in Frames
  BY <1>1, <1>2
<1> QED
  BY <1>1, <1>2, <1>3 DEF Top, Frames

LEMMA ContinueFacts ==
  ASSUME TypeOK, NEW t \in Threads, ~Idle(t),
         NEW step \in {"unref", "clear", "uncause", "end"}, Continue(t, step)
  PROVE  /\ stack' \in [Threads -> Seq(Frames)]
         /\ \A u \in Threads : u # t => stack'[u] = stack[u]
         /\ Len(stack'[t]) = Len(stack[t]) /\ stack'[t] # <<>>
         /\ stack'[t][1].step = step
         /\ stack'[t][1].error = Top(t).error
         /\ stack'[t][1].last = Top(t).last
         /\ \A i \in 1..Len(stack[t]) : i # 1 => stack'[t][i] = stack[t][i]
<1>1. /\ stack[t] \in Seq(Frames) /\ Len(stack[t]) \in Nat
      /\ Len(stack[t]) > 0 /\ Top(t) = stack[t][1] /\ Top(t) \in Frames
  BY TopFacts
<1>2. PICK f : f = [Top(t) EXCEPT !.step = step]
  OBVIOUS
<1>3. /\ f \in Frames /\ f.step = step /\ f.error = Top(t).error
      /\ f.last = Top(t).last
  BY <1>1, <1>2 DEF Frames
<1>4. PICK s : s = [stack[t] EXCEPT ![1] = f]
  OBVIOUS
<1>5. s \in Seq(Frames) /\ Len(s) = Len(stack[t])
  BY <1>1, <1>3, <1>4, ExceptSeq
<1>6. s[1] = f /\ \A i \in 1..Len(stack[t]) : i # 1 => s[i] = stack[t][i]
  BY <1>1, <1>4
<1>7. stack' = [stack EXCEPT ![t] = s]
  BY <1>1, <1>2, <1>4 DEF Continue
<1>8. stack \in [Threads -> Seq(Frames)]
  BY DEF TypeOK
<1>9. s # <<>>
  BY <1>1, <1>5
<1> QED
  BY <1>3, <1>5, <1>6, <1>7, <1>8, <1>9

LEMMA PopFacts ==
  ASSUME TypeOK, NEW t \in Threads, ~Idle(t), Pop(t)
  PROVE  /\ stack' \in [Threads -> Seq(Frames)]
         /\ \A u \in Threads : u # t => stack'[u] = stack[u]
         /\ Len(stack'[t]) \in Nat /\ Len(stack[t]) = Len(stack'[t]) + 1
         /\ \A i \in 1..Len(stack'[t]) :
              /\ stack'[t][i] = stack[t][i + 1]
              /\ i + 1 \in 1..Len(stack[t])
         /\ \A i \in 1..Len(stack[t]) : i # 1 =>
              \E j \in 1..Len(stack'[t]) : i = j + 1
<1>1. stack[t] \in Seq(Frames) /\ stack[t] # <<>>
  BY DEF TypeOK, Idle
<1>2. PICK s \in Seq(Frames) : /\ s = Tail(stack[t])
                               /\ Len(s) = Len(stack[t]) - 1
                               /\ \A i \in 1..Len(s) : s[i] = stack[t][i + 1]
  BY <1>1, HeadTailProperties
<1>3. PICK n \in Nat : n = Len(s) /\ Len(stack[t]) = n + 1
  <2>1. PICK m \in Nat : m = Len(stack[t])
    BY <1>1, LenProperties
  <2>2. PICK n \in Nat : n = Len(s)
    BY <1>2, LenProperties
  <2>3. m = n + 1
    BY <1>2, <2>1, <2>2
  <2> QED
    BY <2>1, <2>2, <2>3
<1>4. stack' = [stack EXCEPT ![t] = s] /\ stack \in [Threads -> Seq(Frames)]
  BY <1>2 DEF Pop, TypeOK
<1>5. stack'[t] = s /\ \A u \in Threads : u # t => stack'[u] = stack[u]
  BY <1>4
<1>6. stack' \in [Threads -> Seq(Frames)]
  BY <1>4
<1>7. ASSUME NEW i \in 1..n + 1, i # 1
      PROVE  \E j \in 1..n : i = j + 1
  <2>1. i - 1 \in 1..n /\ i = (i - 1) + 1
    BY <1>7
  <2> QED
    BY <2>1
<1>8. \A i \in 1..n : i + 1 \in 1..n + 1
  BY <1>3
<1> QED
  BY <1>2, <1>3, <1>5, <1>6, <1>7, <1>8

LEMMA PushFacts ==
  ASSUME TypeOK, NEW t \in Threads, ~Idle(t), NEW c \in Errors,
         Cascade(t, c)
  PROVE  /\ stack' \in [Threads -> Seq(Frames)]
         /\ \A u \in Threads : u # t => stack'[u] = stack[u]
         /\ Len(stack'[t]) = Len(stack[t]) + 1
         /\ stack'[t][1] = Frame(c, "unref")
         /\ stack'[t][2].step = "uncause"
         /\ stack'[t][2].error = Top(t).error
         /\ stack'[t][2].last = Top(t).last
         /\ \A i \in 1..Len(stack[t]) : i # 1 => stack'[t][i + 1] = stack[t][i]
<1>1. /\ stack[t] \in Seq(Frames) /\ Len(stack[t]) \in Nat
      /\ Len(stack[t]) > 0 /\ Top(t) = stack[t][1] /\ Top(t) \in Frames
  BY TopFacts
<1>2. PICK f : f = [Top(t) EXCEPT !.step = "uncause"]
  OBVIOUS
<1>3. /\ f \in Frames /\ f.step = "uncause" /\ f.error = Top(t).error
      /\ f.last = Top(t).last
  BY <1>1, <1>2 DEF Frames
<1>4. PICK s : s = [stack[t] EXCEPT ![1] = f]
  OBVIOUS
<1>5. s \in Seq(Frames) /\ Len(s) = Len(stack[t])
  BY <1>1, <1>3, <1>4, ExceptSeq
<1>6. s[1] = f /\ \A i \in 1..Len(stack[t]) : i # 1 => s[i] = stack[t][i]
  BY <1>1, <1>4
<1>7. PICK g \in Frames : g = Frame(c, "unref")
  BY DEF Frame, Frames
<1> DEFINE r == Cons(g, s)
<1> HIDE DEF r
<1>8. /\ r \in Seq(Frames) /\ Len(r) = Len(s) + 1 /\ r[1] = g
      /\ \A i \in 1..Len(s) : r[i + 1] = s[i]
  <2>1. s \in Seq(Frames) /\ g \in Frames
    BY <1>5
  <2>2. /\ Cons(g, s) \in Seq(Frames) /\ Len(Cons(g, s)) = Len(s) + 1
        /\ Cons(g, s)[1] = g
    BY <2>1, ConsIndex
  <2>3. \A i \in 1..Len(s) : Cons(g, s)[i + 1] = s[i]
    BY <2>1, ConsIndex
  <2> QED
    BY <2>2, <2>3 DEF r
<1>10. stack' = [stack EXCEPT ![t] = r]
  BY <1>1, <1>2, <1>4, <1>7 DEF Cascade, Cons, r
<1>11. stack \in [Threads -> Seq(Frames)]
  BY DEF TypeOK
<1>12. r[2] = f
  <2>1. 1 \in 1..Len(s) /\ 1 + 1 = 2
    BY <1>1, <1>5
  <2> QED
    BY <1>6, <1>8, <2>1
<1>13. stack'[t] = r /\ \A u \in Threads : u # t => stack'[u] = stack[u]
  BY <1>10, <1>11
<1>14. stack' \in [Threads -> Seq(Frames)]
  BY <1>8, <1>10, <1>11
<1> QED
  BY <1>3, <1>5, <1>6, <1>7, <1>8, <1>12, <1>13, <1>14

-----------------------------------------------------------------------------
(* The clients' steps. *)

LEMMA Running ==
  ASSUME ErrorInv, phase = "running"
  PROVE  /\ rt.allocated
         /\ \A u \in Threads : \A i \in 1..Len(stack[u]) :
              ~stack[u][i].last /\ stack[u][i].error \in Live
BY DEF ErrorInv, PhaseInv, FrameInv, FrameOK

LEMMA KeptStays ==
  ASSUME NEW e, Kept(e), Owners(e)' = Owners(e) \/ Owners(e)' # {},
         \A u \in Threads : \A i \in 1..Len(stack[u]) :
           stack[u][i].error = e /\ Destroys(stack[u][i]) =>
             \E j \in 1..Len(stack'[u]) :
               stack'[u][j].error = e /\ Destroys(stack'[u][j])
  PROVE  Kept(e)'
BY DEF Kept, Destroys

(* The pool of a new error is newer than all others, or had none.          *)
LEMMA PoolIsMade ==
  ASSUME ErrorInv, phase = "running", NEW e \in Errors, CreatePool(e)
  PROVE  /\ e \notin Live
         /\ children' \in Seq(Errors) /\ IsInjective(children)'
         /\ Range(children') = Range(children) \cup {e}
         /\ buffer' \in Seq(Errors) /\ Len(buffer') <= Size
         /\ IsInjective(buffer') /\ e \notin Range(buffer')
         /\ Range(buffer') \subseteq Range(buffer)
         /\ \A f, g : Under(children, f, g) => Under(children', f, g)
         /\ Size = 0 => \A g \in Live : Under(children', e, g)
<1>1. /\ children \in Seq(Errors) /\ IsInjective(children)
      /\ buffer \in Seq(Errors) /\ Len(buffer) <= Size /\ Size \in Nat
      /\ Live \subseteq Range(children) /\ IsInjective(buffer)
      /\ Range(buffer) \subseteq Range(children)
      /\ Range(buffer) \cap Live = {}
  BY ErrorAssumption DEF ErrorInv, TypeOK, PoolInv, Size, Runtimes
<1>2. CASE buffer # <<>>
  <2>1. e = Head(buffer) /\ buffer' = Tail(buffer) /\ children' = children
    BY <1>2 DEF CreatePool
  <2>2. PICK b : b = buffer' /\ b = Tail(buffer)
    BY <2>1
  <2>3. /\ b \in Seq(Errors) /\ Len(b) = Len(buffer) - 1 /\ Len(buffer) > 0
        /\ e = buffer[1] /\ e \in Range(buffer) /\ IsInjective(b)
        /\ e \notin Range(b)
        /\ \A x : x \in Range(buffer) <=> x = e \/ x \in Range(b)
    <3>1. PICK s \in Seq(Errors) : s = buffer /\ s # <<>> /\ IsInjective(s)
      BY <1>1, <1>2
    <3>2. /\ b \in Seq(Errors) /\ Len(b) = Len(s) - 1 /\ Head(s) = s[1]
          /\ s[1] \in Range(s) /\ Len(s) > 0
          /\ IsInjective(s) => IsInjective(b) /\ s[1] \notin Range(b)
          /\ \A x : x \in Range(s) <=> x = s[1] \/ x \in Range(b)
      BY <2>2, <3>1, TailFacts
    <3> QED
      BY <2>1, <3>1, <3>2
  <2>4. Len(buffer) \in Nat
    BY <1>1, LenProperties
  <2>5. Size # 0 /\ Len(b) <= Size
    BY <1>1, <2>3, <2>4
  <2>6. IsInjective(children)'
    BY <1>1, <2>1 DEF IsInjective
  <2> QED
    BY <1>1, <2>1, <2>2, <2>3, <2>5, <2>6
<1>3. CASE buffer = <<>>
  <2>1. /\ e \notin Range(children) /\ children' = <<e>> \o children
        /\ buffer' = buffer
    BY <1>3 DEF CreatePool
  <2>2. PICK c : c = children' /\ c = Cons(e, children)
    BY <2>1 DEF Cons
  <2>3. /\ c \in Seq(Errors) /\ IsInjective(c)
        /\ Range(c) = Range(children) \cup {e}
        /\ \A f, g : Under(children, f, g) => Under(c, f, g)
        /\ \A g \in Range(children) : Under(c, e, g)
    <3>1. /\ children \in Seq(Errors) /\ IsInjective(children)
          /\ e \notin Range(children) /\ c = Cons(e, children)
      BY <1>1, <2>1, <2>2
    <3>2. \A x : x \in Range(c) <=> x = e \/ x \in Range(children)
      BY <3>1, ConsFacts
    <3> QED
      BY <3>1, <3>2, ConsFacts
  <2>4. IsInjective(children)'
    BY <2>2, <2>3 DEF IsInjective
  <2>5. /\ IsInjective(buffer')
        /\ e \notin Range(buffer')
    BY <1>1, <2>1
  <2> QED
    BY <1>1, <2>1, <2>2, <2>3, <2>4, <2>5
<1> QED
  BY <1>2, <1>3

LEMMA ThrowStep ==
  ASSUME ErrorInv, NEW t \in Threads, y_Error_throw(t)
  PROVE  ErrorInv'
<1>1. PICK e \in Errors :
        /\ CreatePool(e)
        /\ life' = [life EXCEPT ![e] = "live"]
        /\ refcount' = [refcount EXCEPT ![e] = 1]
        /\ cause' = [cause EXCEPT ![e] = location[t]]
        /\ location' = [location EXCEPT ![t] = e]
  BY DEF y_Error_throw
<1>2. /\ phase = "running" /\ phase' = phase /\ rt' = rt /\ stack' = stack
      /\ kept' = kept /\ Idle(t) /\ calls' = [calls EXCEPT ![t] = @ + 1]
  BY DEF y_Error_throw, Start
<1>3. /\ TypeOK /\ life \in [Errors -> {"none", "live"}]
      /\ refcount \in [Errors -> Nat]
      /\ cause \in [Errors -> Errors \cup {NULL}]
      /\ location \in [Threads -> Errors \cup {NULL}]
      /\ NULL \notin Errors
  BY ErrorAssumption DEF ErrorInv, TypeOK
<1>4. /\ e \notin Live
      /\ children' \in Seq(Errors) /\ IsInjective(children)'
      /\ Range(children') = Range(children) \cup {e}
      /\ buffer' \in Seq(Errors) /\ Len(buffer') <= Size
      /\ IsInjective(buffer') /\ e \notin Range(buffer')
      /\ Range(buffer') \subseteq Range(buffer)
      /\ \A f, g : Under(children, f, g) => Under(children', f, g)
      /\ Size = 0 => \A g \in Live : Under(children', e, g)
  BY <1>1, <1>2, PoolIsMade
<1>5. Live' = Live \cup {e}
  BY <1>1, <1>3 DEF Live
<1>6. Held(e) = {} /\ Used(e) = {}
  BY <1>2, <1>4 DEF ErrorInv, CountInv, Counted
<1>7. \A u \in Threads : \A i \in 1..Len(stack[u]) :
        /\ ~stack[u][i].last /\ stack[u][i].error \in Live
        /\ stack[u][i].error # e
  BY <1>2, <1>4, Running
<1>8. \A f : (Uncausing(f)' <=> Uncausing(f)) /\ ~Uncausing(e)
  BY <1>2, <1>7 DEF Uncausing
<1>9. \A f \in Errors : \A g :
        Owns(f, g)' <=> IF f = e THEN g = location[t] ELSE Owns(f, g)
  BY <1>1, <1>3, <1>8 DEF Owns
<1>10. \A u, g : Unrefs(u, g)' <=> Unrefs(u, g)
  BY <1>2 DEF Unrefs, At, Top, Idle
<1>11. /\ \A u \in Threads : location[u] # e /\ kept[u] # e /\ ~Unrefs(u, e)
       /\ \A f \in Errors : ~Owns(f, e)
  BY <1>6 DEF Held, Used
<1>12. \A u \in Threads : location'[u] = IF u = t THEN e ELSE location[u]
  BY <1>1, <1>3
<1>13. TypeOK'
  BY <1>1, <1>2, <1>3, <1>4 DEF TypeOK, Size
<1>14. Counted(e)' /\ Owners(e)' # {}
  <2>1. \A x : x \in Owners(e)' <=> x = <<"location", t>>
    BY <1>2, <1>9, <1>10, <1>11, <1>12, OwnersAreNext
  <2>2. Owners(e)' = {<<"location", t>>}
    BY <2>1
  <2>3. /\ IsFiniteSet({<<"location", t>>})
        /\ Cardinality({<<"location", t>>}) = 1
    BY FS_Singleton
  <2>4. refcount'[e] = 1
    BY <1>1, <1>3
  <2> QED
    BY <1>5, <2>2, <2>3, <2>4 DEF Counted
<1>15. ASSUME NEW x \in Errors, x # e
       PROVE  /\ Counted(x)'
              /\ Owners(x)' = Owners(x) \/ Owners(x)' # {}
  <2>1. /\ Counted(x) /\ refcount'[x] = refcount[x]
        /\ x \in Live' <=> x \in Live
    BY <1>1, <1>3, <1>5, <1>15 DEF ErrorInv, CountInv
  <2>2. CASE x = location[t]
    <3>1. x \in Live
      BY <1>2, <2>2, HeldIsLive
    <3>2. PICK a, b, D : /\ a = <<"location", t>> /\ b = <<"cause", e>>
                         /\ D = {a, b}
      OBVIOUS
    <3>3. a \in Owners(x) /\ b \notin Owners(x)
      BY <1>4, <2>2, <3>2, OwnersAre DEF Owns, Live
    <3>4. a \notin Owners(x)' /\ b \in Owners(x)'
      BY <1>9, <1>12, <1>15, <2>2, <3>2, OwnersAreNext
    <3>5. \A u \in Threads :
            /\ <<"location", u>> \in D \/ (location'[u] = x <=> location[u] = x)
            /\ <<"kept", u>> \in D \/ (kept'[u] = x <=> kept[u] = x)
            /\ <<"unref", u>> \in D \/ (Unrefs(u, x)' <=> Unrefs(u, x))
      BY <1>2, <1>10, <1>12, <3>2
    <3>6. \A f \in Errors : <<"cause", f>> \in D \/ (Owns(f, x)' <=> Owns(f, x))
      BY <1>9, <3>2
    <3> QED
      BY <2>1, <3>1, <3>2, <3>3, <3>4, <3>5, <3>6, OwnersSwap
  <2>3. CASE x # location[t]
    <3>1. \A u \in Threads : /\ location'[u] = x <=> location[u] = x
                             /\ kept'[u] = x <=> kept[u] = x
                             /\ Unrefs(u, x)' <=> Unrefs(u, x)
      BY <1>2, <1>10, <1>12, <1>15, <2>3
    <3>2. \A f \in Errors : Owns(f, x)' <=> Owns(f, x)
      BY <1>9, <1>11, <2>3, <1>4 DEF Owns, Live
    <3>3. Owners(x)' = Owners(x) /\ Held(x)' = Held(x) /\ Used(x)' = Used(x)
      BY <3>1, <3>2, OwnersStay
    <3> QED
      BY <1>2, <2>1, <3>3, CountedStays
  <2> QED
    BY <2>2, <2>3
<1>16. CountInv'
  BY <1>14, <1>15 DEF CountInv
<1>17. FrameInv'
  <2> SUFFICES ASSUME NEW u \in Threads, NEW i \in 1..Len(stack[u])
               PROVE  FrameOK(u, i)'
    BY <1>2 DEF FrameInv
  <2>1. FrameOK(u, i)
    BY DEF ErrorInv, FrameInv
  <2>2. /\ stack[u][i].error \in Live' /\ ~stack[u][i].last
        /\ cause'[stack[u][i].error] = cause[stack[u][i].error]
        /\ refcount'[stack[u][i].error] = refcount[stack[u][i].error]
    <3>1. stack[u][i].error \in Errors /\ stack[u][i].error # e
      BY <1>7 DEF Live
    <3> QED
      BY <1>1, <1>3, <1>5, <1>7, <3>1
  <2> QED
    BY <1>2, <2>1, <2>2 DEF FrameOK, Destroys
<1>18. ChainInv'
  BY <1>2, <1>4 DEF ErrorInv, ChainInv, Size
<1>19. OnceInv'
  BY <1>2 DEF ErrorInv, OnceInv, Destroys
<1>20. PhaseInv'
  BY <1>2, Running DEF PhaseInv
<1>21. PoolInv'
  <2>1. /\ Live \subseteq Range(children)
        /\ Range(buffer) \subseteq Range(children)
        /\ Range(buffer) \cap Live = {}
    BY <1>2 DEF ErrorInv, PoolInv
  <2> QED
    BY <1>4, <1>5, <2>1 DEF PoolInv
<1>22. OrderInv'
  <2>1. ASSUME Size = 0, NEW f \in Errors, NEW g \in Errors, Owns(f, g)'
        PROVE  Under(children', f, g)
    <3>1. CASE f = e
      BY <1>2, <1>4, <1>9, <2>1, <3>1, HeldIsLive
    <3>2. CASE f # e
      BY <1>4, <1>9, <2>1, <3>2 DEF ErrorInv, OrderInv
    <3> QED
      BY <3>1, <3>2
  <2>2. ASSUME NEW S \in SUBSET Live', S # {}
        PROVE  \E g \in S : \A f \in S : ~Owns(f, g)'
    <3>1. S \subseteq Errors
      BY <1>5 DEF Live
    <3>2. CASE e \in S
      BY <1>9, <1>11, <3>1, <3>2
    <3>3. CASE e \notin S
      <4>1. S \in SUBSET Live
        BY <1>5, <3>3
      <4>2. PICK g \in S : \A f \in S : ~Owns(f, g)
        BY <2>2, <4>1 DEF ErrorInv, OrderInv
      <4> QED
        BY <1>9, <3>1, <3>3, <4>2
    <3> QED
      BY <3>2, <3>3
  <2> QED
    BY <1>2, <2>1, <2>2 DEF OrderInv, Size, Under
<1>23. KeptInv'
  <2>1. ASSUME NEW x \in Live, x # e
        PROVE  Kept(x)'
    <3>1. Kept(x) /\ (Owners(x)' = Owners(x) \/ Owners(x)' # {})
      BY <1>15, <2>1 DEF ErrorInv, KeptInv, Live
    <3> QED
      BY <1>2, <3>1, KeptStays
  <2>2. Kept(e)'
    BY <1>14 DEF Kept
  <2> QED
    BY <1>5, <2>1, <2>2 DEF KeptInv
<1> QED
  BY <1>13, <1>16, <1>17, <1>18, <1>19, <1>20, <1>21, <1>22, <1>23 DEF ErrorInv

(* A step that only hands out references.                                  *)
LEMMA HandsOut ==
  ASSUME ErrorInv, TypeOK', CountInv', phase = "running", phase' = phase,
         rt' = rt, children' = children, buffer' = buffer, life' = life,
         cause' = cause, stack' = stack,
         \A u \in Threads : \A i \in 1..Len(stack[u]) :
           Destroys(stack[u][i]) =>
             refcount'[stack[u][i].error] = refcount[stack[u][i].error],
         \A x \in Live : Owners(x)' = Owners(x) \/ Owners(x)' # {}
  PROVE  ErrorInv'
<1>1. Live' = Live
  BY DEF Live
<1>2. \A f, g : Owns(f, g)' <=> Owns(f, g)
  BY DEF Owns, Uncausing
<1>3. FrameInv'
  BY <1>1 DEF ErrorInv, FrameInv, FrameOK, Destroys
<1>4. ChainInv' /\ OnceInv'
  BY DEF ErrorInv, ChainInv, OnceInv, Destroys, Size
<1>5. PhaseInv'
  BY Running DEF PhaseInv
<1>6. PoolInv'
  BY <1>1 DEF ErrorInv, PoolInv
<1>7. OrderInv'
  BY <1>1, <1>2 DEF ErrorInv, OrderInv, Size
<1>8. KeptInv'
  <2> SUFFICES ASSUME NEW x \in Live
               PROVE  Kept(x)'
    BY <1>1 DEF KeptInv
  <2>1. Kept(x)
    BY DEF ErrorInv, KeptInv
  <2> QED
    BY <2>1, KeptStays
<1> QED
  BY <1>3, <1>4, <1>5, <1>6, <1>7, <1>8 DEF ErrorInv

LEMMA KeepCauseStep ==
  ASSUME ErrorInv, NEW t \in Threads, KeepCause(t)
  PROVE  ErrorInv'
<1>1. PICK l, c : l = location[t] /\ c = cause[l]
  OBVIOUS
<1>2. /\ phase = "running" /\ phase' = phase /\ rt' = rt /\ stack' = stack
      /\ children' = children /\ buffer' = buffer /\ life' = life
      /\ cause' = cause /\ location' = location
      /\ calls' = [calls EXCEPT ![t] = @ + 1]
      /\ l # NULL /\ c # NULL /\ kept[t] = NULL
      /\ kept' = [kept EXCEPT ![t] = c]
      /\ refcount' = [refcount EXCEPT ![c] = @ + 1]
  BY <1>1 DEF KeepCause, Start, poolVars
<1>3. /\ TypeOK /\ life \in [Errors -> {"none", "live"}]
      /\ refcount \in [Errors -> Nat]
      /\ cause \in [Errors -> Errors \cup {NULL}]
      /\ location \in [Threads -> Errors \cup {NULL}]
      /\ kept \in [Threads -> Errors \cup {NULL}]
      /\ NULL \notin Errors
  BY ErrorAssumption DEF ErrorInv, TypeOK
<1>4. l \in Errors /\ c \in Errors
  BY <1>1, <1>2, <1>3
<1>5. Owns(l, c) /\ l \in Live
  <2>1. l \in Live /\ ~Uncausing(l)
    BY <1>1, <1>2, <1>4, HeldIsLive
  <2> QED
    BY <1>1, <2>1 DEF Owns, Live
<1>6. /\ c \in Live
      /\ \A u \in Threads : \A i \in 1..Len(stack[u]) :
           Destroys(stack[u][i]) => stack[u][i].error # c
  <2>1. Used(c) # {}
    BY <1>4, <1>5 DEF Used
  <2>2. /\ c \in Live
        /\ \A u \in Threads : \A i \in 1..Len(stack[u]) :
             stack[u][i].error = c /\ Destroys(stack[u][i]) => stack[u][i].last
    BY <1>4, <2>1, Owned
  <2>3. \A u \in Threads : \A i \in 1..Len(stack[u]) : ~stack[u][i].last
    BY <1>2, Running
  <2> QED
    BY <2>2, <2>3
<1>7. TypeOK'
  <2>1. refcount' \in [Errors -> Nat]
    BY <1>2, <1>3, <1>4
  <2>2. kept' \in [Threads -> Errors \cup {NULL}]
    BY <1>2, <1>3, <1>4
  <2>3. calls' \in [Threads -> Nat]
    BY <1>2, <1>3 DEF TypeOK
  <2> QED
    BY <1>2, <1>3, <2>1, <2>2, <2>3 DEF TypeOK, IsInjective
<1>8. Live' = Live
  BY <1>2 DEF Live
<1>9. /\ \A f, g : Owns(f, g)' <=> Owns(f, g)
      /\ \A u, g : Unrefs(u, g)' <=> Unrefs(u, g)
  BY <1>2 DEF Owns, Uncausing, Unrefs, At, Top, Idle
<1>10. \A u \in Threads : kept'[u] = IF u = t THEN c ELSE kept[u]
  BY <1>2, <1>3
<1>11. ASSUME NEW x \in Errors
       PROVE  /\ Counted(x)'
              /\ Owners(x)' = Owners(x) \/ Owners(x)' # {}
  <2>1. Counted(x)
    BY DEF ErrorInv, CountInv
  <2>2. CASE x = c
    <3>1. PICK b, D : b = <<"kept", t>> /\ D = {b}
      OBVIOUS
    <3>2. b \notin Owners(c) /\ b \in Owners(c)'
      BY <1>2, <1>4, <1>10, <3>1, <1>3, OwnersAre, OwnersAreNext
    <3>3. \A u \in Threads :
            /\ <<"location", u>> \in D \/ (location'[u] = c <=> location[u] = c)
            /\ <<"kept", u>> \in D \/ (kept'[u] = c <=> kept[u] = c)
            /\ <<"unref", u>> \in D \/ (Unrefs(u, c)' <=> Unrefs(u, c))
      BY <1>2, <1>9, <1>10, <3>1
    <3>4. \A f \in Errors : <<"cause", f>> \in D \/ (Owns(f, c)' <=> Owns(f, c))
      BY <1>9
    <3>5. refcount'[c] = refcount[c] + 1
      BY <1>2, <1>3, <1>4
    <3>6. Counted(c)' /\ Owners(c)' # {}
      BY <1>4, <1>6, <1>8, <2>1, <2>2, <3>1, <3>2, <3>3, <3>4, <3>5, OwnersGrow
    <3> QED
      BY <2>2, <3>6
  <2>3. CASE x # c
    <3>1. \A u \in Threads : /\ location'[u] = x <=> location[u] = x
                             /\ kept'[u] = x <=> kept[u] = x
                             /\ Unrefs(u, x)' <=> Unrefs(u, x)
      BY <1>2, <1>3, <1>9, <1>10, <2>3
    <3>2. \A f \in Errors : Owns(f, x)' <=> Owns(f, x)
      BY <1>9
    <3>3. Owners(x)' = Owners(x) /\ Held(x)' = Held(x) /\ Used(x)' = Used(x)
      BY <3>1, <3>2, OwnersStay
    <3>4. refcount'[x] = refcount[x]
      BY <1>2, <1>3, <2>3
    <3> QED
      BY <1>2, <1>8, <2>1, <3>3, <3>4, CountedStays
  <2> QED
    BY <2>2, <2>3
<1>12. CountInv'
  BY <1>11 DEF CountInv
<1>13. \A u \in Threads : \A i \in 1..Len(stack[u]) :
         Destroys(stack[u][i]) =>
           refcount'[stack[u][i].error] = refcount[stack[u][i].error]
  <2> SUFFICES ASSUME NEW u \in Threads, NEW i \in 1..Len(stack[u]),
                      Destroys(stack[u][i])
               PROVE  refcount'[stack[u][i].error] = refcount[stack[u][i].error]
    OBVIOUS
  <2>1. stack[u][i].error \in Errors /\ stack[u][i].error # c
    BY <1>2, <1>6, Running DEF Live
  <2> QED
    BY <1>2, <1>3, <2>1
<1>14. \A x \in Live : Owners(x)' = Owners(x) \/ Owners(x)' # {}
  BY <1>11 DEF Live
<1> QED
  BY <1>2, <1>7, <1>12, <1>13, <1>14, HandsOut

LEMMA HandOverStep ==
  ASSUME ErrorInv, NEW t \in Threads, NEW u \in Threads, HandOver(t, u)
  PROVE  ErrorInv'
<1>1. PICK c : c = kept[t]
  OBVIOUS
<1>2. /\ phase = "running" /\ phase' = phase /\ rt' = rt /\ stack' = stack
      /\ children' = children /\ buffer' = buffer /\ life' = life
      /\ cause' = cause /\ location' = location /\ refcount' = refcount
      /\ calls' = [calls EXCEPT ![t] = @ + 1]
      /\ c # NULL /\ kept[u] = NULL
      /\ kept' = [kept EXCEPT ![t] = NULL, ![u] = c]
  BY <1>1 DEF HandOver, Start, poolVars, errorVars
<1>3. /\ TypeOK
      /\ kept \in [Threads -> Errors \cup {NULL}]
      /\ NULL \notin Errors
  BY ErrorAssumption DEF ErrorInv, TypeOK
<1>4. c \in Errors /\ t # u
  BY <1>1, <1>2, <1>3
<1>5. TypeOK'
  <2>1. kept' \in [Threads -> Errors \cup {NULL}]
    BY <1>2, <1>3, <1>4
  <2>2. calls' \in [Threads -> Nat]
    BY <1>2, <1>3 DEF TypeOK
  <2> QED
    BY <1>2, <1>3, <2>1, <2>2 DEF TypeOK, IsInjective
<1>6. Live' = Live
  BY <1>2 DEF Live
<1>7. /\ \A f, g : Owns(f, g)' <=> Owns(f, g)
      /\ \A v, g : Unrefs(v, g)' <=> Unrefs(v, g)
  BY <1>2 DEF Owns, Uncausing, Unrefs, At, Top, Idle
<1>8. \A v \in Threads :
        kept'[v] = IF v = u THEN c ELSE IF v = t THEN NULL ELSE kept[v]
  BY <1>2, <1>3
<1>9. ASSUME NEW x \in Errors
      PROVE  /\ Counted(x)'
             /\ Owners(x)' = Owners(x) \/ Owners(x)' # {}
  <2>1. Counted(x)
    BY DEF ErrorInv, CountInv
  <2>2. CASE x = c
    <3>1. PICK a, b, D : a = <<"kept", t>> /\ b = <<"kept", u>> /\ D = {a, b}
      OBVIOUS
    <3>2. a \in Owners(c) /\ b \notin Owners(c)
      BY <1>1, <1>2, <1>3, <1>4, <3>1, OwnersAre
    <3>3. a \notin Owners(c)' /\ b \in Owners(c)'
      BY <1>3, <1>4, <1>8, <3>1, OwnersAreNext
    <3>4. \A v \in Threads :
            /\ <<"location", v>> \in D \/ (location'[v] = c <=> location[v] = c)
            /\ <<"kept", v>> \in D \/ (kept'[v] = c <=> kept[v] = c)
            /\ <<"unref", v>> \in D \/ (Unrefs(v, c)' <=> Unrefs(v, c))
      BY <1>2, <1>7, <1>8, <3>1
    <3>5. \A f \in Errors : <<"cause", f>> \in D \/ (Owns(f, c)' <=> Owns(f, c))
      BY <1>7
    <3>6. c \in Live
      BY <1>1, <1>2, <1>4, HeldIsLive
    <3>7. c \in Live' /\ Counted(c) /\ refcount'[c] = refcount[c]
      BY <1>2, <1>6, <2>1, <2>2, <3>6
    <3>8. Counted(c)' /\ Owners(c)' # {}
      BY <1>4, <3>1, <3>2, <3>3, <3>4, <3>5, <3>6, <3>7, OwnersSwap
    <3> QED
      BY <2>2, <3>8
  <2>3. CASE x # c
    <3>1. \A v \in Threads : /\ location'[v] = x <=> location[v] = x
                             /\ kept'[v] = x <=> kept[v] = x
                             /\ Unrefs(v, x)' <=> Unrefs(v, x)
      BY <1>1, <1>2, <1>3, <1>7, <1>8, <2>3
    <3>2. \A f \in Errors : Owns(f, x)' <=> Owns(f, x)
      BY <1>7
    <3>3. Owners(x)' = Owners(x) /\ Held(x)' = Held(x) /\ Used(x)' = Used(x)
      BY <3>1, <3>2, OwnersStay
    <3> QED
      BY <1>2, <1>6, <2>1, <3>3, CountedStays
  <2> QED
    BY <2>2, <2>3
<1>10. CountInv'
  BY <1>9 DEF CountInv
<1>11. \A x \in Live : Owners(x)' = Owners(x) \/ Owners(x)' # {}
  BY <1>9 DEF Live
<1> QED
  BY <1>2, <1>5, <1>10, <1>11, HandsOut

LEMMA CallUnrefStep ==
  ASSUME ErrorInv, NEW t \in Threads, CallUnref(t)
  PROVE  ErrorInv'
<1>1. PICK e, a :
        /\ stack' = [stack EXCEPT ![t] = <<Frame(e, "unref")>>]
        /\ \/ /\ a = <<"location", t>> /\ e = location[t] /\ e # NULL
              /\ location' = [location EXCEPT ![t] = NULL] /\ kept' = kept
           \/ /\ a = <<"kept", t>> /\ e = kept[t] /\ e # NULL
              /\ kept' = [kept EXCEPT ![t] = NULL] /\ location' = location
  <2>1. CASE /\ location[t] # NULL
             /\ stack' = [stack EXCEPT ![t] = <<Frame(location[t], "unref")>>]
             /\ location' = [location EXCEPT ![t] = NULL]
             /\ UNCHANGED kept
    BY <2>1
  <2>2. CASE /\ kept[t] # NULL
             /\ stack' = [stack EXCEPT ![t] = <<Frame(kept[t], "unref")>>]
             /\ kept' = [kept EXCEPT ![t] = NULL]
             /\ UNCHANGED location
    BY <2>2
  <2> QED
    BY <2>1, <2>2 DEF CallUnref
<1>2. /\ phase = "running" /\ phase' = phase /\ rt' = rt
      /\ children' = children /\ buffer' = buffer /\ life' = life
      /\ cause' = cause /\ refcount' = refcount
      /\ calls' = [calls EXCEPT ![t] = @ + 1] /\ Idle(t)
  BY DEF CallUnref, Start, poolVars, errorVars
<1>3. /\ TypeOK
      /\ location \in [Threads -> Errors \cup {NULL}]
      /\ kept \in [Threads -> Errors \cup {NULL}]
      /\ stack \in [Threads -> Seq(Frames)]
      /\ NULL \notin Errors
  BY ErrorAssumption DEF ErrorInv, TypeOK
<1>4. e \in Errors
  BY <1>1, <1>3
<1>5. PICK f \in Frames : /\ f = Frame(e, "unref") /\ f.error = e
                          /\ f.step = "unref" /\ f.last = FALSE
  <2>1. PICK f : f = [error |-> e, step |-> "unref", last |-> FALSE]
    OBVIOUS
  <2>2. f \in Frames
    BY <1>4, <2>1 DEF Frames
  <2>3. f.error = e /\ f.step = "unref" /\ f.last = FALSE
    BY <2>1
  <2>4. f = Frame(e, "unref")
    BY <2>1 DEF Frame
  <2> QED
    BY <2>2, <2>3, <2>4
<1>6. PICK s \in Seq(Frames) : s = <<f>> /\ Len(s) = 1 /\ s[1] = f /\ s # <<>>
  <2>1. PICK s : s = <<f>>
    OBVIOUS
  <2>2. s \in Seq(Frames) /\ Len(s) = 1 /\ s[1] = f /\ s # <<>>
    BY <2>1
  <2> QED
    BY <2>1, <2>2
<1>7. /\ stack'[t] = s /\ \A u \in Threads : u # t => stack'[u] = stack[u]
      /\ stack' \in [Threads -> Seq(Frames)]
  BY <1>1, <1>3, <1>5, <1>6
<1>8. stack[t] = <<>> /\ Len(stack[t]) = 0
  BY <1>2 DEF Idle
<1>9. \A u \in Threads : \A i \in 1..Len(stack'[u]) :
        \/ u = t /\ i = 1 /\ stack'[u][i] = f
        \/ u # t /\ i \in 1..Len(stack[u]) /\ stack'[u][i] = stack[u][i]
  <2>1. \A i \in 1..Len(s) : i = 1 /\ s[i] = f
    BY <1>6
  <2> QED
    BY <1>7, <2>1
<1>10. \A u \in Threads : \A i \in 1..Len(stack[u]) :
         u # t /\ i \in 1..Len(stack'[u]) /\ stack'[u][i] = stack[u][i]
  BY <1>7, <1>8
<1>11. e \in Live
  BY <1>1, <1>2, <1>4, HeldIsLive
<1>12. TypeOK'
  <2>1. /\ location' \in [Threads -> Errors \cup {NULL}]
        /\ kept' \in [Threads -> Errors \cup {NULL}]
    BY <1>1, <1>3
  <2>2. calls' \in [Threads -> Nat]
    BY <1>2, <1>3 DEF TypeOK
  <2> QED
    BY <1>2, <1>3, <1>7, <2>1, <2>2 DEF TypeOK, IsInjective
<1>13. Live' = Live
  BY <1>2 DEF Live
<1>14. \A x : Uncausing(x)' <=> Uncausing(x)
  <2> SUFFICES ASSUME NEW x
               PROVE  Uncausing(x)' <=> Uncausing(x)
    OBVIOUS
  <2>1. ASSUME Uncausing(x)'
        PROVE  Uncausing(x)
    <3>1. PICK u \in Threads : \E i \in 1..Len(stack'[u]) :
            stack'[u][i].error = x /\ stack'[u][i].step = "uncause"
      BY <2>1 DEF Uncausing
    <3>2. PICK i \in 1..Len(stack'[u]) :
            stack'[u][i].error = x /\ stack'[u][i].step = "uncause"
      BY <3>1
    <3>3. i \in 1..Len(stack[u]) /\ stack'[u][i] = stack[u][i]
      BY <1>5, <1>9, <3>2
    <3> QED
      BY <3>2, <3>3 DEF Uncausing
  <2>2. ASSUME Uncausing(x)
        PROVE  Uncausing(x)'
    <3>1. PICK u \in Threads : \E i \in 1..Len(stack[u]) :
            stack[u][i].error = x /\ stack[u][i].step = "uncause"
      BY <2>2 DEF Uncausing
    <3>2. PICK i \in 1..Len(stack[u]) :
            stack[u][i].error = x /\ stack[u][i].step = "uncause"
      BY <3>1
    <3>3. i \in 1..Len(stack'[u]) /\ stack'[u][i] = stack[u][i]
      BY <1>10, <3>2
    <3> QED
      BY <3>2, <3>3 DEF Uncausing
  <2> QED
    BY <2>1, <2>2
<1>15. \A x, g : Owns(x, g)' <=> Owns(x, g)
  BY <1>2, <1>14 DEF Owns
<1>16. \A u \in Threads : \A x :
         /\ Unrefs(u, x)' <=> IF u = t THEN x = e ELSE Unrefs(u, x)
         /\ ~Unrefs(t, x)
  <2>1. \A x : ~Unrefs(t, x)
    BY <1>2 DEF Unrefs, At
  <2>2. \A x : Unrefs(t, x)' <=> x = e
    <3>1. Head(s) = f
      BY <1>6
    <3> QED
      BY <1>5, <1>6, <1>7, <3>1 DEF Unrefs, At, Top, Idle
  <2>3. ASSUME NEW u \in Threads, u # t
        PROVE  \A x : Unrefs(u, x)' <=> Unrefs(u, x)
    BY <1>7, <2>3 DEF Unrefs, At, Top, Idle
  <2> QED
    BY <2>1, <2>2, <2>3
<1>17. ASSUME NEW x \in Errors
       PROVE  /\ Counted(x)'
              /\ Owners(x)' = Owners(x) \/ Owners(x)' # {}
  <2>1. Counted(x)
    BY DEF ErrorInv, CountInv
  <2>2. CASE x = e
    <3>1. PICK b, D : b = <<"unref", t>> /\ D = {a, b}
      OBVIOUS
    <3>2. a \in Owners(e) /\ b \notin Owners(e)
      BY <1>1, <1>16, <3>1, OwnersAre
    <3>3. a \notin Owners(e)'
      <4>1. CASE a = <<"location", t>> /\ location' = [location EXCEPT ![t] = NULL]
        <5>1. location'[t] # e
          BY <1>3, <1>4, <4>1
        <5> QED
          BY <4>1, <5>1, OwnersAreNext
      <4>2. CASE a = <<"kept", t>> /\ kept' = [kept EXCEPT ![t] = NULL]
        <5>1. kept'[t] # e
          BY <1>3, <1>4, <4>2
        <5> QED
          BY <4>2, <5>1, OwnersAreNext
      <4> QED
        BY <1>1, <4>1, <4>2
    <3>4. b \in Owners(e)'
      BY <1>16, <3>1, OwnersAreNext
    <3>5. \A v \in Threads :
            /\ <<"location", v>> \in D \/ (location'[v] = e <=> location[v] = e)
            /\ <<"kept", v>> \in D \/ (kept'[v] = e <=> kept[v] = e)
            /\ <<"unref", v>> \in D \/ (Unrefs(v, e)' <=> Unrefs(v, e))
      <4> SUFFICES ASSUME NEW v \in Threads
                   PROVE  /\ <<"location", v>> \in D \/ (location'[v] = e <=> location[v] = e)
                          /\ <<"kept", v>> \in D \/ (kept'[v] = e <=> kept[v] = e)
                          /\ <<"unref", v>> \in D \/ (Unrefs(v, e)' <=> Unrefs(v, e))
        OBVIOUS
      <4>1. CASE v = t
        <5>1. <<"unref", v>> \in D /\ a \in D
          BY <3>1, <4>1
        <5> QED
          BY <1>1, <4>1, <5>1
      <4>2. CASE v # t
        BY <1>1, <1>3, <1>16, <4>2
      <4> QED
        BY <4>1, <4>2
    <3>6. \A x1 \in Errors : <<"cause", x1>> \in D \/ (Owns(x1, e)' <=> Owns(x1, e))
      BY <1>15
    <3>7. Counted(e)' /\ Owners(e)' # {}
      BY <1>2, <1>4, <1>11, <1>13, <2>1, <2>2, <3>1, <3>2, <3>3, <3>4, <3>5,
         <3>6, OwnersSwap
    <3> QED
      BY <2>2, <3>7
  <2>3. CASE x # e
    <3>1. \A v \in Threads : /\ location'[v] = x <=> location[v] = x
                             /\ kept'[v] = x <=> kept[v] = x
      BY <1>1, <1>3, <2>3
    <3>2. \A v \in Threads : Unrefs(v, x)' <=> Unrefs(v, x)
      BY <1>16, <2>3
    <3>3. \A x1 \in Errors : Owns(x1, x)' <=> Owns(x1, x)
      BY <1>15
    <3>4. Owners(x)' = Owners(x) /\ Held(x)' = Held(x) /\ Used(x)' = Used(x)
      BY <3>1, <3>2, <3>3, OwnersStay
    <3> QED
      BY <1>2, <1>13, <2>1, <3>4, CountedStays
  <2> QED
    BY <2>2, <2>3
<1>18. CountInv'
  BY <1>17 DEF CountInv
<1>19. FrameInv'
  <2> SUFFICES ASSUME NEW u \in Threads, NEW i \in 1..Len(stack'[u])
               PROVE  FrameOK(u, i)'
    BY DEF FrameInv
  <2>1. CASE u = t /\ i = 1 /\ stack'[u][i] = f
    BY <1>5, <1>11, <1>13, <2>1 DEF FrameOK, Destroys
  <2>2. CASE u # t /\ i \in 1..Len(stack[u]) /\ stack'[u][i] = stack[u][i]
    <3>1. FrameOK(u, i) /\ stack'[u] = stack[u]
      BY <1>7, <2>2 DEF ErrorInv, FrameInv
    <3> QED
      BY <1>2, <1>13, <2>2, <3>1 DEF FrameOK, Destroys
  <2> QED
    BY <1>9, <2>1, <2>2
<1>20. ChainInv'
  <2> SUFFICES ASSUME Size = 0, NEW u \in Threads, NEW i \in 1..Len(stack'[u]),
                      NEW j \in 1..Len(stack'[u]), i < j
               PROVE  Under(children, stack'[u][j].error, stack'[u][i].error)
    BY <1>2 DEF ChainInv, Size
  <2>1. u # t
    BY <1>9
  <2> QED
    BY <1>9, <2>1 DEF ErrorInv, ChainInv
<1>21. OnceInv'
  <2> SUFFICES ASSUME NEW u \in Threads, NEW v \in Threads,
                      NEW i \in 1..Len(stack'[u]), NEW j \in 1..Len(stack'[v]),
                      Destroys(stack'[u][i]), Destroys(stack'[v][j]),
                      stack'[u][i].error = stack'[v][j].error
               PROVE  u = v /\ i = j
    BY DEF OnceInv, Destroys
  <2>1. ~Destroys(f)
    BY <1>5 DEF Destroys
  <2>2. /\ i \in 1..Len(stack[u]) /\ stack'[u][i] = stack[u][i]
        /\ j \in 1..Len(stack[v]) /\ stack'[v][j] = stack[v][j]
    BY <1>9, <2>1
  <2> QED
    BY <2>2 DEF ErrorInv, OnceInv
<1>22. PhaseInv'
  BY <1>2, Running DEF PhaseInv
<1>23. PoolInv'
  BY <1>2, <1>13 DEF ErrorInv, PoolInv
<1>24. OrderInv'
  BY <1>2, <1>13, <1>15 DEF ErrorInv, OrderInv, Size
<1>25. KeptInv'
  <2> SUFFICES ASSUME NEW x \in Live
               PROVE  Kept(x)'
    BY <1>13 DEF KeptInv
  <2>1. Kept(x) /\ (Owners(x)' = Owners(x) \/ Owners(x)' # {})
    BY <1>17 DEF ErrorInv, KeptInv, Live
  <2>2. \A u \in Threads : \A i \in 1..Len(stack[u]) :
           stack[u][i].error = x /\ Destroys(stack[u][i]) =>
             \E j \in 1..Len(stack'[u]) :
               stack'[u][j].error = x /\ Destroys(stack'[u][j])
    BY <1>10
  <2> QED
    BY <2>1, <2>2, KeptStays
<1> QED
  BY <1>12, <1>18, <1>19, <1>20, <1>21, <1>22, <1>23, <1>24, <1>25
     DEF ErrorInv

-----------------------------------------------------------------------------
(* A step of a call: the call goes on (d = 0) or returns (d = 1), and those *)
(* below it stay as they are.                                              *)

Was(t, d, u, i) == IF u = t THEN i + d ELSE i

Moves(t, d) ==
  /\ stack' \in [Threads -> Seq(Frames)]
  /\ \A u \in Threads :
       Len(stack[u]) = Len(stack'[u]) + (IF u = t THEN d ELSE 0)
  /\ \A u \in Threads : u # t => stack'[u] = stack[u]
  /\ \A u \in Threads : \A i \in 1..Len(stack'[u]) :
       /\ Was(t, d, u, i) \in 1..Len(stack[u])
       /\ stack'[u][i].error = stack[u][Was(t, d, u, i)].error
       /\ stack'[u][i].last = stack[u][Was(t, d, u, i)].last
       /\ u # t \/ i # 1 \/ d = 1 =>
            stack'[u][i] = stack[u][Was(t, d, u, i)]
  /\ \A u \in Threads : \A k \in 1..Len(stack[u]) :
       u # t \/ k > d => \E i \in 1..Len(stack'[u]) : k = Was(t, d, u, i)

LEMMA ContinueMoves ==
  ASSUME TypeOK, NEW t \in Threads, ~Idle(t),
         NEW step \in {"unref", "clear", "uncause", "end"}, Continue(t, step)
  PROVE  /\ Moves(t, 0) /\ stack'[t][1].step = step
         /\ stack'[t][1].error = Top(t).error /\ stack'[t][1].last = Top(t).last
         /\ 1 \in 1..Len(stack'[t])
<1>1. /\ stack' \in [Threads -> Seq(Frames)]
      /\ \A u \in Threads : u # t => stack'[u] = stack[u]
      /\ Len(stack'[t]) = Len(stack[t]) /\ stack'[t] # <<>>
      /\ stack'[t][1].step = step
      /\ stack'[t][1].error = Top(t).error
      /\ stack'[t][1].last = Top(t).last
      /\ \A i \in 1..Len(stack[t]) : i # 1 => stack'[t][i] = stack[t][i]
  BY ContinueFacts
<1>2. Top(t) = stack[t][1] /\ 1 \in 1..Len(stack[t])
  BY TopFacts
<1>3. \A u \in Threads : Len(stack[u]) \in Nat
  BY DEF TypeOK
<1>4. \A u \in Threads : /\ Len(stack'[u]) = Len(stack[u])
                         /\ Len(stack[u]) = Len(stack'[u]) + 0
  BY <1>1, <1>3
<1>5. \A u : \A i \in Nat : Was(t, 0, u, i) = i
  BY DEF Was
<1>6. ASSUME NEW u \in Threads, NEW i \in 1..Len(stack'[u])
      PROVE  /\ Was(t, 0, u, i) \in 1..Len(stack[u])
             /\ stack'[u][i].error = stack[u][Was(t, 0, u, i)].error
             /\ stack'[u][i].last = stack[u][Was(t, 0, u, i)].last
             /\ u # t \/ i # 1 \/ 0 = 1 =>
                  stack'[u][i] = stack[u][Was(t, 0, u, i)]
  <2>1. Was(t, 0, u, i) = i /\ i \in 1..Len(stack[u])
    BY <1>3, <1>4, <1>5
  <2>2. CASE u # t
    BY <1>1, <2>1, <2>2
  <2>3. CASE u = t /\ i # 1
    BY <1>1, <2>1, <2>3
  <2>4. CASE u = t /\ i = 1
    BY <1>1, <1>2, <2>1, <2>4
  <2> QED
    BY <2>2, <2>3, <2>4
<1>7. \A u \in Threads : \A k \in 1..Len(stack[u]) :
        \E i \in 1..Len(stack'[u]) : k = Was(t, 0, u, i)
  BY <1>3, <1>4, <1>5
<1>8. Moves(t, 0)
  BY <1>1, <1>4, <1>6, <1>7 DEF Moves
<1> QED
  BY <1>1, <1>2, <1>4, <1>8

LEMMA PopMoves ==
  ASSUME TypeOK, NEW t \in Threads, ~Idle(t), Pop(t)
  PROVE  Moves(t, 1)
<1>1. /\ stack' \in [Threads -> Seq(Frames)]
      /\ \A u \in Threads : u # t => stack'[u] = stack[u]
      /\ Len(stack'[t]) \in Nat /\ Len(stack[t]) = Len(stack'[t]) + 1
      /\ \A i \in 1..Len(stack'[t]) :
           /\ stack'[t][i] = stack[t][i + 1]
           /\ i + 1 \in 1..Len(stack[t])
      /\ \A i \in 1..Len(stack[t]) : i # 1 =>
           \E j \in 1..Len(stack'[t]) : i = j + 1
  BY PopFacts
<1>2. \A u \in Threads : Len(stack[u]) \in Nat
  BY DEF TypeOK
<1>3. /\ \A i : Was(t, 1, t, i) = i + 1
      /\ \A u, i : u # t => Was(t, 1, u, i) = i
  BY DEF Was
<1>4. \A u \in Threads :
        Len(stack[u]) = Len(stack'[u]) + (IF u = t THEN 1 ELSE 0)
  BY <1>1, <1>2
<1>5. ASSUME NEW u \in Threads, NEW i \in 1..Len(stack'[u])
      PROVE  /\ Was(t, 1, u, i) \in 1..Len(stack[u])
             /\ stack'[u][i].error = stack[u][Was(t, 1, u, i)].error
             /\ stack'[u][i].last = stack[u][Was(t, 1, u, i)].last
             /\ u # t \/ i # 1 \/ 1 = 1 =>
                  stack'[u][i] = stack[u][Was(t, 1, u, i)]
  <2>1. CASE u = t
    BY <1>1, <1>3, <2>1
  <2>2. CASE u # t
    BY <1>1, <1>3, <2>2
  <2> QED
    BY <2>1, <2>2
<1>6. ASSUME NEW u \in Threads, NEW k \in 1..Len(stack[u]), u # t \/ k > 1
      PROVE  \E i \in 1..Len(stack'[u]) : k = Was(t, 1, u, i)
  <2>1. CASE u = t
    <3>1. PICK j \in 1..Len(stack'[t]) : k = j + 1
      BY <1>1, <1>6, <2>1
    <3> QED
      BY <1>3, <2>1, <3>1
  <2>2. CASE u # t
    BY <1>1, <1>3, <2>2
  <2> QED
    BY <2>1, <2>2
<1> QED
  BY <1>1, <1>4, <1>5, <1>6 DEF Moves

LEMMA MovesChain ==
  ASSUME ErrorInv, NEW t \in Threads, NEW d \in {0, 1}, Moves(t, d),
         rt' = rt,
         \A u \in Threads : \A i, j \in 1..Len(stack'[u]) :
           LET f == stack'[u][j].error
               e == stack'[u][i].error
           IN  Under(children, f, e) => Under(children', f, e)
  PROVE  ChainInv'
<1> SUFFICES ASSUME Size = 0, NEW u \in Threads, NEW i \in 1..Len(stack'[u]),
                    NEW j \in 1..Len(stack'[u]), i < j
             PROVE  Under(children', stack'[u][j].error, stack'[u][i].error)
  BY DEF ChainInv, Size, Under
<1>1. PICK a, b \in 1..Len(stack[u]) :
        /\ a < b /\ stack'[u][i].error = stack[u][a].error
        /\ stack'[u][j].error = stack[u][b].error
  <2>1. /\ Was(t, d, u, i) \in 1..Len(stack[u])
        /\ Was(t, d, u, j) \in 1..Len(stack[u])
        /\ stack'[u][i].error = stack[u][Was(t, d, u, i)].error
        /\ stack'[u][j].error = stack[u][Was(t, d, u, j)].error
    BY DEF Moves
  <2>2. Was(t, d, u, i) < Was(t, d, u, j)
    BY DEF Was
  <2> QED
    BY <2>1, <2>2
<1>2. Under(children, stack[u][b].error, stack[u][a].error)
  BY <1>1 DEF ErrorInv, ChainInv
<1> QED
  BY <1>1, <1>2

LEMMA MovesOnce ==
  ASSUME ErrorInv, NEW t \in Threads, NEW d \in {0, 1}, Moves(t, d),
         Top(t) = stack[t][1],
         \/ d = 1 \/ Destroys(Top(t))
         \/ \A u \in Threads : \A i \in 1..Len(stack[u]) :
              stack[u][i].error = Top(t).error => ~Destroys(stack[u][i])
  PROVE  OnceInv'
<1> SUFFICES ASSUME NEW u \in Threads, NEW v \in Threads,
                    NEW i \in 1..Len(stack'[u]), NEW j \in 1..Len(stack'[v]),
                    Destroys(stack'[u][i]), Destroys(stack'[v][j]),
                    stack'[u][i].error = stack'[v][j].error
             PROVE  u = v /\ i = j
  BY DEF OnceInv, Destroys
<1>1. PICK a, b : a = Was(t, d, u, i) /\ b = Was(t, d, v, j)
  OBVIOUS
<1>2. /\ a \in 1..Len(stack[u]) /\ b \in 1..Len(stack[v])
      /\ stack[u][a].error = stack[v][b].error
      /\ stack[u][a].error = stack'[u][i].error
      /\ u # t \/ i # 1 \/ d = 1 => stack'[u][i] = stack[u][a]
      /\ v # t \/ j # 1 \/ d = 1 => stack'[v][j] = stack[v][b]
  BY <1>1 DEF Moves
<1>3. u = v /\ a = b => i = j
  BY <1>1 DEF Was
<1>4. d = 0 /\ u = t /\ i = 1 => stack[u][a] = Top(t)
  BY <1>1 DEF Was
<1>5. d = 0 /\ v = t /\ j = 1 => stack[v][b] = Top(t)
  BY <1>1 DEF Was
<1>6. CASE Destroys(stack[u][a]) /\ Destroys(stack[v][b])
  <2>1. u = v /\ a = b
    <3>1. \A p \in 1..Len(stack[u]), q \in 1..Len(stack[v]) :
            Destroys(stack[u][p]) /\ Destroys(stack[v][q])
              /\ stack[u][p].error = stack[v][q].error => u = v /\ p = q
      BY DEF ErrorInv, OnceInv
    <3> QED
      BY <1>2, <1>6, <3>1
  <2> QED
    BY <1>3, <2>1
<1>7. CASE ~Destroys(stack[u][a])
  <2>1. d = 0 /\ u = t /\ i = 1
    BY <1>2, <1>7
  <2>2. ~Destroys(stack[v][b])
    BY <1>2, <1>4, <1>7, <2>1
  <2>3. v = t /\ j = 1
    BY <1>2, <2>1, <2>2
  <2> QED
    BY <2>1, <2>3
<1>8. CASE ~Destroys(stack[v][b])
  <2>1. d = 0 /\ v = t /\ j = 1
    BY <1>2, <1>8
  <2>2. ~Destroys(stack[u][a])
    BY <1>2, <1>5, <1>8, <2>1
  <2>3. u = t /\ i = 1
    BY <1>2, <2>1, <2>2
  <2> QED
    BY <2>1, <2>3
<1> QED
  BY <1>6, <1>7, <1>8

LEMMA MovesPhase ==
  ASSUME ErrorInv, NEW t \in Threads, NEW d \in {0, 1}, Moves(t, d), ~Idle(t),
         phase' = phase, rt' = rt, Live' \subseteq Live,
         \A e \in Live' : cause[e] = NULL => cause'[e] = NULL,
         phase = "walking" /\ Size # 0 /\ d = 0 =>
           stack'[t][1].step \in {"clear", "end"}
  PROVE  PhaseInv'
<1>1. phase \notin {"orphaned", "done"}
  BY DEF ErrorInv, PhaseInv, AllIdle
<1>2. ~rt'.allocated => phase' # "running" /\ Live' = {}
  BY DEF ErrorInv, PhaseInv
<1>3. ASSUME phase = "walking"
      PROVE  /\ \A u \in Threads \ {Main} : stack'[u] = <<>>
             /\ stack'[Main] # <<>> => stack'[Main][Len(stack'[Main])].last
             /\ Size # 0 =>
                  /\ \A e \in Live' : cause'[e] = NULL
                  /\ \A i \in 1..Len(stack'[Main]) :
                       stack'[Main][i].step \in {"clear", "end"}
  <2>1. /\ \A u \in Threads \ {Main} : stack[u] = <<>>
        /\ stack[Main] # <<>> => stack[Main][Len(stack[Main])].last
        /\ Size # 0 => /\ \A e \in Live : cause[e] = NULL
                       /\ \A i \in 1..Len(stack[Main]) :
                            stack[Main][i].step \in {"clear", "end"}
    BY <1>3 DEF ErrorInv, PhaseInv, Idle
  <2>2. t = Main /\ stack[Main] # <<>>
    BY <2>1 DEF Idle
  <2>3. stack' \in [Threads -> Seq(Frames)]
    BY DEF Moves
  <2>4. /\ Len(stack[Main]) = Len(stack'[Main]) + d
        /\ \A u \in Threads : u # Main => stack'[u] = stack[u]
    BY <2>2 DEF Moves
  <2>5. ASSUME stack'[Main] # <<>>
        PROVE  stack'[Main][Len(stack'[Main])].last
    <3>1. PICK n \in Nat : n = Len(stack'[Main]) /\ n > 0
      BY <2>2, <2>3, <2>5, LenProperties, EmptySeq
    <3>2. stack'[Main][n].last = stack[Main][Was(t, d, Main, n)].last
      <4>1. n \in 1..Len(stack'[t])
        BY <2>2, <3>1
      <4> QED
        BY <2>2, <4>1 DEF Moves
    <3>3. Was(t, d, Main, n) = Len(stack[Main])
      BY <2>2, <2>4, <3>1 DEF Was
    <3> QED
      BY <2>1, <2>2, <3>1, <3>2, <3>3
  <2>6. ASSUME Size # 0, NEW i \in 1..Len(stack'[Main])
        PROVE  stack'[Main][i].step \in {"clear", "end"}
    <3>1. CASE i = 1 /\ d = 0
      BY <1>3, <2>2, <2>6, <3>1
    <3>2. CASE i # 1 \/ d = 1
      <4>1. /\ Was(t, d, Main, i) \in 1..Len(stack[Main])
            /\ stack'[Main][i] = stack[Main][Was(t, d, Main, i)]
        BY <2>2, <3>2 DEF Moves
      <4> QED
        BY <2>1, <2>6, <4>1
    <3> QED
      BY <3>1, <3>2
  <2> QED
    BY <2>1, <2>4, <2>5, <2>6
<1> QED
  BY <1>1, <1>2, <1>3 DEF PhaseInv, Idle, Size

LEMMA MovesFrame ==
  ASSUME ErrorInv, NEW t \in Threads, NEW d \in {0, 1}, Moves(t, d),
         phase' = phase,
         \A u \in Threads : \A i \in 1..Len(stack'[u]) :
           u # t \/ i # 1 \/ d = 1 =>
             LET f == stack'[u][i] IN
             /\ f.error \in Live'
             /\ cause[f.error] = NULL => cause'[f.error] = NULL
             /\ Destroys(f) /\ ~f.last =>
                  refcount'[f.error] = refcount[f.error]
             /\ f.last => children' # <<>> /\ children'[1] = children[1],
         d = 0 => FrameOK(t, 1)'
  PROVE  FrameInv'
<1> SUFFICES ASSUME NEW u \in Threads, NEW i \in 1..Len(stack'[u]),
                    u # t \/ i # 1 \/ d = 1
             PROVE  FrameOK(u, i)'
  BY DEF FrameInv
<1>1. PICK k : k = Was(t, d, u, i)
  OBVIOUS
<1>2. k \in 1..Len(stack[u]) /\ stack'[u][i] = stack[u][k]
  BY <1>1 DEF Moves
<1>3. FrameOK(u, k)
  BY <1>2 DEF ErrorInv, FrameInv
<1>4. i > 1 => k > 1
  BY <1>1 DEF Was
<1>5. k = Len(stack[u]) => i = Len(stack'[u])
  <2>1. /\ Len(stack[u]) = Len(stack'[u]) + (IF u = t THEN d ELSE 0)
        /\ stack'[u] \in Seq(Frames)
    BY DEF Moves
  <2>2. Len(stack'[u]) \in Nat
    BY <2>1, LenProperties
  <2> QED
    BY <1>1, <2>1, <2>2 DEF Was
<1> QED
  BY <1>2, <1>3, <1>4, <1>5 DEF FrameOK, Destroys

LEMMA MovesKept ==
  ASSUME ErrorInv, NEW t \in Threads, NEW d \in {0, 1}, Moves(t, d), ~Idle(t),
         NEW x \in Live, Owners(x)' = Owners(x) \/ Owners(x)' # {},
         d = 0 /\ Destroys(Top(t)) => Destroys(stack'[t][1]),
         d = 1 => Top(t).error # x \/ ~Destroys(Top(t))
  PROVE  Kept(x)'
<1>1. Kept(x)
  BY DEF ErrorInv, KeptInv
<1>2. Top(t) = stack[t][1]
  BY TopFacts DEF ErrorInv
<1>3. ASSUME NEW u \in Threads, NEW k \in 1..Len(stack[u]),
             stack[u][k].error = x, Destroys(stack[u][k])
      PROVE  \E j \in 1..Len(stack'[u]) :
               stack'[u][j].error = x /\ Destroys(stack'[u][j])
  <2>1. u # t \/ k > d
    <3>1. CASE d = 1 /\ u = t
      <4>1. k # 1
        BY <1>2, <1>3, <3>1
      <4> QED
        BY <3>1, <4>1
    <3>2. CASE d = 0
      BY <3>2
    <3> QED
      BY <3>1, <3>2
  <2>2. PICK i \in 1..Len(stack'[u]) : k = Was(t, d, u, i)
    BY <2>1 DEF Moves
  <2>3. /\ stack'[u][i].error = x
        /\ u # t \/ i # 1 \/ d = 1 => stack'[u][i] = stack[u][k]
    BY <1>3, <2>2 DEF Moves
  <2>4. CASE u # t \/ i # 1 \/ d = 1
    BY <1>3, <2>3, <2>4
  <2>5. CASE u = t /\ i = 1 /\ d = 0
    <3>1. k = 1
      BY <2>2, <2>5 DEF Was
    <3> QED
      BY <1>2, <1>3, <2>3, <2>5, <3>1
  <2> QED
    BY <2>4, <2>5
<1> QED
  BY <1>1, <1>3, KeptStays

LEMMA MovesUncausing ==
  ASSUME ErrorInv, NEW t \in Threads, NEW d \in {0, 1}, Moves(t, d), ~Idle(t),
         d = 0 => stack'[t][1].step # "uncause",
         NEW x, Top(t).step # "uncause" \/ Top(t).error # x
  PROVE  Uncausing(x)' <=> Uncausing(x)
<1>1. Top(t) = stack[t][1]
  BY TopFacts DEF ErrorInv
<1>2. ASSUME Uncausing(x)'
      PROVE  Uncausing(x)
  <2>1. PICK u \in Threads : \E i \in 1..Len(stack'[u]) :
          stack'[u][i].error = x /\ stack'[u][i].step = "uncause"
    BY <1>2 DEF Uncausing
  <2>1a. PICK i \in 1..Len(stack'[u]) :
          stack'[u][i].error = x /\ stack'[u][i].step = "uncause"
    BY <2>1
  <2>2. u # t \/ i # 1 \/ d = 1
    BY <2>1a
  <2>3. /\ Was(t, d, u, i) \in 1..Len(stack[u])
        /\ stack'[u][i] = stack[u][Was(t, d, u, i)]
    BY <2>2 DEF Moves
  <2> QED
    BY <2>1a, <2>3 DEF Uncausing
<1>3. ASSUME Uncausing(x)
      PROVE  Uncausing(x)'
  <2>1. PICK u \in Threads : \E k \in 1..Len(stack[u]) :
          stack[u][k].error = x /\ stack[u][k].step = "uncause"
    BY <1>3 DEF Uncausing
  <2>1a. PICK k \in 1..Len(stack[u]) :
          stack[u][k].error = x /\ stack[u][k].step = "uncause"
    BY <2>1
  <2>2. u # t \/ k # 1
    BY <1>1, <2>1a
  <2>3. u # t \/ k > d
    BY <2>2
  <2>4. PICK i \in 1..Len(stack'[u]) : k = Was(t, d, u, i)
    BY <2>3 DEF Moves
  <2>5. u # t \/ i # 1 \/ d = 1
    BY <2>2, <2>4 DEF Was
  <2>6. stack'[u][i] = stack[u][k]
    BY <2>4, <2>5 DEF Moves
  <2> QED
    BY <2>1a, <2>6 DEF Uncausing
<1> QED
  BY <1>2, <1>3

LEMMA MovesUnrefs ==
  ASSUME ErrorInv, NEW t \in Threads, NEW d \in {0, 1}, Moves(t, d),
         d = 0 => stack'[t][1].step # "unref"
  PROVE  \A u \in Threads : \A x :
           Unrefs(u, x)' <=> u # t /\ Unrefs(u, x)
<1>1. ASSUME NEW u \in Threads, u # t
      PROVE  \A x : Unrefs(u, x)' <=> Unrefs(u, x)
  <2>1. stack'[u] = stack[u]
    BY <1>1 DEF Moves
  <2> QED
    BY <2>1 DEF Unrefs, At, Top, Idle
<1>2. ASSUME NEW x, Unrefs(t, x)'
      PROVE  FALSE
  <2>1. stack'[t] # <<>> /\ Head(stack'[t]).step = "unref"
    BY <1>2 DEF Unrefs, At, Idle
  <2>2. stack'[t] \in Seq(Frames)
    BY DEF Moves
  <2>3. PICK n \in Nat : n = Len(stack'[t]) /\ n > 0
    BY <2>1, <2>2, LenProperties, EmptySeq
  <2>4. stack'[t][1].step = "unref"
    BY <2>1, <2>2
  <2>5. d = 1
    BY <2>4
  <2>6. 2 \in 1..Len(stack[t]) /\ stack'[t][1] = stack[t][2]
    <3>1. Was(t, d, t, 1) = 2 /\ 1 \in 1..Len(stack'[t])
      BY <2>3, <2>5 DEF Was
    <3> QED
      BY <2>5, <3>1 DEF Moves
  <2>7. stack[t][2].step = "uncause"
    BY <2>6 DEF ErrorInv, FrameInv, FrameOK
  <2> QED
    BY <2>4, <2>6, <2>7
<1> QED
  BY <1>1, <1>2

-----------------------------------------------------------------------------
(* The steps of y_unref and what it leads to. *)

LEMMA TopIs ==
  ASSUME ErrorInv, NEW t \in Threads, NEW step, At(t, step)
  PROVE  /\ TypeOK /\ ~Idle(t) /\ Top(t) = stack[t][1] /\ Top(t) \in Frames
         /\ 1 \in 1..Len(stack[t]) /\ Top(t).step = step
         /\ Top(t).error \in Live /\ Top(t).error \in Errors
         /\ FrameOK(t, 1) /\ rt.allocated
         /\ phase \in {"running", "walking"}
         /\ phase = "walking" => \A u \in Threads : u # t => Idle(u)
<1>1. TypeOK /\ ~Idle(t) /\ Top(t).step = step
  BY DEF ErrorInv, At, Top
<1>2. /\ Top(t) = stack[t][1] /\ Top(t) \in Frames
      /\ 1 \in 1..Len(stack[t]) /\ Top(t).error \in Errors
  BY <1>1, TopFacts
<1>3. FrameOK(t, 1) /\ Top(t).error \in Live
  BY <1>2 DEF ErrorInv, FrameInv, FrameOK
<1>4. rt.allocated
  BY <1>3 DEF ErrorInv, PhaseInv
<1>5. phase \in {"running", "walking"}
  BY <1>1 DEF ErrorInv, TypeOK, PhaseInv, AllIdle
<1>6. phase = "walking" => \A u \in Threads : u # t => Idle(u)
  BY <1>1 DEF ErrorInv, PhaseInv
<1> QED
  BY <1>1, <1>2, <1>3, <1>4, <1>5, <1>6

(* An error that a y_unref is about to be applied to is not destroyed.     *)
LEMMA UnrefTop ==
  ASSUME ErrorInv, NEW t \in Threads, At(t, "unref"), NEW e, e = Top(t).error
  PROVE  /\ Unrefs(t, e) /\ refcount[e] \in Nat /\ refcount[e] > 0
         /\ \A u \in Threads : \A i \in 1..Len(stack[u]) :
              stack[u][i].error = e => ~Destroys(stack[u][i])
<1>1. /\ TypeOK /\ ~Idle(t) /\ Top(t) = stack[t][1] /\ Top(t).step = "unref"
      /\ 1 \in 1..Len(stack[t]) /\ e \in Errors
      /\ phase = "walking" => \A u \in Threads : u # t => Idle(u)
  BY TopIs
<1>2. Unrefs(t, e) /\ Used(e) # {}
  BY DEF Unrefs, Used
<1>3. /\ refcount[e] \in Nat /\ refcount[e] > 0
      /\ \A u \in Threads : \A i \in 1..Len(stack[u]) :
           stack[u][i].error = e /\ Destroys(stack[u][i]) => stack[u][i].last
  BY <1>1, <1>2, Owned
<1>4. ASSUME NEW u \in Threads, NEW i \in 1..Len(stack[u]),
             stack[u][i].error = e, Destroys(stack[u][i])
      PROVE  FALSE
  <2>1. /\ u = Main /\ phase = "walking" /\ i = Len(stack[u])
        /\ children # <<>> /\ e = children[1]
    <3>1. stack[u][i].last
      BY <1>3, <1>4
    <3> QED
      BY <1>4, <3>1 DEF ErrorInv, FrameInv, FrameOK
  <2>2. u = t /\ i # 1
    <3>1. u = t
      <4>1. stack[u] # <<>>
        BY <1>4
      <4> QED
        BY <1>1, <2>1, <4>1 DEF Idle
    <3>2. i # 1
      BY <1>1, <1>4, <3>1 DEF Destroys
    <3> QED
      BY <3>1, <3>2
  <2>3. CASE Size = 0
    <3>1. children \in Seq(Errors) /\ IsInjective(children)
      BY <1>1 DEF TypeOK
    <3>2. 1 < i /\ i \in 1..Len(stack[t])
      BY <1>4, <2>2
    <3>3. Under(children, stack[t][i].error, stack[t][1].error)
      BY <1>1, <2>3, <3>2 DEF ErrorInv, ChainInv
    <3>4. Under(children, e, e)
      BY <1>1, <1>4, <2>2, <3>3
    <3> QED
      BY <3>1, <3>4, UnderFacts
  <2>4. CASE Size # 0
    <3>1. \A k \in 1..Len(stack[Main]) : stack[Main][k].step \in {"clear", "end"}
      BY <2>1, <2>4 DEF ErrorInv, PhaseInv
    <3>2. stack[t][1].step \in {"clear", "end"}
      BY <1>1, <2>1, <2>2, <3>1
    <3> QED
      BY <1>1, <3>2
  <2> QED
    BY <2>3, <2>4
<1> QED
  BY <1>2, <1>3, <1>4

LEMMA UnrefStep ==
  ASSUME ErrorInv, NEW t \in Threads, Unref(t)
  PROVE  ErrorInv'
<1>1. PICK e : e = Top(t).error
  OBVIOUS
<1>2. /\ At(t, "unref") /\ phase' = phase /\ rt' = rt
      /\ children' = children /\ buffer' = buffer /\ life' = life
      /\ cause' = cause /\ location' = location /\ kept' = kept
      /\ calls' = calls
  BY DEF Unref, poolVars, clientVars
<1>3. /\ TypeOK /\ ~Idle(t) /\ Top(t) = stack[t][1] /\ Top(t) \in Frames
      /\ Top(t).step = "unref" /\ e \in Live /\ e \in Errors
      /\ FrameOK(t, 1) /\ 1 \in 1..Len(stack[t])
  BY <1>1, <1>2, TopIs
<1>4. /\ Unrefs(t, e) /\ refcount[e] \in Nat /\ refcount[e] > 0
      /\ \A u \in Threads : \A i \in 1..Len(stack[u]) :
           stack[u][i].error = e => ~Destroys(stack[u][i])
  BY <1>1, <1>2, UnrefTop
<1>5. /\ refcount' = [refcount EXCEPT ![e] = refcount[e] - 1]
      /\ IF refcount[e] = 1 THEN Continue(t, "clear") ELSE Pop(t)
  BY <1>1, <1>4 DEF Unref
<1>6. PICK d \in {0, 1} :
        /\ Moves(t, d)
        /\ d = 0 => /\ refcount[e] = 1 /\ stack'[t][1].step = "clear"
                    /\ stack'[t][1].error = e
                    /\ stack'[t][1].last = Top(t).last
                    /\ 1 \in 1..Len(stack'[t])
        /\ d = 1 => refcount[e] # 1
  <2>1. CASE refcount[e] = 1
    BY <1>1, <1>3, <1>5, <2>1, ContinueMoves
  <2>2. CASE refcount[e] # 1
    BY <1>3, <1>5, <2>2, PopMoves
  <2> QED
    BY <2>1, <2>2
<1>7. \A x : Uncausing(x)' <=> Uncausing(x)
  BY <1>3, <1>6, MovesUncausing
<1>8. \A x, y : Owns(x, y)' <=> Owns(x, y)
  BY <1>2, <1>7 DEF Owns
<1>9. /\ \A u \in Threads : \A x : Unrefs(u, x)' <=> u # t /\ Unrefs(u, x)
      /\ \A x : Unrefs(t, x) <=> x = e
  <2>1. \A x : Unrefs(t, x) <=> x = e
    BY <1>1, <1>2 DEF Unrefs
  <2> QED
    BY <1>6, <2>1, MovesUnrefs
<1>10. Live' = Live
  BY <1>2 DEF Live
<1>11. /\ refcount' \in [Errors -> Nat] /\ refcount'[e] = refcount[e] - 1
       /\ \A x \in Errors : x # e => refcount'[x] = refcount[x]
  <2>1. refcount \in [Errors -> Nat] /\ refcount[e] - 1 \in Nat
    BY <1>3, <1>4 DEF TypeOK
  <2> QED
    BY <1>3, <1>5, <2>1
<1>12. TypeOK'
  <2>1. stack' \in [Threads -> Seq(Frames)]
    BY <1>6 DEF Moves
  <2> QED
    BY <1>2, <1>3, <1>11, <2>1 DEF TypeOK, IsInjective
<1>13. ASSUME NEW x \in Errors, x # e
       PROVE  Counted(x)' /\ Owners(x)' = Owners(x)
  <2>1. \A u \in Threads : /\ location'[u] = x <=> location[u] = x
                           /\ kept'[u] = x <=> kept[u] = x
                           /\ Unrefs(u, x)' <=> Unrefs(u, x)
    BY <1>2, <1>9, <1>13
  <2>2. \A f \in Errors : Owns(f, x)' <=> Owns(f, x)
    BY <1>8
  <2>3. Owners(x)' = Owners(x) /\ Held(x)' = Held(x) /\ Used(x)' = Used(x)
    BY <2>1, <2>2, OwnersStay
  <2>4. Counted(x)
    BY DEF ErrorInv, CountInv
  <2> QED
    BY <1>2, <1>10, <1>11, <1>13, <2>3, <2>4, CountedStays
<1>14. Counted(e)' /\ (refcount'[e] # 0 => Owners(e)' # {})
  <2>1. PICK a, D : a = <<"unref", t>> /\ D = {a}
    OBVIOUS
  <2>2. a \in Owners(e) /\ a \notin Owners(e)'
    BY <1>4, <1>9, <2>1, OwnersAre, OwnersAreNext
  <2>3. \A v \in Threads :
          /\ <<"location", v>> \in D \/ (location'[v] = e <=> location[v] = e)
          /\ <<"kept", v>> \in D \/ (kept'[v] = e <=> kept[v] = e)
          /\ <<"unref", v>> \in D \/ (Unrefs(v, e)' <=> Unrefs(v, e))
    BY <1>2, <1>9, <2>1
  <2>4. \A f \in Errors : <<"cause", f>> \in D \/ (Owns(f, e)' <=> Owns(f, e))
    BY <1>8
  <2>5. Counted(e)
    BY <1>3 DEF ErrorInv, CountInv
  <2> QED
    BY <1>3, <1>10, <1>11, <2>1, <2>2, <2>3, <2>4, <2>5, OwnersShrink
<1>15. CountInv'
  BY <1>13, <1>14 DEF CountInv
<1>16. FrameInv'
  <2>1. ASSUME NEW u \in Threads, NEW i \in 1..Len(stack'[u]),
               u # t \/ i # 1 \/ d = 1, NEW f, f = stack'[u][i]
        PROVE  /\ f.error \in Live'
               /\ cause[f.error] = NULL => cause'[f.error] = NULL
               /\ Destroys(f) /\ ~f.last => refcount'[f.error] = refcount[f.error]
               /\ f.last => children' # <<>> /\ children'[1] = children[1]
    <3>1. PICK k \in 1..Len(stack[u]) : f = stack[u][k]
      BY <1>6, <2>1 DEF Moves
    <3>2. FrameOK(u, k) /\ f.error \in Live /\ f.error \in Errors
      BY <3>1 DEF ErrorInv, FrameInv, FrameOK, Live
    <3>3. Destroys(f) => f.error # e
      BY <1>4, <3>1
    <3> QED
      BY <1>2, <1>10, <1>11, <3>1, <3>2, <3>3 DEF FrameOK
  <2>2. d = 0 => FrameOK(t, 1)'
    BY <1>3, <1>6, <1>10, <1>11, <1>4 DEF FrameOK, Destroys
  <2> QED
    BY <1>2, <1>6, <2>1, <2>2, MovesFrame
<1>17. ChainInv'
  BY <1>2, <1>6, MovesChain
<1>18. OnceInv'
  BY <1>1, <1>3, <1>4, <1>6, MovesOnce
<1>19. PhaseInv'
  BY <1>2, <1>3, <1>6, <1>10, MovesPhase
<1>20. PoolInv'
  BY <1>2, <1>10 DEF ErrorInv, PoolInv
<1>21. OrderInv'
  BY <1>2, <1>8, <1>10 DEF ErrorInv, OrderInv, Size
<1>22. KeptInv'
  <2>1. ~Destroys(Top(t))
    BY <1>3 DEF Destroys
  <2>2. ASSUME NEW x \in Live, x # e
        PROVE  Kept(x)'
    <3>1. Owners(x)' = Owners(x)
      BY <1>13, <2>2 DEF Live
    <3> QED
      BY <1>3, <1>6, <2>1, <2>2, <3>1, MovesKept
  <2>3. CASE d = 0
    <3>1. stack'[t][1].error = e /\ Destroys(stack'[t][1])
      BY <1>6, <2>3 DEF Destroys
    <3>2. 1 \in 1..Len(stack'[t])
      BY <1>6, <2>3
    <3>3. Kept(e)'
      BY <3>1, <3>2 DEF Kept, Destroys
    <3> QED
      BY <1>10, <2>2, <3>3 DEF KeptInv
  <2>4. CASE d = 1
    <3>1. refcount'[e] # 0
      BY <1>4, <1>6, <1>11, <2>4
    <3>2. Kept(e)'
      BY <1>14, <3>1 DEF Kept
    <3> QED
      BY <1>10, <2>2, <3>2 DEF KeptInv
  <2> QED
    BY <2>3, <2>4
<1> QED
  BY <1>12, <1>15, <1>16, <1>17, <1>18, <1>19, <1>20, <1>21, <1>22 DEF ErrorInv

(* The two ways in which y_Error_clear ends.                               *)
LEMMA EndStep ==
  ASSUME ErrorInv, NEW t \in Threads, ~Idle(t), NEW e, e = Top(t).error,
         Top(t).step = "uncause" \/ (Top(t).step = "clear" /\ cause[e] = NULL),
         At(t, Top(t).step), Continue(t, "end"),
         cause' = [cause EXCEPT ![e] = NULL], rt' = rt, phase' = phase,
         children' = children, buffer' = buffer, life' = life,
         refcount' = refcount, location' = location, kept' = kept, calls' = calls
  PROVE  ErrorInv'
<1>1. /\ TypeOK /\ Top(t) = stack[t][1] /\ Top(t) \in Frames
      /\ e \in Live /\ e \in Errors /\ FrameOK(t, 1) /\ 1 \in 1..Len(stack[t])
  BY TopIs
<1>2. /\ Moves(t, 0) /\ stack'[t][1].step = "end"
      /\ stack'[t][1].error = e /\ stack'[t][1].last = Top(t).last
      /\ 1 \in 1..Len(stack'[t])
  BY <1>1, ContinueMoves
<1>3. Destroys(Top(t)) /\ Destroys(stack'[t][1])
  BY <1>2 DEF Destroys
<1>4. \A x \in Errors : ~Owns(e, x)
  <2>1. CASE Top(t).step = "uncause"
    BY <1>1, <2>1 DEF Owns, Uncausing
  <2>2. CASE cause[e] = NULL
    BY <2>2, ErrorAssumption DEF Owns
  <2> QED
    BY <2>1, <2>2
<1>5. /\ cause \in [Errors -> Errors \cup {NULL}] /\ cause'[e] = NULL
      /\ \A x \in Errors : x # e => cause'[x] = cause[x]
      /\ cause' \in [Errors -> Errors \cup {NULL}]
      /\ NULL \notin Errors
  <2>1. cause \in [Errors -> Errors \cup {NULL}]
    BY <1>1 DEF TypeOK
  <2> QED
    BY <1>1, <2>1, ErrorAssumption
<1>6. \A f, x \in Errors : Owns(f, x)' <=> Owns(f, x)
  <2> SUFFICES ASSUME NEW f \in Errors, NEW x \in Errors
               PROVE  Owns(f, x)' <=> Owns(f, x)
    OBVIOUS
  <2>1. CASE f = e
    <3>1. cause'[f] # x
      BY <1>5, <2>1
    <3> QED
      BY <1>4, <2>1, <3>1 DEF Owns
  <2>2. CASE f # e
    <3>1. Uncausing(f)' <=> Uncausing(f)
      BY <1>1, <1>2, <2>2, MovesUncausing
    <3> QED
      BY <1>5, <2>2, <3>1 DEF Owns
  <2> QED
    BY <2>1, <2>2
<1>7. \A u \in Threads : \A x : Unrefs(u, x)' <=> Unrefs(u, x)
  <2>1. \A x : ~Unrefs(t, x)
    BY DEF Unrefs, At, Top
  <2> QED
    BY <1>2, <2>1, MovesUnrefs
<1>8. Live' = Live
  BY DEF Live
<1>9. TypeOK'
  <2>1. stack' \in [Threads -> Seq(Frames)]
    BY <1>2 DEF Moves
  <2> QED
    BY <1>1, <1>5, <2>1 DEF TypeOK, IsInjective
<1>10. ASSUME NEW x \in Errors
       PROVE  Counted(x)' /\ Owners(x)' = Owners(x)
  <2>1. \A u \in Threads : /\ location'[u] = x <=> location[u] = x
                           /\ kept'[u] = x <=> kept[u] = x
                           /\ Unrefs(u, x)' <=> Unrefs(u, x)
    BY <1>7
  <2>2. \A f \in Errors : Owns(f, x)' <=> Owns(f, x)
    BY <1>6
  <2>3. Owners(x)' = Owners(x) /\ Held(x)' = Held(x) /\ Used(x)' = Used(x)
    BY <2>1, <2>2, OwnersStay
  <2>4. Counted(x)
    BY DEF ErrorInv, CountInv
  <2> QED
    BY <1>8, <2>3, <2>4, CountedStays
<1>11. CountInv'
  BY <1>10 DEF CountInv
<1>12. FrameInv'
  <2>1. ASSUME NEW u \in Threads, NEW i \in 1..Len(stack'[u]),
               u # t \/ i # 1 \/ 0 = 1, NEW f, f = stack'[u][i]
        PROVE  /\ f.error \in Live'
               /\ cause[f.error] = NULL => cause'[f.error] = NULL
               /\ Destroys(f) /\ ~f.last => refcount'[f.error] = refcount[f.error]
               /\ f.last => children' # <<>> /\ children'[1] = children[1]
    <3>1. PICK k \in 1..Len(stack[u]) : f = stack[u][k]
      BY <1>2, <2>1 DEF Moves
    <3>2. FrameOK(u, k) /\ f.error \in Live /\ f.error \in Errors
      BY <3>1 DEF ErrorInv, FrameInv, FrameOK, Live
    <3>3. cause[f.error] = NULL => cause'[f.error] = NULL
      BY <1>5, <3>2
    <3> QED
      BY <1>8, <3>1, <3>2, <3>3 DEF FrameOK
  <2>2. FrameOK(t, 1)'
    <3>1. Len(stack[t]) = Len(stack'[t])
      <4>1. Len(stack[t]) = Len(stack'[t]) + 0 /\ stack' \in [Threads -> Seq(Frames)]
        BY <1>2 DEF Moves
      <4>2. Len(stack'[t]) \in Nat
        BY <4>1, LenProperties
      <4> QED
        BY <4>1, <4>2
    <3>2. Top(t).last =>
            /\ t = Main /\ phase' = "walking" /\ 1 = Len(stack'[t])
            /\ children' # <<>> /\ e = children'[1]
      BY <1>1, <3>1 DEF FrameOK
    <3>3. ~Top(t).last => refcount'[e] = 0
      BY <1>1, <1>3 DEF FrameOK
    <3> QED
      BY <1>2, <1>1, <1>5, <1>8, <3>2, <3>3 DEF FrameOK, Destroys
  <2> QED
    BY <1>2, <2>1, <2>2, MovesFrame
<1>13. ChainInv'
  BY <1>2, MovesChain
<1>14. OnceInv'
  BY <1>1, <1>2, <1>3, MovesOnce
<1>15. PhaseInv'
  <2>1. \A x \in Live' : cause[x] = NULL => cause'[x] = NULL
    BY <1>5 DEF Live
  <2> QED
    BY <1>2, <1>8, <2>1, MovesPhase
<1>16. PoolInv'
  BY <1>8 DEF ErrorInv, PoolInv
<1>17. OrderInv'
  <2>1. /\ Size = 0 => \A f, x \in Errors : Owns(f, x) => Under(children, f, x)
        /\ \A S \in SUBSET Live : S # {} =>
             \E x \in S : \A f \in S : ~Owns(f, x)
    BY DEF ErrorInv, OrderInv
  <2>2. Live \subseteq Errors
    BY DEF Live
  <2>3. \A S \in SUBSET Live' : S # {} =>
          \E x \in S : \A f \in S : ~Owns(f, x)'
    BY <1>6, <1>8, <2>1, <2>2
  <2> QED
    BY <1>6, <2>1, <2>3 DEF OrderInv, Size
<1>18. KeptInv'
  <2> SUFFICES ASSUME NEW x \in Live
               PROVE  Kept(x)'
    BY <1>8 DEF KeptInv
  <2>1. Owners(x)' = Owners(x)
    BY <1>10 DEF Live
  <2> QED
    BY <1>2, <1>3, <2>1, MovesKept
<1> QED
  BY <1>9, <1>11, <1>12, <1>13, <1>14, <1>15, <1>16, <1>17, <1>18 DEF ErrorInv

LEMMA ClearCauseStep ==
  ASSUME ErrorInv, NEW t \in Threads, ClearCause(t)
  PROVE  ErrorInv'
<1>1. ~Idle(t) /\ Top(t).step = "uncause" /\ At(t, Top(t).step)
  BY DEF ClearCause, At, Top
<1>2. /\ Continue(t, "end") /\ cause' = [cause EXCEPT ![Top(t).error] = NULL]
      /\ rt' = rt /\ phase' = phase /\ children' = children /\ buffer' = buffer
      /\ life' = life /\ refcount' = refcount /\ location' = location
      /\ kept' = kept /\ calls' = calls
  BY DEF ClearCause, poolVars, clientVars
<1> QED
  BY <1>1, <1>2, EndStep

(* y_Error_clear hands the error's reference to its cause to a y_unref.    *)
LEMMA CascadeStep ==
  ASSUME ErrorInv, NEW t \in Threads, NEW e, NEW c, e = Top(t).error,
         At(t, "clear"), c = cause[e], c # NULL, Cascade(t, c),
         rt' = rt, phase' = phase, children' = children, buffer' = buffer,
         life' = life, refcount' = refcount, cause' = cause,
         location' = location, kept' = kept, calls' = calls
  PROVE  ErrorInv'
<1>1. /\ TypeOK /\ ~Idle(t) /\ Top(t) = stack[t][1] /\ Top(t) \in Frames
      /\ Top(t).step = "clear" /\ e \in Live /\ e \in Errors
      /\ FrameOK(t, 1) /\ 1 \in 1..Len(stack[t]) /\ rt.allocated
      /\ phase \in {"running", "walking"}
  BY TopIs
<1>2. c \in Errors
  BY <1>1 DEF TypeOK
<1>3. Owns(e, c) /\ ~Uncausing(e)
  <2>1. ASSUME Uncausing(e)
        PROVE  FALSE
    <3>1. PICK u \in Threads : \E i \in 1..Len(stack[u]) :
            stack[u][i].error = e /\ stack[u][i].step = "uncause"
      BY <2>1 DEF Uncausing
    <3>2. PICK i \in 1..Len(stack[u]) :
            stack[u][i].error = e /\ stack[u][i].step = "uncause"
      BY <3>1
    <3>3. \A p \in 1..Len(stack[u]), q \in 1..Len(stack[t]) :
            Destroys(stack[u][p]) /\ Destroys(stack[t][q])
              /\ stack[u][p].error = stack[t][q].error => u = t /\ p = q
      BY DEF ErrorInv, OnceInv
    <3>4. Destroys(stack[u][i]) /\ Destroys(stack[t][1])
      BY <1>1, <3>2 DEF Destroys
    <3>5. u = t /\ i = 1
      BY <1>1, <3>2, <3>3, <3>4
    <3> QED
      BY <1>1, <3>2, <3>5
  <2> QED
    BY <1>1, <2>1 DEF Owns, Live
<1>4. c \in Live
  <2>1. Used(c) # {}
    BY <1>1, <1>3 DEF Used
  <2> QED
    BY <1>2, <2>1, Owned
<1>5. PICK n \in Nat : n = Len(stack[t]) /\ 1 \in 1..n
  BY <1>1, TopFacts
<1>6. /\ stack' \in [Threads -> Seq(Frames)]
      /\ \A u \in Threads : u # t => stack'[u] = stack[u]
      /\ Len(stack'[t]) = n + 1
      /\ stack'[t][1] = Frame(c, "unref")
      /\ stack'[t][2].step = "uncause"
      /\ stack'[t][2].error = e
      /\ stack'[t][2].last = Top(t).last
      /\ \A i \in 1..n : i # 1 => stack'[t][i + 1] = stack[t][i]
  BY <1>1, <1>2, <1>5, PushFacts
<1>7. PICK f : /\ f = stack'[t][1] /\ f.error = c /\ f.step = "unref"
              /\ f.last = FALSE
  <2>1. PICK f : f = [error |-> c, step |-> "unref", last |-> FALSE]
    OBVIOUS
  <2>2. f.error = c /\ f.step = "unref" /\ f.last = FALSE
    BY <2>1
  <2>3. f = stack'[t][1]
    BY <1>6, <2>1 DEF Frame
  <2> QED
    BY <2>2, <2>3
<1>8. ASSUME NEW i \in 1..n + 1, i # 1
      PROVE  \E k \in 1..n :
               /\ i = k + 1
               /\ stack'[t][i].error = stack[t][k].error
               /\ stack'[t][i].last = stack[t][k].last
               /\ stack'[t][i].step = IF k = 1 THEN "uncause" ELSE stack[t][k].step
  <2>1. i - 1 \in 1..n /\ i = (i - 1) + 1
    BY <1>8
  <2>2. CASE i - 1 = 1
    <3>1. i = 2
      BY <2>2
    <3> QED
      BY <1>1, <1>5, <1>6, <2>1, <2>2, <3>1
  <2>3. CASE i - 1 # 1
    <3>1. stack'[t][i] = stack[t][i - 1]
      BY <1>6, <2>1, <2>3
    <3> QED
      BY <2>1, <2>3, <3>1
  <2> QED
    BY <2>2, <2>3
<1>9. \A k \in 1..n : /\ k + 1 \in 1..n + 1 /\ k + 1 # 1
                      /\ stack'[t][k + 1].error = stack[t][k].error
                      /\ Destroys(stack[t][k]) => Destroys(stack'[t][k + 1])
                      /\ stack[t][k].step = "uncause" =>
                           stack'[t][k + 1].step = "uncause"
  <2> SUFFICES ASSUME NEW k \in 1..n
               PROVE  /\ k + 1 \in 1..n + 1 /\ k + 1 # 1
                      /\ stack'[t][k + 1].error = stack[t][k].error
                      /\ Destroys(stack[t][k]) => Destroys(stack'[t][k + 1])
                      /\ stack[t][k].step = "uncause" =>
                           stack'[t][k + 1].step = "uncause"
    OBVIOUS
  <2>1. k + 1 \in 1..n + 1 /\ k + 1 # 1
    BY <1>5
  <2>2. CASE k = 1
    <3>1. k + 1 = 2
      BY <2>2
    <3> QED
      BY <1>1, <1>6, <2>1, <2>2, <3>1 DEF Destroys
  <2>3. CASE k # 1
    BY <1>6, <2>1, <2>3
  <2> QED
    BY <2>2, <2>3
<1>10. \A u \in Threads : u # t => \A i : stack'[u][i] = stack[u][i]
  BY <1>6
<1>11. \A x : Uncausing(x)' <=> x = e \/ Uncausing(x)
  <2> SUFFICES ASSUME NEW x
               PROVE  Uncausing(x)' <=> x = e \/ Uncausing(x)
    OBVIOUS
  <2>1. ASSUME Uncausing(x)', x # e
        PROVE  Uncausing(x)
    <3>1. PICK u \in Threads : \E i \in 1..Len(stack'[u]) :
            stack'[u][i].error = x /\ stack'[u][i].step = "uncause"
      BY <2>1 DEF Uncausing
    <3>2. PICK i \in 1..Len(stack'[u]) :
            stack'[u][i].error = x /\ stack'[u][i].step = "uncause"
      BY <3>1
    <3>3. CASE u # t
      BY <1>6, <3>2, <3>3 DEF Uncausing
    <3>4. CASE u = t
      <4>1. i # 1 /\ i \in 1..n + 1
        BY <1>6, <1>7, <3>2, <3>4
      <4>2. PICK k \in 1..n :
              /\ stack'[t][i].error = stack[t][k].error
              /\ stack'[t][i].step = IF k = 1 THEN "uncause" ELSE stack[t][k].step
        BY <1>8, <4>1
      <4>3. k # 1
        BY <1>1, <2>1, <3>2, <3>4, <4>2
      <4>4. stack[t][k].error = x /\ stack[t][k].step = "uncause"
        BY <3>2, <3>4, <4>2, <4>3
      <4> QED
        BY <1>5, <4>4 DEF Uncausing
    <3> QED
      BY <3>3, <3>4
  <2>2. ASSUME Uncausing(x)
        PROVE  Uncausing(x)'
    <3>1. PICK u \in Threads : \E i \in 1..Len(stack[u]) :
            stack[u][i].error = x /\ stack[u][i].step = "uncause"
      BY <2>2 DEF Uncausing
    <3>2. PICK i \in 1..Len(stack[u]) :
            stack[u][i].error = x /\ stack[u][i].step = "uncause"
      BY <3>1
    <3>3. CASE u # t
      BY <1>6, <3>2, <3>3 DEF Uncausing
    <3>4. CASE u = t
      <4>1. /\ i + 1 \in 1..Len(stack'[t]) /\ stack'[t][i + 1].error = x
            /\ stack'[t][i + 1].step = "uncause"
        BY <1>5, <1>6, <1>9, <3>2, <3>4
      <4> QED
        BY <4>1 DEF Uncausing
    <3> QED
      BY <3>3, <3>4
  <2>3. Uncausing(e)'
    <3>1. 2 \in 1..Len(stack'[t])
      BY <1>5, <1>6
    <3> QED
      BY <1>6, <3>1 DEF Uncausing
  <2> QED
    BY <2>1, <2>2, <2>3
<1>12. \A g, x : Owns(g, x)' <=> g # e /\ Owns(g, x)
  BY <1>11 DEF Owns
<1>13. \A u \in Threads : \A x :
         /\ Unrefs(u, x)' <=> IF u = t THEN x = c ELSE Unrefs(u, x)
         /\ ~Unrefs(t, x)
  <2>1. \A x : ~Unrefs(t, x)
    BY <1>1 DEF Unrefs, At, Top
  <2>2. \A x : Unrefs(t, x)' <=> x = c
    <3>1. stack'[t] # <<>> /\ Head(stack'[t]) = f
      BY <1>5, <1>6, <1>7
    <3> QED
      BY <1>7, <3>1 DEF Unrefs, At, Top, Idle
  <2>3. ASSUME NEW u \in Threads, u # t
        PROVE  \A x : Unrefs(u, x)' <=> Unrefs(u, x)
    BY <1>6, <2>3 DEF Unrefs, At, Top, Idle
  <2> QED
    BY <2>1, <2>2, <2>3
<1>14. Live' = Live
  BY DEF Live
<1>15. TypeOK'
  BY <1>1, <1>6 DEF TypeOK, IsInjective
<1>16. ASSUME NEW x \in Errors
       PROVE  /\ Counted(x)'
              /\ Owners(x)' = Owners(x) \/ Owners(x)' # {}
  <2>1. Counted(x)
    BY DEF ErrorInv, CountInv
  <2>2. CASE x = c
    <3>1. PICK a, b, D : a = <<"cause", e>> /\ b = <<"unref", t>> /\ D = {a, b}
      OBVIOUS
    <3>2. a \in Owners(c) /\ b \notin Owners(c)
      BY <1>1, <1>3, <1>13, <3>1, OwnersAre
    <3>3. a \notin Owners(c)' /\ b \in Owners(c)'
      BY <1>12, <1>13, <3>1, OwnersAreNext
    <3>4. \A v \in Threads :
            /\ <<"location", v>> \in D \/ (location'[v] = c <=> location[v] = c)
            /\ <<"kept", v>> \in D \/ (kept'[v] = c <=> kept[v] = c)
            /\ <<"unref", v>> \in D \/ (Unrefs(v, c)' <=> Unrefs(v, c))
      BY <1>13, <3>1
    <3>5. \A g \in Errors : <<"cause", g>> \in D \/ (Owns(g, c)' <=> Owns(g, c))
      BY <1>12, <3>1
    <3>6. Counted(c)' /\ Owners(c)' # {}
      BY <1>2, <1>4, <1>14, <2>1, <2>2, <3>1, <3>2, <3>3, <3>4, <3>5, OwnersSwap
    <3> QED
      BY <2>2, <3>6
  <2>3. CASE x # c
    <3>1. \A v \in Threads : /\ location'[v] = x <=> location[v] = x
                             /\ kept'[v] = x <=> kept[v] = x
                             /\ Unrefs(v, x)' <=> Unrefs(v, x)
      BY <1>13, <2>3
    <3>2. \A g \in Errors : Owns(g, x)' <=> Owns(g, x)
      BY <1>12, <2>3 DEF Owns
    <3>3. Owners(x)' = Owners(x) /\ Held(x)' = Held(x) /\ Used(x)' = Used(x)
      BY <3>1, <3>2, OwnersStay
    <3> QED
      BY <1>14, <2>1, <3>3, CountedStays
  <2> QED
    BY <2>2, <2>3
<1>17. CountInv'
  BY <1>16 DEF CountInv
<1>18. FrameInv'
  <2> SUFFICES ASSUME NEW u \in Threads, NEW i \in 1..Len(stack'[u])
               PROVE  FrameOK(u, i)'
    BY DEF FrameInv
  <2>1. CASE u # t
    <3>1. FrameOK(u, i) /\ stack'[u] = stack[u]
      BY <1>6, <2>1 DEF ErrorInv, FrameInv
    <3> QED
      BY <1>14, <3>1 DEF FrameOK, Destroys
  <2>2. CASE u = t /\ i = 1
    BY <1>4, <1>7, <1>14, <2>2 DEF FrameOK, Destroys
  <2>3. CASE u = t /\ i # 1
    <3>1. PICK k \in 1..n :
            /\ i = k + 1
            /\ stack'[t][i].error = stack[t][k].error
            /\ stack'[t][i].last = stack[t][k].last
            /\ stack'[t][i].step = IF k = 1 THEN "uncause" ELSE stack[t][k].step
      BY <1>6, <1>8, <2>3
    <3>2. FrameOK(t, k)
      BY <1>5 DEF ErrorInv, FrameInv
    <3>3. stack'[t][i].step = "uncause"
      BY <1>5, <3>1, <3>2 DEF FrameOK
    <3>4. Destroys(stack[t][k])
      BY <1>1, <1>5, <3>1, <3>2, <3>3 DEF FrameOK, Destroys
    <3>5. k = n => i = Len(stack'[t])
      BY <1>6, <3>1
    <3>6. stack[t][k].last =>
            /\ t = Main /\ phase = "walking" /\ i = Len(stack'[t])
            /\ children # <<>> /\ stack[t][k].error = children[1]
      BY <1>5, <3>2, <3>5 DEF FrameOK
    <3>7. ~stack[t][k].last => refcount[stack[t][k].error] = 0
      BY <3>2, <3>4 DEF FrameOK
    <3>8. stack[t][k].error \in Live
      BY <3>2 DEF FrameOK
    <3> QED
      BY <1>14, <2>3, <3>1, <3>3, <3>6, <3>7, <3>8 DEF FrameOK, Destroys
  <2> QED
    BY <2>1, <2>2, <2>3
<1>19. ChainInv'
  <2> SUFFICES ASSUME Size = 0, NEW u \in Threads, NEW i \in 1..Len(stack'[u]),
                      NEW j \in 1..Len(stack'[u]), i < j
               PROVE  Under(children, stack'[u][j].error, stack'[u][i].error)
    BY DEF ChainInv, Size
  <2>1. CASE u # t
    BY <1>6, <2>1 DEF ErrorInv, ChainInv
  <2>2. CASE u = t
    <3>1. j # 1 /\ j \in 1..n + 1 /\ i \in 1..n + 1
      BY <1>6, <2>2
    <3>2. PICK b \in 1..n : j = b + 1 /\ stack'[t][j].error = stack[t][b].error
      BY <1>8, <3>1
    <3>3. CASE i = 1
      <4>1. Under(children, e, c)
        BY <1>1, <1>2, <1>3 DEF ErrorInv, OrderInv
      <4>2. CASE b = 1
        BY <1>1, <1>7, <2>2, <3>2, <3>3, <4>1, <4>2
      <4>3. CASE b # 1
        <5>1. Under(children, stack[t][b].error, e)
          <6>1. 1 < b /\ b \in 1..Len(stack[t])
            BY <1>5, <4>3
          <6> QED
            BY <1>1, <6>1 DEF ErrorInv, ChainInv
        <5>2. children \in Seq(Errors) /\ IsInjective(children)
          BY <1>1 DEF TypeOK
        <5>3. Under(children, stack[t][b].error, c)
          BY <4>1, <5>1, <5>2, UnderFacts
        <5> QED
          BY <1>7, <2>2, <3>2, <3>3, <5>3
      <4> QED
        BY <4>2, <4>3
    <3>4. CASE i # 1
      <4>1. PICK a \in 1..n : i = a + 1 /\ stack'[t][i].error = stack[t][a].error
        BY <1>8, <3>1, <3>4
      <4>2. a < b
        BY <3>2, <4>1
      <4>3. Under(children, stack[t][b].error, stack[t][a].error)
        BY <1>5, <4>2 DEF ErrorInv, ChainInv
      <4> QED
        BY <2>2, <3>2, <4>1, <4>3
    <3> QED
      BY <3>3, <3>4
  <2> QED
    BY <2>1, <2>2
<1>20. OnceInv'
  <2> SUFFICES ASSUME NEW u \in Threads, NEW v \in Threads,
                      NEW i \in 1..Len(stack'[u]), NEW j \in 1..Len(stack'[v]),
                      Destroys(stack'[u][i]), Destroys(stack'[v][j]),
                      stack'[u][i].error = stack'[v][j].error
               PROVE  u = v /\ i = j
    BY DEF OnceInv, Destroys
  <2>1. ASSUME NEW w \in Threads, NEW p \in 1..Len(stack'[w]),
               Destroys(stack'[w][p])
        PROVE  \E k \in 1..Len(stack[w]) :
                 /\ p = (IF w = t THEN k + 1 ELSE k)
                 /\ Destroys(stack[w][k])
                 /\ stack'[w][p].error = stack[w][k].error
    <3>1. CASE w # t
      BY <1>6, <2>1, <3>1
    <3>2. CASE w = t
      <4>1. p # 1 /\ p \in 1..n + 1
        BY <1>6, <1>7, <2>1, <3>2 DEF Destroys
      <4>2. PICK k \in 1..n :
              /\ p = k + 1 /\ stack'[t][p].error = stack[t][k].error
              /\ stack'[t][p].step = IF k = 1 THEN "uncause" ELSE stack[t][k].step
        BY <1>8, <4>1
      <4>3. Destroys(stack[t][k])
        BY <1>1, <2>1, <3>2, <4>2 DEF Destroys
      <4> QED
        BY <1>5, <3>2, <4>2, <4>3
    <3> QED
      BY <3>1, <3>2
  <2>2. PICK a \in 1..Len(stack[u]) :
          /\ i = (IF u = t THEN a + 1 ELSE a)
          /\ Destroys(stack[u][a])
          /\ stack'[u][i].error = stack[u][a].error
    BY <2>1
  <2>3. PICK b \in 1..Len(stack[v]) :
          /\ j = (IF v = t THEN b + 1 ELSE b)
          /\ Destroys(stack[v][b])
          /\ stack'[v][j].error = stack[v][b].error
    BY <2>1
  <2>4. \A p \in 1..Len(stack[u]), q \in 1..Len(stack[v]) :
          Destroys(stack[u][p]) /\ Destroys(stack[v][q])
            /\ stack[u][p].error = stack[v][q].error => u = v /\ p = q
    BY DEF ErrorInv, OnceInv
  <2>5. u = v /\ a = b
    BY <2>2, <2>3, <2>4
  <2> QED
    BY <2>2, <2>3, <2>5
<1>21. PhaseInv'
  <2>1. ASSUME phase = "walking"
        PROVE  /\ t = Main /\ Size = 0
               /\ \A u \in Threads \ {Main} : stack'[u] = <<>>
               /\ stack'[Main][Len(stack'[Main])].last
    <3>1. /\ \A u \in Threads \ {Main} : stack[u] = <<>>
          /\ stack[Main] # <<>> => stack[Main][Len(stack[Main])].last
          /\ Size # 0 => \A x \in Live : cause[x] = NULL
      BY <2>1 DEF ErrorInv, PhaseInv, Idle
    <3>2. t = Main /\ Size = 0
      BY <1>1, <3>1 DEF Idle
    <3>3. stack[t][n].last
      BY <1>1, <1>5, <3>1, <3>2 DEF Idle
    <3>4. n + 1 \in 1..n + 1 /\ n + 1 # 1
      BY <1>5
    <3>5. stack'[t][n + 1].last = stack[t][n].last
      <4>1. PICK k \in 1..n : n + 1 = k + 1
                             /\ stack'[t][n + 1].last = stack[t][k].last
        BY <1>8, <3>4
      <4>2. k = n
        BY <4>1
      <4> QED
        BY <4>1, <4>2
    <3> QED
      BY <1>6, <3>1, <3>2, <3>3, <3>5
  <2> QED
    BY <1>1, <2>1 DEF PhaseInv, Idle, Size
<1>22. PoolInv'
  BY <1>14 DEF ErrorInv, PoolInv
<1>23. OrderInv'
  BY <1>12, <1>14 DEF ErrorInv, OrderInv, Size
<1>24. KeptInv'
  <2> SUFFICES ASSUME NEW x \in Live
               PROVE  Kept(x)'
    BY <1>14 DEF KeptInv
  <2>1. Kept(x) /\ (Owners(x)' = Owners(x) \/ Owners(x)' # {})
    BY <1>16 DEF ErrorInv, KeptInv, Live
  <2>2. ASSUME NEW u \in Threads, NEW k \in 1..Len(stack[u]),
               stack[u][k].error = x, Destroys(stack[u][k])
        PROVE  \E j \in 1..Len(stack'[u]) :
                 stack'[u][j].error = x /\ Destroys(stack'[u][j])
    <3>1. CASE u # t
      BY <1>6, <2>2, <3>1
    <3>2. CASE u = t
      BY <1>5, <1>6, <1>9, <2>2, <3>2
    <3> QED
      BY <3>1, <3>2
  <2> QED
    BY <2>1, <2>2, KeptStays
<1> QED
  BY <1>15, <1>17, <1>18, <1>19, <1>20, <1>21, <1>22, <1>23, <1>24
     DEF ErrorInv

LEMMA ClearStep ==
  ASSUME ErrorInv, NEW t \in Threads, y_Error_clear(t)
  PROVE  ErrorInv'
<1>1. PICK e : e = Top(t).error
  OBVIOUS
<1>2. /\ At(t, "clear")
      /\ IF cause[e] = NULL THEN Continue(t, "end") ELSE Cascade(t, cause[e])
      /\ rt' = rt /\ phase' = phase /\ children' = children /\ buffer' = buffer
      /\ life' = life /\ refcount' = refcount /\ cause' = cause
      /\ location' = location /\ kept' = kept /\ calls' = calls
  BY <1>1 DEF y_Error_clear, poolVars, errorVars, clientVars
<1>3. ~Idle(t) /\ Top(t).step = "clear"
  BY <1>2 DEF At, Top
<1>4. CASE cause[e] = NULL
  <2>1. cause \in [Errors -> Errors \cup {NULL}]
    BY DEF ErrorInv, TypeOK
  <2>2. cause' = [cause EXCEPT ![e] = NULL]
    BY <1>2, <1>4, <2>1
  <2> QED
    BY <1>1, <1>2, <1>3, <1>4, <2>2, EndStep
<1>5. CASE cause[e] # NULL
  BY <1>1, <1>2, <1>5, CascadeStep
<1> QED
  BY <1>4, <1>5

(* What is left when the pool of the error e is freed.                     *)
LEMMA PoolIsFreed ==
  ASSUME ErrorInv, NEW e \in Live, FreePool(e), rt' = rt, phase' = phase,
         Size # 0 => phase = "running"
  PROVE  /\ children' \in Seq(Errors) /\ IsInjective(children)'
         /\ buffer' \in Seq(Errors) /\ Len(buffer') <= Size
         /\ Live \ {e} \subseteq Range(children')
         /\ phase = "running" =>
              /\ IsInjective(buffer')
              /\ Range(buffer') \subseteq Range(children')
              /\ Range(buffer') \cap (Live \ {e}) = {}
         /\ \A f, g \in Live \ {e} :
              Under(children, f, g) => Under(children', f, g)
         /\ phase = "walking" /\ children # <<>> /\ children[1] # e =>
              children' # <<>> /\ children'[1] = children[1]
<1>1. /\ children \in Seq(Errors) /\ IsInjective(children)
      /\ buffer \in Seq(Errors) /\ Len(buffer) <= Size /\ Size \in Nat
      /\ Live \subseteq Range(children) /\ e \in Errors
  BY ErrorAssumption DEF ErrorInv, TypeOK, PoolInv, Size, Runtimes, Live
<1>2. phase = "running" => /\ IsInjective(buffer)
                           /\ Range(buffer) \subseteq Range(children)
                           /\ Range(buffer) \cap Live = {}
  BY DEF ErrorInv, PoolInv
<1>3. CASE Size = 0
  <2>1. children' = RemoveFirst(children, e) /\ buffer' = buffer
    BY <1>3 DEF FreePool, Size
  <2>2. PICK r : r = children'
    OBVIOUS
  <2>3. /\ r \in Seq(Errors) /\ IsInjective(r) /\ Range(r) = Range(children) \ {e}
        /\ \A f, g : f # e /\ g # e /\ Under(children, f, g) => Under(r, f, g)
        /\ children[1] # e => r # <<>> /\ r[1] = children[1]
    <3>1. e \in Range(children) /\ r = RemoveFirst(children, e)
      BY <1>1, <2>1, <2>2
    <3> QED
      BY <1>1, <3>1, RemoveFacts
  <2>4. IsInjective(children)'
    BY <2>2, <2>3 DEF IsInjective
  <2>5. phase = "running" => e \notin Range(buffer)
    BY <1>2
  <2> QED
    BY <1>1, <1>2, <2>1, <2>2, <2>3, <2>4, <2>5
<1>4. CASE Size # 0 /\ Len(buffer) < Size
  <2>1. buffer' = Cons(e, buffer) /\ children' = children
    BY <1>4 DEF FreePool, Size, Cons
  <2>2. phase = "running" /\ e \notin Range(buffer) /\ e \in Range(children)
    BY <1>1, <1>2, <1>4
  <2>3. PICK b : b = Cons(e, buffer)
    OBVIOUS
  <2>4. /\ b \in Seq(Errors) /\ IsInjective(b)
        /\ \A x : x \in Range(b) <=> x = e \/ x \in Range(buffer)
    BY <1>1, <1>2, <2>2, <2>3, ConsFacts
  <2>5. Len(b) <= Size
    <3>1. Len(b) = Len(buffer) + 1 /\ Len(buffer) \in Nat
      BY <1>1, <2>3, ConsIndex
    <3> QED
      BY <1>1, <1>4, <3>1
  <2>6. IsInjective(children)'
    BY <1>1, <2>1 DEF IsInjective
  <2>7. b = buffer'
    BY <2>1, <2>3
  <2>8. /\ Range(b) \subseteq Range(children)
        /\ Range(b) \cap (Live \ {e}) = {}
    BY <1>2, <2>2, <2>4
  <2> QED
    BY <1>1, <2>1, <2>2, <2>4, <2>5, <2>6, <2>7, <2>8
<1>5. CASE Size # 0 /\ ~(Len(buffer) < Size)
  <2>1. /\ buffer' = Cons(e, Front(buffer))
        /\ children' = RemoveFirst(children, Last(buffer))
    BY <1>5 DEF FreePool, Size, Cons
  <2>2. phase = "running" /\ e \notin Range(buffer) /\ e \in Range(children)
    BY <1>1, <1>2, <1>5
  <2>3. Len(buffer) \in Nat /\ Len(buffer) = Size /\ Len(buffer) > 0
    <3>1. Len(buffer) \in Nat
      BY <1>1, LenProperties
    <3> QED
      BY <1>1, <1>5, <3>1
  <2>4. buffer # <<>>
    BY <2>3
  <2>5. PICK q, l : q = Front(buffer) /\ l = Last(buffer)
    OBVIOUS
  <2>6. /\ q \in Seq(Errors) /\ Len(q) = Len(buffer) - 1
        /\ \A x : x \in Range(buffer) <=> x = l \/ x \in Range(q)
        /\ IsInjective(q) /\ l \notin Range(q)
    BY <1>1, <1>2, <2>2, <2>4, <2>5, FrontFacts
  <2>7. PICK b : b = Cons(e, q)
    OBVIOUS
  <2>8. /\ b \in Seq(Errors) /\ IsInjective(b)
        /\ \A x : x \in Range(b) <=> x = e \/ x \in Range(q)
    <3>1. e \notin Range(q)
      BY <2>2, <2>6
    <3> QED
      BY <1>1, <2>6, <2>7, <3>1, ConsFacts
  <2>9. Len(b) <= Size
    <3>1. Len(b) = Len(q) + 1 /\ Len(q) \in Nat
      BY <1>1, <2>6, <2>7, ConsIndex
    <3> QED
      BY <2>3, <2>6, <3>1
  <2>10. PICK r : r = children'
    OBVIOUS
  <2>11. /\ r \in Seq(Errors) /\ IsInjective(r) /\ Range(r) = Range(children) \ {l}
         /\ \A f, g : f # l /\ g # l /\ Under(children, f, g) => Under(r, f, g)
    <3>1. l \in Range(children) /\ r = RemoveFirst(children, l)
      BY <1>2, <2>1, <2>2, <2>5, <2>6, <2>10
    <3> QED
      BY <1>1, <3>1, RemoveFacts
  <2>12. l \notin Live /\ l # e
    BY <1>2, <2>2, <2>6
  <2>13. IsInjective(children)'
    BY <2>10, <2>11 DEF IsInjective
  <2>14. b = buffer'
    BY <2>1, <2>5, <2>7
  <2>15. /\ Range(b) \subseteq Range(r)
         /\ Range(b) \cap (Live \ {e}) = {}
         /\ Live \subseteq Range(r)
    BY <1>1, <1>2, <2>2, <2>6, <2>8, <2>11, <2>12
  <2>16. \A f, g \in Live : Under(children, f, g) => Under(r, f, g)
    BY <2>11, <2>12
  <2> QED
    BY <2>2, <2>8, <2>9, <2>10, <2>11, <2>13, <2>14, <2>15, <2>16
<1> QED
  BY <1>3, <1>4, <1>5

LEMMA DestroyedStep ==
  ASSUME ErrorInv, NEW t \in Threads, Destroyed(t)
  PROVE  ErrorInv'
<1>1. PICK e : e = Top(t).error
  OBVIOUS
<1>2. /\ At(t, "end") /\ ~Top(t).last /\ life' = [life EXCEPT ![e] = "none"]
      /\ FreePool(e) /\ Pop(t) /\ rt' = rt /\ phase' = phase
      /\ refcount' = refcount /\ cause' = cause /\ location' = location
      /\ kept' = kept /\ calls' = calls
  BY <1>1 DEF Destroyed, clientVars
<1>3. /\ TypeOK /\ ~Idle(t) /\ Top(t) = stack[t][1] /\ Top(t) \in Frames
      /\ Top(t).step = "end" /\ e \in Live /\ e \in Errors
      /\ FrameOK(t, 1) /\ 1 \in 1..Len(stack[t]) /\ rt.allocated
      /\ phase \in {"running", "walking"}
      /\ phase = "walking" => \A u \in Threads : u # t => Idle(u)
  BY <1>1, <1>2, TopIs
<1>4. Moves(t, 1)
  BY <1>2, <1>3, PopMoves
<1>5. refcount[e] = 0 /\ cause[e] = NULL /\ Owners(e) = {}
  <2>1. refcount[e] = 0 /\ cause[e] = NULL
    BY <1>1, <1>2, <1>3 DEF FrameOK, Destroys
  <2> QED
    BY <1>3, <2>1, Unowned
<1>6. \A u \in Threads : \A k \in 1..Len(stack[u]) :
        u # t \/ k # 1 => stack[u][k].error # e
  <2> SUFFICES ASSUME NEW u \in Threads, NEW k \in 1..Len(stack[u]),
                      u # t \/ k # 1, stack[u][k].error = e
               PROVE  FALSE
    OBVIOUS
  <2>1. \A p \in 1..Len(stack[u]), q \in 1..Len(stack[t]) :
          Destroys(stack[u][p]) /\ Destroys(stack[t][q])
            /\ stack[u][p].error = stack[t][q].error => u = t /\ p = q
    BY DEF ErrorInv, OnceInv
  <2>2. Destroys(stack[t][1]) /\ stack[t][1].error = e
    BY <1>1, <1>3 DEF Destroys
  <2>3. ~Destroys(stack[u][k])
    BY <1>3, <2>1, <2>2
  <2>4. stack[u][k] \in Frames /\ FrameOK(u, k) /\ stack[u] # <<>>
    BY <1>3 DEF TypeOK, ErrorInv, FrameInv
  <2>5. stack[u][k].step = "unref"
    BY <2>3, <2>4 DEF Frames, Destroys
  <2>6. k = 1
    BY <2>4, <2>5 DEF FrameOK
  <2>7. Unrefs(u, e)
    <3>1. Head(stack[u]) = stack[u][1]
      BY <1>3, <2>4 DEF TypeOK
    <3> QED
      BY <2>4, <2>5, <2>6, <3>1 DEF Unrefs, At, Top, Idle
  <2> QED
    BY <1>5, <2>7 DEF Owners, Used
<1>7. Size # 0 => phase = "running"
  <2> SUFFICES ASSUME Size # 0, phase = "walking"
               PROVE  FALSE
    BY <1>3
  <2>1. /\ ~Idle(Main) => stack[Main][Len(stack[Main])].last
        /\ \A i \in 1..Len(stack[Main]) : stack[Main][i].step \in {"clear", "end"}
        /\ \A u \in Threads \ {Main} : Idle(u)
    BY DEF ErrorInv, PhaseInv
  <2>2. t = Main
    BY <1>3, <2>1
  <2>3. PICK n \in Nat : n = Len(stack[Main]) /\ n \in 1..Len(stack[Main]) /\ n > 0
    BY <1>3, <2>2, TopFacts
  <2>4. stack[Main][n].last
    BY <1>3, <2>1, <2>2, <2>3
  <2>5. n # 1
    BY <1>2, <1>3, <2>2, <2>4
  <2>6. FrameOK(Main, n) /\ n > 1
    <3>1. n > 1
      <4>1. n \in Nat /\ n > 0
        BY <2>3
      <4> QED
        BY <4>1, <2>5
    <3> QED
      BY <2>2, <2>3, <3>1 DEF ErrorInv, FrameInv
  <2>7. stack[Main][n].step = "uncause"
    BY <2>6 DEF FrameOK
  <2> QED
    BY <2>1, <2>3, <2>7
<1>8. /\ children' \in Seq(Errors) /\ IsInjective(children)'
      /\ buffer' \in Seq(Errors) /\ Len(buffer') <= Size
      /\ Live \ {e} \subseteq Range(children')
      /\ phase = "running" =>
           /\ IsInjective(buffer')
           /\ Range(buffer') \subseteq Range(children')
           /\ Range(buffer') \cap (Live \ {e}) = {}
      /\ \A f, g \in Live \ {e} :
           Under(children, f, g) => Under(children', f, g)
      /\ phase = "walking" /\ children # <<>> /\ children[1] # e =>
           children' # <<>> /\ children'[1] = children[1]
  BY <1>2, <1>3, <1>7, PoolIsFreed
<1>9. Live' = Live \ {e}
  <2>1. life \in [Errors -> {"none", "live"}]
    BY <1>3 DEF TypeOK
  <2> QED
    BY <1>2, <1>3, <2>1 DEF Live
<1>10. \A x : Uncausing(x)' <=> Uncausing(x)
  BY <1>3, <1>4, MovesUncausing
<1>11. ASSUME NEW f \in Errors, NEW x \in Errors
       PROVE  /\ Owns(f, x)' <=> Owns(f, x)
              /\ Owns(f, x) => f \in Live \ {e} /\ x \in Live \ {e}
  <2>1. CASE f = e
    BY <1>2, <1>5, <2>1, ErrorAssumption DEF Owns
  <2>2. CASE f # e
    <3>1. life'[f] = life[f]
      BY <1>2, <1>3, <2>2 DEF TypeOK
    <3>2. Owns(f, x)' <=> Owns(f, x)
      BY <1>2, <1>10, <3>1 DEF Owns
    <3>3. ASSUME Owns(f, x)
          PROVE  f \in Live /\ x \in Live /\ x # e
      <4>1. Used(x) # {}
        BY <3>3 DEF Used
      <4>2. x \in Live
        BY <4>1, Owned
      <4>3. x # e
        BY <1>5, <4>1 DEF Owners
      <4> QED
        BY <3>3, <4>2, <4>3 DEF Owns, Live
    <3> QED
      BY <2>2, <3>2, <3>3
  <2> QED
    BY <2>1, <2>2
<1>12. \A u \in Threads : \A x : Unrefs(u, x)' <=> Unrefs(u, x)
  <2>1. \A x : ~Unrefs(t, x)
    BY <1>3 DEF Unrefs, At, Top
  <2> QED
    BY <1>4, <2>1, MovesUnrefs
<1>13. TypeOK'
  <2>1. stack' \in [Threads -> Seq(Frames)]
    BY <1>4 DEF Moves
  <2>2. life' \in [Errors -> {"none", "live"}]
    BY <1>2, <1>3 DEF TypeOK
  <2> QED
    BY <1>2, <1>3, <1>8, <2>1, <2>2 DEF TypeOK, Size
<1>14. ASSUME NEW x \in Errors
       PROVE  Counted(x)' /\ Owners(x)' = Owners(x)
  <2>1. \A u \in Threads : /\ location'[u] = x <=> location[u] = x
                           /\ kept'[u] = x <=> kept[u] = x
                           /\ Unrefs(u, x)' <=> Unrefs(u, x)
    BY <1>2, <1>12
  <2>2. \A f \in Errors : Owns(f, x)' <=> Owns(f, x)
    BY <1>11
  <2>3. Owners(x)' = Owners(x) /\ Held(x)' = Held(x) /\ Used(x)' = Used(x)
    BY <2>1, <2>2, OwnersStay
  <2>4. Counted(x)
    BY DEF ErrorInv, CountInv
  <2>5. CASE x = e
    <3>1. Held(x) = {} /\ Used(x) = {}
      BY <1>5, <2>5 DEF Owners
    <3> QED
      BY <1>9, <2>3, <2>5, <3>1 DEF Counted
  <2>6. CASE x # e
    <3>1. x \in Live' <=> x \in Live
      BY <1>9, <2>6
    <3> QED
      BY <1>2, <2>3, <2>4, <3>1, CountedStays
  <2> QED
    BY <2>3, <2>5, <2>6
<1>15. CountInv'
  BY <1>14 DEF CountInv
<1>16. ASSUME NEW u \in Threads, NEW i \in 1..Len(stack'[u]), NEW f, f = stack'[u][i]
       PROVE  \E k \in 1..Len(stack[u]) :
                f = stack[u][k] /\ FrameOK(u, k) /\ f.error \in Live \ {e}
  <2>1. PICK k \in 1..Len(stack[u]) : k = Was(t, 1, u, i) /\ f = stack[u][k]
    BY <1>4, <1>16 DEF Moves
  <2>2. u # t \/ k # 1
    BY <2>1 DEF Was
  <2>3. FrameOK(u, k)
    BY DEF ErrorInv, FrameInv
  <2>4. f.error \in Live /\ f.error # e
    BY <1>6, <2>1, <2>2, <2>3 DEF FrameOK
  <2> QED
    BY <2>1, <2>3, <2>4
<1>17. FrameInv'
  <2>1. ASSUME NEW u \in Threads, NEW i \in 1..Len(stack'[u]), NEW f, f = stack'[u][i]
        PROVE  /\ f.error \in Live'
               /\ cause[f.error] = NULL => cause'[f.error] = NULL
               /\ Destroys(f) /\ ~f.last => refcount'[f.error] = refcount[f.error]
               /\ f.last => children' # <<>> /\ children'[1] = children[1]
    <3>1. PICK k \in 1..Len(stack[u]) :
            f = stack[u][k] /\ FrameOK(u, k) /\ f.error \in Live \ {e}
      BY <1>16, <2>1
    <3>2. f.last => phase = "walking" /\ children # <<>> /\ f.error = children[1]
      BY <3>1 DEF FrameOK
    <3> QED
      BY <1>2, <1>8, <1>9, <3>1, <3>2
  <2> QED
    BY <1>2, <1>4, <2>1, MovesFrame
<1>18. ChainInv'
  <2>1. ASSUME NEW u \in Threads, NEW i \in 1..Len(stack'[u])
        PROVE  stack'[u][i].error \in Live \ {e}
    BY <1>16
  <2> QED
    BY <1>2, <1>4, <1>8, <2>1, MovesChain
<1>19. OnceInv'
  BY <1>3, <1>4, MovesOnce
<1>20. PhaseInv'
  BY <1>2, <1>3, <1>4, <1>9, MovesPhase
<1>21. PoolInv'
  BY <1>2, <1>3, <1>8, <1>9 DEF PoolInv
<1>22. OrderInv'
  <2>1. /\ Size = 0 => \A f, x \in Errors : Owns(f, x) => Under(children, f, x)
        /\ \A S \in SUBSET Live : S # {} =>
             \E x \in S : \A f \in S : ~Owns(f, x)
    BY DEF ErrorInv, OrderInv
  <2>2. Size = 0 => \A f, x \in Errors : Owns(f, x)' => Under(children', f, x)
    BY <1>8, <1>11, <2>1
  <2>3. \A S \in SUBSET Live' : S # {} =>
          \E x \in S : \A f \in S : ~Owns(f, x)'
    <3>1. Live \subseteq Errors
      BY DEF Live
    <3> QED
      BY <1>9, <1>11, <2>1, <3>1
  <2> QED
    BY <1>2, <2>2, <2>3 DEF OrderInv, Size, Under
<1>23. KeptInv'
  <2> SUFFICES ASSUME NEW x \in Live, x # e
               PROVE  Kept(x)'
    BY <1>9 DEF KeptInv
  <2>1. Owners(x)' = Owners(x)
    BY <1>14 DEF Live
  <2> QED
    BY <1>1, <1>3, <1>4, <2>1, MovesKept
<1> QED
  BY <1>13, <1>15, <1>17, <1>18, <1>19, <1>20, <1>21, <1>22, <1>23 DEF ErrorInv

-----------------------------------------------------------------------------
(* The end. *)

(* An error that is cleared because its pool goes has no owner among the   *)
(* errors: they went before it.                                            *)
LEMMA LastResortDoneStep ==
  ASSUME ErrorInv, LastResortDone
  PROVE  ErrorInv'
<1>1. PICK e : e = Top(Main).error
  OBVIOUS
<1>2. /\ At(Main, "end") /\ Top(Main).last /\ life' = [life EXCEPT ![e] = "none"]
      /\ children' = RemoveFirst(children, e) /\ Pop(Main)
      /\ rt' = rt /\ phase' = phase /\ buffer' = buffer /\ refcount' = refcount
      /\ cause' = cause /\ location' = location /\ kept' = kept /\ calls' = calls
      /\ Main \in Threads
  BY <1>1, ErrorAssumption DEF LastResortDone, clientVars
<1>3. /\ TypeOK /\ ~Idle(Main) /\ Top(Main) = stack[Main][1]
      /\ Top(Main) \in Frames /\ Top(Main).step = "end"
      /\ e \in Live /\ e \in Errors /\ FrameOK(Main, 1) /\ rt.allocated
      /\ phase = "walking" => \A u \in Threads : u # Main => Idle(u)
  BY <1>1, <1>2, TopIs
<1>4. Moves(Main, 1)
  BY <1>2, <1>3, PopMoves
<1>5. /\ phase = "walking" /\ 1 = Len(stack[Main]) /\ children # <<>>
      /\ e = children[1] /\ cause[e] = NULL
  BY <1>1, <1>2, <1>3 DEF FrameOK
<1>6. \A u \in Threads : Len(stack'[u]) = 0 /\ stack'[u] = <<>>
  <2>1. stack' \in [Threads -> Seq(Frames)]
    BY <1>4 DEF Moves
  <2>2. ASSUME NEW u \in Threads, u # Main
        PROVE  stack'[u] = <<>>
    BY <1>3, <1>4, <1>5, <2>2 DEF Moves, Idle
  <2>3. stack'[Main] = <<>>
    <3>1. Len(stack[Main]) = Len(stack'[Main]) + 1
      BY <1>2, <1>4 DEF Moves
    <3>2. Len(stack'[Main]) \in Nat
      BY <1>2, <2>1, LenProperties
    <3>3. Len(stack'[Main]) = 0
      BY <1>5, <3>1, <3>2
    <3> QED
      BY <1>2, <2>1, <3>3, EmptySeq
  <2> QED
    BY <2>2, <2>3
<1>7. /\ children \in Seq(Errors) /\ IsInjective(children)
      /\ Live \subseteq Range(children)
  BY <1>3 DEF TypeOK, ErrorInv, PoolInv
<1>8. PICK r : r = RemoveFirst(children, e)
  OBVIOUS
<1>9. /\ r \in Seq(Errors) /\ IsInjective(r) /\ Range(r) = Range(children) \ {e}
      /\ \A f, g : f # e /\ g # e /\ Under(children, f, g) => Under(r, f, g)
  <2>1. e \in Range(children)
    BY <1>3, <1>7
  <2> QED
    BY <1>7, <1>8, <2>1, RemoveFacts
<1>10. Live' = Live \ {e}
  <2>1. life \in [Errors -> {"none", "live"}]
    BY <1>3 DEF TypeOK
  <2> QED
    BY <1>2, <1>3, <2>1 DEF Live
<1>11. \A x : ~Uncausing(x)' /\ ~Uncausing(x)
  <2>1. \A x : ~Uncausing(x)'
    BY <1>6 DEF Uncausing
  <2>2. \A u \in Threads : \A i \in 1..Len(stack[u]) : stack[u][i].step = "end"
    BY <1>3, <1>5 DEF Idle
  <2> QED
    BY <2>1, <2>2 DEF Uncausing
<1>12. ASSUME NEW f \in Errors, NEW x \in Errors
       PROVE  /\ Owns(f, x)' <=> Owns(f, x)
              /\ Owns(f, x) => f \in Live \ {e} /\ x \in Live \ {e}
  <2>1. CASE f = e
    BY <1>2, <1>5, <2>1, ErrorAssumption DEF Owns
  <2>2. CASE f # e
    <3>1. life'[f] = life[f]
      BY <1>2, <1>3, <2>2 DEF TypeOK
    <3>2. Owns(f, x)' <=> Owns(f, x)
      BY <1>2, <1>11, <3>1 DEF Owns
    <3>3. ASSUME Owns(f, x)
          PROVE  f \in Live /\ x \in Live /\ x # e
      <4>1. Used(x) # {}
        BY <3>3 DEF Used
      <4>2. x \in Live
        BY <4>1, Owned
      <4>3. CASE Size = 0
        <5>1. Under(children, f, x)
          BY <3>3, <4>3 DEF ErrorInv, OrderInv
        <5>2. x # children[1]
          BY <1>7, <5>1, UnderFacts
        <5> QED
          BY <1>5, <3>3, <4>2, <5>2 DEF Owns, Live
      <4>4. CASE Size # 0
        <5>1. \A g \in Live : cause[g] = NULL
          BY <1>5, <4>4 DEF ErrorInv, PhaseInv
        <5> QED
          BY <3>3, <5>1, ErrorAssumption DEF Owns, Live
      <4> QED
        BY <4>3, <4>4
    <3> QED
      BY <2>2, <3>2, <3>3
  <2> QED
    BY <2>1, <2>2
<1>13. \A u \in Threads : \A x : ~Unrefs(u, x)' /\ ~Unrefs(u, x)
  <2>1. \A u \in Threads : \A x : ~Unrefs(u, x)'
    BY <1>6 DEF Unrefs, At, Idle
  <2>2. \A x : ~Unrefs(Main, x)
    BY <1>3 DEF Unrefs, At, Top
  <2>3. \A u \in Threads : u # Main => \A x : ~Unrefs(u, x)
    BY <1>3, <1>5 DEF Unrefs, At
  <2> QED
    BY <2>1, <2>2, <2>3
<1>14. TypeOK'
  <2>1. stack' \in [Threads -> Seq(Frames)]
    BY <1>4 DEF Moves
  <2>2. life' \in [Errors -> {"none", "live"}]
    BY <1>2, <1>3 DEF TypeOK
  <2>3. children' \in Seq(Errors) /\ IsInjective(children)'
    BY <1>2, <1>8, <1>9 DEF IsInjective
  <2> QED
    BY <1>2, <1>3, <2>1, <2>2, <2>3 DEF TypeOK
<1>15. ASSUME NEW x \in Errors
       PROVE  Counted(x)' /\ Owners(x)' = Owners(x)
  <2>1. \A u \in Threads : /\ location'[u] = x <=> location[u] = x
                           /\ kept'[u] = x <=> kept[u] = x
                           /\ Unrefs(u, x)' <=> Unrefs(u, x)
    BY <1>2, <1>13
  <2>2. \A f \in Errors : Owns(f, x)' <=> Owns(f, x)
    BY <1>12
  <2>3. Owners(x)' = Owners(x) /\ Held(x)' = Held(x) /\ Used(x)' = Used(x)
    BY <2>1, <2>2, OwnersStay
  <2>4. Counted(x)
    BY DEF ErrorInv, CountInv
  <2>5. CASE x = e
    <3>1. Used(e) = {}
      <4>1. \A f \in Errors : ~Owns(f, e)
        BY <1>3, <1>12
      <4> QED
        BY <1>13, <4>1 DEF Used
    <3> QED
      BY <1>2, <1>5, <1>10, <2>3, <2>5, <3>1 DEF Counted
  <2>6. CASE x # e
    <3>1. x \in Live' <=> x \in Live
      BY <1>10, <2>6
    <3> QED
      BY <1>2, <2>3, <2>4, <3>1, CountedStays
  <2> QED
    BY <2>3, <2>5, <2>6
<1>16. CountInv'
  BY <1>15 DEF CountInv
<1>17. FrameInv' /\ ChainInv' /\ OnceInv'
  BY <1>6 DEF FrameInv, ChainInv, OnceInv
<1>18. PhaseInv'
  BY <1>2, <1>3, <1>4, <1>10, MovesPhase
<1>19. PoolInv'
  BY <1>2, <1>5, <1>7, <1>8, <1>9, <1>10 DEF PoolInv
<1>20. OrderInv'
  <2>1. /\ Size = 0 => \A f, x \in Errors : Owns(f, x) => Under(children, f, x)
        /\ \A S \in SUBSET Live : S # {} =>
             \E x \in S : \A f \in S : ~Owns(f, x)
    BY DEF ErrorInv, OrderInv
  <2>2. Size = 0 => \A f, x \in Errors : Owns(f, x)' => Under(children', f, x)
    BY <1>2, <1>8, <1>9, <1>12, <2>1
  <2>3. \A S \in SUBSET Live' : S # {} =>
          \E x \in S : \A f \in S : ~Owns(f, x)'
    <3>1. Live \subseteq Errors
      BY DEF Live
    <3> QED
      BY <1>10, <1>12, <2>1, <3>1
  <2> QED
    BY <1>2, <2>2, <2>3 DEF OrderInv, Size, Under
<1>21. KeptInv'
  <2> SUFFICES ASSUME NEW x \in Live, x # e
               PROVE  Kept(x)'
    BY <1>10 DEF KeptInv
  <2>1. Owners(x)' = Owners(x)
    BY <1>15 DEF Live
  <2> QED
    BY <1>1, <1>2, <1>3, <1>4, <2>1, MovesKept
<1> QED
  BY <1>14, <1>16, <1>17, <1>18, <1>19, <1>20, <1>21 DEF ErrorInv

(* The phases of the end, while no call is under way.                      *)
LEMMA PhaseStep ==
  ASSUME ErrorInv, AllIdle, rt.allocated \/ Live = {},
         phase' \in {"orphaned", "walking", "done"},
         phase' = "orphaned" => phase \in {"running", "orphaned"},
         phase' = "walking" /\ Size # 0 => \A e \in Live : cause[e] = NULL,
         rt' \in Runtimes, rt'.pool_buffer_size = Size,
         ~rt'.allocated => Live = {},
         children' = children, buffer' = buffer, life' = life, cause' = cause,
         refcount' = refcount, location' = location, kept' = kept,
         stack' = stack, calls' = calls
  PROVE  ErrorInv'
<1>1. Live' = Live /\ Size' = Size
  BY DEF Live, Size
<1>2. /\ \A f, x : Owns(f, x)' <=> Owns(f, x)
      /\ \A u, x : Unrefs(u, x)' <=> Unrefs(u, x)
  BY DEF Owns, Uncausing, Unrefs, At, Top, Idle
<1>3. \A u \in Threads : stack[u] = <<>> /\ Len(stack[u]) = 0
  BY DEF AllIdle, Idle
<1>4. TypeOK'
  BY <1>1 DEF ErrorInv, TypeOK, IsInjective, Size
<1>5. ASSUME NEW x \in Errors
      PROVE  Counted(x)' /\ Owners(x)' = Owners(x)
  <2>1. \A u \in Threads : /\ location'[u] = x <=> location[u] = x
                           /\ kept'[u] = x <=> kept[u] = x
                           /\ Unrefs(u, x)' <=> Unrefs(u, x)
    BY <1>2
  <2>2. \A f \in Errors : Owns(f, x)' <=> Owns(f, x)
    BY <1>2
  <2>3. Owners(x)' = Owners(x) /\ Held(x)' = Held(x) /\ Used(x)' = Used(x)
    BY <2>1, <2>2, OwnersStay
  <2>4. Counted(x)
    BY DEF ErrorInv, CountInv
  <2> QED
    BY <1>1, <2>3, <2>4, CountedStays
<1>6. CountInv'
  BY <1>5 DEF CountInv
<1>7. FrameInv' /\ ChainInv' /\ OnceInv'
  BY <1>3 DEF FrameInv, ChainInv, OnceInv
<1>8. PhaseInv'
  <2>1. AllIdle'
    BY <1>3 DEF AllIdle, Idle
  <2> QED
    BY <1>1, <1>3, <2>1, ErrorAssumption DEF PhaseInv, AllIdle, Idle
<1>9. PoolInv'
  BY <1>1 DEF ErrorInv, PoolInv
<1>10. OrderInv'
  BY <1>1, <1>2 DEF ErrorInv, OrderInv, Size
<1>11. KeptInv'
  <2> SUFFICES ASSUME NEW x \in Live
               PROVE  Kept(x)'
    BY <1>1 DEF KeptInv
  <2>1. Kept(x) /\ Owners(x)' = Owners(x)
    BY <1>5 DEF ErrorInv, KeptInv, Live
  <2> QED
    BY <2>1, KeptStays
<1> QED
  BY <1>4, <1>6, <1>7, <1>8, <1>9, <1>10, <1>11 DEF ErrorInv

LEMMA WalkIdle ==
  ASSUME ErrorInv, phase = "walking", Idle(Main)
  PROVE  AllIdle /\ \A u \in Threads : stack[u] = <<>> /\ Len(stack[u]) = 0
<1>1. AllIdle
  BY DEF ErrorInv, PhaseInv, AllIdle
<1> QED
  BY <1>1 DEF AllIdle, Idle

LEMMA EndSteps ==
  ASSUME ErrorInv, "causes_at_end" \notin Freedoms, "outlive" \notin Freedoms,
         y_Runtime_destroy \/ DestroyParent \/ LastChild
  PROVE  ErrorInv'
<1>1. /\ rt \in Runtimes /\ rt.pool_buffer_size = Size
      /\ ~rt.allocated => Live = {}
      /\ phase = "running" => rt.allocated
  BY DEF ErrorInv, TypeOK, PhaseInv, Size
<1>2. EndRule /\ Size # 0 => \A e \in Live : cause[e] = NULL
  BY DEF EndRule, Size
<1>3. CASE y_Runtime_destroy
  <2>1. /\ phase = "running" /\ AllIdle /\ children' = children
        /\ buffer' = buffer /\ life' = life /\ cause' = cause
        /\ refcount' = refcount /\ location' = location /\ kept' = kept
        /\ stack' = stack /\ calls' = calls
    BY <1>3 DEF y_Runtime_destroy, poolVars, errorVars, clientVars
  <2>2. CASE RuntimeOwnsParent
    <3>1. EndRule /\ phase' = "walking" /\ rt' = rt
      BY <1>3, <2>2 DEF y_Runtime_destroy
    <3> QED
      BY <1>1, <1>2, <2>1, <3>1, PhaseStep
  <2>3. CASE ~RuntimeOwnsParent
    <3>1. /\ OutliveRule /\ phase' = "orphaned"
          /\ rt' = [rt EXCEPT !.allocated = ~rt.cleanup_global]
      BY <1>3, <2>3 DEF y_Runtime_destroy
    <3>2. /\ rt' \in Runtimes /\ rt'.pool_buffer_size = Size
          /\ rt'.allocated = ~rt.cleanup_global
      BY <1>1, <3>1 DEF Runtimes
    <3>3. ~rt'.allocated => Live = {}
      BY <1>1, <3>1, <3>2 DEF OutliveRule, Runtimes
    <3> QED
      BY <1>1, <2>1, <3>1, <3>2, <3>3, PhaseStep
  <2> QED
    BY <2>2, <2>3
<1>4. CASE DestroyParent
  <2>1. /\ AllIdle /\ EndRule /\ phase' = "walking" /\ rt' = rt
        /\ children' = children
        /\ buffer' = buffer /\ life' = life /\ cause' = cause
        /\ refcount' = refcount /\ location' = location /\ kept' = kept
        /\ stack' = stack /\ calls' = calls
    BY <1>4 DEF DestroyParent, poolVars, errorVars, clientVars
  <2> QED
    BY <1>1, <1>2, <2>1, PhaseStep
<1>5. CASE LastChild
  <2>1. /\ phase = "walking" /\ Idle(Main) /\ phase' = "done" /\ rt' = rt
        /\ children' = children
        /\ buffer' = buffer /\ life' = life /\ cause' = cause
        /\ refcount' = refcount /\ location' = location /\ kept' = kept
        /\ stack' = stack /\ calls' = calls
    BY <1>5 DEF LastChild, poolVars, errorVars, clientVars
  <2>2. AllIdle
    BY <2>1, WalkIdle
  <2> QED
    BY <1>1, <2>1, <2>2, PhaseStep
<1> QED
  BY <1>3, <1>4, <1>5

(* The pool's newest child has nothing in it, and goes.                    *)
LEMMA EmptyChildStep ==
  ASSUME ErrorInv, phase = "walking", AllIdle, children # <<>>,
         life[Head(children)] = "none", children' = Tail(children),
         stack' = stack, rt' = rt, phase' = phase, buffer' = buffer,
         life' = life, refcount' = refcount, cause' = cause,
         location' = location, kept' = kept, calls' = calls
  PROVE  ErrorInv'
<1>1. /\ TypeOK /\ children \in Seq(Errors) /\ IsInjective(children)
      /\ Live \subseteq Range(children)
  BY DEF ErrorInv, TypeOK, PoolInv
<1>2. PICK r : r = Tail(children)
  OBVIOUS
<1>3. /\ r \in Seq(Errors) /\ IsInjective(r) /\ Head(children) = children[1]
      /\ children[1] \in Errors
      /\ \A x : x \in Range(children) <=> x = children[1] \/ x \in Range(r)
      /\ \A f, g : f # children[1] /\ g # children[1] /\ Under(children, f, g)
                     => Under(r, f, g)
  BY <1>1, <1>2, TailFacts
<1>4. children[1] \notin Live /\ Live \subseteq Range(r)
  BY <1>1, <1>3 DEF Live
<1>5. Live' = Live
  BY DEF Live
<1>6. \A u \in Threads : stack[u] = <<>> /\ Len(stack[u]) = 0
  BY DEF AllIdle, Idle
<1>7. /\ \A f, x : Owns(f, x)' <=> Owns(f, x)
      /\ \A u, x : Unrefs(u, x)' <=> Unrefs(u, x)
  BY DEF Owns, Uncausing, Unrefs, At, Top, Idle
<1>8. TypeOK'
  <2>1. IsInjective(children)'
    BY <1>2, <1>3 DEF IsInjective
  <2> QED
    BY <1>1, <1>2, <1>3, <2>1 DEF TypeOK
<1>9. ASSUME NEW x \in Errors
      PROVE  Counted(x)' /\ Owners(x)' = Owners(x)
  <2>1. \A u \in Threads : /\ location'[u] = x <=> location[u] = x
                           /\ kept'[u] = x <=> kept[u] = x
                           /\ Unrefs(u, x)' <=> Unrefs(u, x)
    BY <1>7
  <2>2. \A f \in Errors : Owns(f, x)' <=> Owns(f, x)
    BY <1>7
  <2>3. Owners(x)' = Owners(x) /\ Held(x)' = Held(x) /\ Used(x)' = Used(x)
    BY <2>1, <2>2, OwnersStay
  <2>4. Counted(x)
    BY DEF ErrorInv, CountInv
  <2> QED
    BY <1>5, <2>3, <2>4, CountedStays
<1>10. CountInv'
  BY <1>9 DEF CountInv
<1>11. FrameInv' /\ ChainInv' /\ OnceInv'
  BY <1>6 DEF FrameInv, ChainInv, OnceInv
<1>12. PhaseInv'
  BY <1>5 DEF ErrorInv, PhaseInv, AllIdle, Idle, Size
<1>13. PoolInv'
  BY <1>2, <1>4, <1>5 DEF PoolInv
<1>14. OrderInv'
  <2>1. ASSUME Size = 0, NEW f \in Errors, NEW x \in Errors, Owns(f, x)
        PROVE  Under(r, f, x)
    <3>1. Used(x) # {}
      BY <2>1 DEF Used
    <3>2. x \in Live /\ f \in Live
      BY <2>1, <3>1, Owned DEF Owns, Live
    <3>3. Under(children, f, x)
      BY <2>1 DEF ErrorInv, OrderInv
    <3> QED
      BY <1>3, <1>4, <3>2, <3>3
  <2>2. \A S \in SUBSET Live : S # {} =>
          \E x \in S : \A f \in S : ~Owns(f, x)
    BY DEF ErrorInv, OrderInv
  <2> QED
    BY <1>2, <1>5, <1>7, <2>1, <2>2 DEF OrderInv, Size
<1>15. KeptInv'
  <2> SUFFICES ASSUME NEW x \in Live
               PROVE  Kept(x)'
    BY <1>5 DEF KeptInv
  <2>1. Kept(x) /\ Owners(x)' = Owners(x)
    BY <1>9 DEF ErrorInv, KeptInv, Live
  <2> QED
    BY <2>1, KeptStays
<1> QED
  BY <1>8, <1>10, <1>11, <1>12, <1>13, <1>14, <1>15 DEF ErrorInv

(* ... or an error, which is cleared first.                                *)
LEMMA LastResortStep ==
  ASSUME ErrorInv, phase = "walking", AllIdle, children # <<>>,
         NEW e, e = Head(children), life[e] # "none",
         stack' = [stack EXCEPT ![Main] =
                     <<[Frame(e, "clear") EXCEPT !.last = TRUE]>>],
         rt' = rt, phase' = phase, children' = children, buffer' = buffer,
         life' = life, refcount' = refcount, cause' = cause,
         location' = location, kept' = kept, calls' = calls
  PROVE  ErrorInv'
<1>1. /\ TypeOK /\ children \in Seq(Errors) /\ Main \in Threads
      /\ stack \in [Threads -> Seq(Frames)]
      /\ life \in [Errors -> {"none", "live"}]
  BY ErrorAssumption DEF ErrorInv, TypeOK
<1>2. e = children[1] /\ e \in Errors
  BY <1>1, TailFacts
<1>3. e \in Live
  BY <1>1, <1>2 DEF Live
<1>4. PICK f \in Frames : /\ f = [Frame(e, "clear") EXCEPT !.last = TRUE]
                          /\ f.error = e /\ f.step = "clear" /\ f.last = TRUE
  <2>1. PICK g : g = Frame(e, "clear")
    OBVIOUS
  <2>2. g \in Frames /\ g.error = e /\ g.step = "clear"
    BY <1>2, <2>1 DEF Frame, Frames
  <2>3. PICK f : f = [g EXCEPT !.last = TRUE]
    OBVIOUS
  <2>4. f \in Frames /\ f.error = e /\ f.step = "clear" /\ f.last = TRUE
    BY <2>2, <2>3 DEF Frames
  <2> QED
    BY <2>1, <2>3, <2>4
<1>5. PICK s \in Seq(Frames) : s = <<f>> /\ Len(s) = 1 /\ s[1] = f /\ s # <<>>
  <2>1. PICK s : s = <<f>>
    OBVIOUS
  <2>2. s \in Seq(Frames) /\ Len(s) = 1 /\ s[1] = f /\ s # <<>>
    BY <2>1
  <2> QED
    BY <2>1, <2>2
<1>6. /\ stack'[Main] = s /\ stack' \in [Threads -> Seq(Frames)]
      /\ \A u \in Threads : u # Main => stack'[u] = stack[u]
  BY <1>1, <1>4, <1>5
<1>7. \A u \in Threads : stack[u] = <<>> /\ Len(stack[u]) = 0
  BY DEF AllIdle, Idle
<1>8. \A u \in Threads : \A i \in 1..Len(stack'[u]) :
        u = Main /\ i = 1 /\ stack'[u][i] = f
  <2>1. ASSUME NEW i \in 1..Len(s)
        PROVE  i = 1 /\ s[i] = f
    BY <1>5
  <2>2. \A u \in Threads : u # Main => Len(stack'[u]) = 0
    BY <1>6, <1>7
  <2>3. ASSUME NEW u \in Threads, NEW i \in 1..Len(stack'[u])
        PROVE  u = Main /\ i = 1 /\ stack'[u][i] = f
    <3>1. u = Main
      BY <2>2
    <3> QED
      BY <1>6, <2>1, <3>1
  <2> QED
    BY <2>3
<1>9. Live' = Live
  BY DEF Live
<1>10. \A x : ~Uncausing(x)' /\ ~Uncausing(x)
  <2>1. \A x : ~Uncausing(x)'
    BY <1>4, <1>8 DEF Uncausing
  <2>2. \A x : ~Uncausing(x)
    BY <1>7 DEF Uncausing
  <2> QED
    BY <2>1, <2>2
<1>11. \A g, x : Owns(g, x)' <=> Owns(g, x)
  BY <1>10 DEF Owns
<1>12. \A u \in Threads : \A x : ~Unrefs(u, x)' /\ ~Unrefs(u, x)
  <2>1. Head(s) = f
    BY <1>5
  <2>2. \A x : ~Unrefs(Main, x)'
    BY <1>4, <1>6, <2>1 DEF Unrefs, At
  <2>3. \A u \in Threads : u # Main => \A x : ~Unrefs(u, x)'
    BY <1>6, <1>7 DEF Unrefs, At, Idle
  <2>4. \A u \in Threads : \A x : ~Unrefs(u, x)
    BY <1>7 DEF Unrefs, At, Idle
  <2> QED
    BY <2>2, <2>3, <2>4
<1>13. TypeOK'
  BY <1>1, <1>6 DEF TypeOK, IsInjective
<1>14. ASSUME NEW x \in Errors
       PROVE  Counted(x)' /\ Owners(x)' = Owners(x)
  <2>1. \A u \in Threads : /\ location'[u] = x <=> location[u] = x
                           /\ kept'[u] = x <=> kept[u] = x
                           /\ Unrefs(u, x)' <=> Unrefs(u, x)
    BY <1>12
  <2>2. \A g \in Errors : Owns(g, x)' <=> Owns(g, x)
    BY <1>11
  <2>3. Owners(x)' = Owners(x) /\ Held(x)' = Held(x) /\ Used(x)' = Used(x)
    BY <2>1, <2>2, OwnersStay
  <2>4. Counted(x)
    BY DEF ErrorInv, CountInv
  <2> QED
    BY <1>9, <2>3, <2>4, CountedStays
<1>15. CountInv'
  BY <1>14 DEF CountInv
<1>16. FrameInv'
  <2> SUFFICES ASSUME NEW u \in Threads, NEW i \in 1..Len(stack'[u])
               PROVE  FrameOK(u, i)'
    BY DEF FrameInv
  <2>1. u = Main /\ i = 1 /\ stack'[u][i] = f /\ Len(stack'[u]) = 1
    BY <1>5, <1>6, <1>8
  <2>2. FrameOK(Main, 1)'
    BY <1>2, <1>3, <1>4, <1>5, <1>6, <1>9 DEF FrameOK, Destroys
  <2> QED
    BY <2>1, <2>2
<1>17. ChainInv' /\ OnceInv'
  BY <1>8 DEF ChainInv, OnceInv
<1>18. PhaseInv'
  <2>1. /\ \A u \in Threads \ {Main} : stack'[u] = <<>>
        /\ stack'[Main][Len(stack'[Main])].last
    BY <1>4, <1>5, <1>6, <1>7
  <2>2. \A i \in 1..Len(stack'[Main]) :
          stack'[Main][i].step \in {"clear", "end"}
    BY <1>1, <1>4, <1>8
  <2>3. /\ Size # 0 => \A x \in Live : cause[x] = NULL
        /\ ~rt.allocated => phase # "running" /\ Live = {}
    BY DEF ErrorInv, PhaseInv
  <2> QED
    BY <1>9, <2>1, <2>2, <2>3 DEF PhaseInv, Idle, Size
<1>19. PoolInv'
  BY <1>9 DEF ErrorInv, PoolInv
<1>20. OrderInv'
  BY <1>9, <1>11 DEF ErrorInv, OrderInv, Size
<1>21. KeptInv'
  <2> SUFFICES ASSUME NEW x \in Live
               PROVE  Kept(x)'
    BY <1>9 DEF KeptInv
  <2>1. Kept(x) /\ Owners(x)' = Owners(x)
    BY <1>14 DEF ErrorInv, KeptInv, Live
  <2> QED
    BY <1>7, <2>1, KeptStays
<1> QED
  BY <1>13, <1>15, <1>16, <1>17, <1>18, <1>19, <1>20, <1>21 DEF ErrorInv

LEMMA NextChildStep ==
  ASSUME ErrorInv, NextChild
  PROVE  ErrorInv'
<1>1. /\ phase = "walking" /\ Idle(Main) /\ children # <<>>
      /\ rt' = rt /\ phase' = phase /\ buffer' = buffer
      /\ life' = life /\ refcount' = refcount /\ cause' = cause
      /\ location' = location /\ kept' = kept /\ calls' = calls
  BY DEF NextChild, errorVars, clientVars
<1>2. AllIdle
  BY <1>1, WalkIdle
<1>3. PICK e : e = Head(children)
  OBVIOUS
<1>4. CASE life[e] = "none"
  <2>1. children' = Tail(children) /\ stack' = stack
    BY <1>3, <1>4 DEF NextChild
  <2> QED
    BY <1>1, <1>2, <1>3, <1>4, <2>1, EmptyChildStep
<1>5. CASE life[e] # "none"
  <2>1. /\ stack' = [stack EXCEPT ![Main] =
                        <<[Frame(e, "clear") EXCEPT !.last = TRUE]>>]
        /\ children' = children
    BY <1>3, <1>5 DEF NextChild
  <2> QED
    BY <1>1, <1>2, <1>3, <1>5, <2>1, LastResortStep
<1> QED
  BY <1>4, <1>5

-----------------------------------------------------------------------------
(* The theorems. *)

LEMMA ErrorInit == Init => ErrorInv
<1> SUFFICES ASSUME Init
             PROVE  ErrorInv
  OBVIOUS
<1>1. /\ phase = "running" /\ children = <<>> /\ buffer = <<>>
      /\ life = [e \in Errors |-> "none"]
      /\ refcount = [e \in Errors |-> 0] /\ cause = [e \in Errors |-> NULL]
      /\ location = [t \in Threads |-> NULL] /\ kept = [t \in Threads |-> NULL]
      /\ stack = [t \in Threads |-> <<>>] /\ calls = [t \in Threads |-> 0]
  BY DEF Init
<1>2. /\ rt \in Runtimes /\ rt.allocated /\ rt.pool_buffer_size \in Nat
  BY ErrorAssumption DEF Init, y_Runtime_new, Runtimes
<1>3. /\ NULL \notin Errors /\ Live = {}
      /\ \A u \in Threads : stack[u] = <<>> /\ Len(stack[u]) = 0
  BY <1>1, ErrorAssumption DEF Live
<1>4. TypeOK
  <2>1. /\ <<>> \in Seq(Errors) /\ <<>> \in Seq(Frames) /\ Len(<<>>) = 0
        /\ IsInjective(<<>>)
    BY DEF IsInjective
  <2> QED
    BY <1>1, <1>2, <2>1 DEF TypeOK
<1>5. CountInv
  <2> SUFFICES ASSUME NEW e \in Errors
               PROVE  Held(e) = {} /\ Used(e) = {}
    BY <1>3 DEF CountInv, Counted
  <2>1. \A u \in Threads : location[u] # e /\ kept[u] # e /\ ~Unrefs(u, e)
    BY <1>1, <1>3 DEF Unrefs, At, Idle
  <2>2. \A f \in Errors : ~Owns(f, e)
    BY <1>1 DEF Owns
  <2> QED
    BY <2>1, <2>2 DEF Held, Used
<1>6. FrameInv /\ ChainInv /\ OnceInv
  BY <1>3 DEF FrameInv, ChainInv, OnceInv
<1>7. PhaseInv
  BY <1>1, <1>2 DEF PhaseInv
<1>8. PoolInv
  BY <1>1, <1>3 DEF PoolInv, Range, IsInjective
<1>9. OrderInv
  BY <1>1, <1>3 DEF OrderInv, Owns
<1>10. KeptInv
  BY <1>3 DEF KeptInv
<1> QED
  BY <1>4, <1>5, <1>6, <1>7, <1>8, <1>9, <1>10 DEF ErrorInv

LEMMA ErrorStutter ==
  ASSUME ErrorInv, UNCHANGED vars
  PROVE  ErrorInv'
<1>1. /\ rt' = rt /\ phase' = phase /\ children' = children
      /\ buffer' = buffer /\ life' = life /\ refcount' = refcount
      /\ cause' = cause /\ location' = location /\ kept' = kept
      /\ stack' = stack /\ calls' = calls
  BY DEF vars, poolVars, errorVars, clientVars
<1>2. Live' = Live
  BY <1>1 DEF Live
<1>3. /\ \A f, x : Owns(f, x)' <=> Owns(f, x)
      /\ \A u, x : Unrefs(u, x)' <=> Unrefs(u, x)
  BY <1>1 DEF Owns, Uncausing, Unrefs, At, Top, Idle
<1>4. TypeOK'
  BY <1>1 DEF ErrorInv, TypeOK, IsInjective
<1>5. ASSUME NEW x \in Errors
      PROVE  Counted(x)' /\ Owners(x)' = Owners(x)
  <2>1. \A u \in Threads : /\ location'[u] = x <=> location[u] = x
                           /\ kept'[u] = x <=> kept[u] = x
                           /\ Unrefs(u, x)' <=> Unrefs(u, x)
    BY <1>1, <1>3
  <2>2. \A f \in Errors : Owns(f, x)' <=> Owns(f, x)
    BY <1>3
  <2>3. Owners(x)' = Owners(x) /\ Held(x)' = Held(x) /\ Used(x)' = Used(x)
    BY <2>1, <2>2, OwnersStay
  <2>4. Counted(x)
    BY DEF ErrorInv, CountInv
  <2> QED
    BY <1>1, <1>2, <2>3, <2>4, CountedStays
<1>6. CountInv'
  BY <1>5 DEF CountInv
<1>7. FrameInv'
  BY <1>1, <1>2 DEF ErrorInv, FrameInv, FrameOK, Destroys
<1>8. ChainInv' /\ OnceInv'
  BY <1>1 DEF ErrorInv, ChainInv, OnceInv, Destroys, Size
<1>9. PhaseInv'
  BY <1>1, <1>2 DEF ErrorInv, PhaseInv, AllIdle, Idle, Size
<1>10. PoolInv'
  BY <1>1, <1>2 DEF ErrorInv, PoolInv
<1>11. OrderInv'
  BY <1>1, <1>2, <1>3 DEF ErrorInv, OrderInv, Size
<1>12. KeptInv'
  <2> SUFFICES ASSUME NEW x \in Live
               PROVE  Kept(x)'
    BY <1>2 DEF KeptInv
  <2>1. Kept(x) /\ Owners(x)' = Owners(x)
    BY <1>5 DEF ErrorInv, KeptInv, Live
  <2> QED
    BY <1>1, <2>1, KeptStays
<1> QED
  BY <1>4, <1>6, <1>7, <1>8, <1>9, <1>10, <1>11, <1>12 DEF ErrorInv

LEMMA ErrorStep ==
  ASSUME "causes_at_end" \notin Freedoms, "outlive" \notin Freedoms,
         ErrorInv, [Next]_vars
  PROVE  ErrorInv'
<1>1. CASE UNCHANGED vars
  BY <1>1, ErrorStutter
<1>2. ASSUME NEW t \in Threads, Step(t)
      PROVE  ErrorInv'
  BY <1>2, UnrefStep, ClearStep, ClearCauseStep, DestroyedStep DEF Step
<1>3. ASSUME NEW t \in Threads, Client(t)
      PROVE  ErrorInv'
  <2>1. ASSUME NEW u \in Threads, HandOver(t, u)
        PROVE  ErrorInv'
    BY <2>1, HandOverStep
  <2> QED
    BY <1>3, <2>1, ThrowStep, KeepCauseStep, CallUnrefStep DEF Client
<1>4. CASE y_Runtime_destroy \/ DestroyParent
  BY <1>4, EndSteps
<1>5. CASE Walk
  BY <1>5, NextChildStep, LastResortDoneStep, EndSteps DEF Walk
<1>6. CASE Rest
  BY <1>6, ErrorStutter DEF Rest
<1> QED
  BY <1>1, <1>2, <1>3, <1>4, <1>5, <1>6 DEF Next

(* If the clients keep to the rules for the end of a runtime the invariant *)
(* holds: every reference to an error is counted, and what is destroyed is *)
(* destroyed once.                                                         *)
THEOREM ErrorsCounted ==
  ASSUME "causes_at_end" \notin Freedoms, "outlive" \notin Freedoms
  PROVE  Spec => []ErrorInv
<1>1. Init => ErrorInv
  BY ErrorInit
<1>2. ErrorInv /\ [Next]_vars => ErrorInv'
  BY ErrorStep
<1> QED
  BY <1>1, <1>2, PTL DEF Spec

(* The variables keep their types; no pool has two places, and the buffer  *)
(* never holds more pools than it has slots.                               *)
THEOREM ErrorTypes ==
  ASSUME "causes_at_end" \notin Freedoms, "outlive" \notin Freedoms
  PROVE  Spec => []TypeOK
<1>1. ErrorInv => TypeOK
  BY DEF ErrorInv
<1> QED
  BY <1>1, ErrorsCounted, PTL

(* y_unref, y_destroy, y_Error_clear and the cleanup of last resort only   *)
(* ever work on errors that are there, however many threads share a cause, *)
(* and while the runtime's memory is there.                                *)
THEOREM ErrorsUsedWhileLive ==
  ASSUME "causes_at_end" \notin Freedoms, "outlive" \notin Freedoms
  PROVE  Spec => []NoUseAfterFree
<1>1. ErrorInv => NoUseAfterFree
  <2> SUFFICES ASSUME ErrorInv, NEW t \in Threads, ~Idle(t)
               PROVE  /\ Top(t).error \in Range(children)
                      /\ life[Top(t).error] = "live" /\ rt.allocated
    BY DEF NoUseAfterFree
  <2>1. At(t, Top(t).step)
    BY DEF At, Top
  <2>2. Top(t).error \in Live /\ rt.allocated
    BY <2>1, TopIs
  <2> QED
    BY <2>2 DEF ErrorInv, PoolInv, Live
<1> QED
  BY <1>1, ErrorsCounted, PTL

(* When the threads have given up what they held and all calls are over no *)
(* error is left: causes are owned, shared or not, and there are no cycles. *)
THEOREM ChainsFreed ==
  ASSUME "causes_at_end" \notin Freedoms, "outlive" \notin Freedoms
  PROVE  Spec => []NoLeak
<1>1. ErrorInv => NoLeak
  <2> SUFFICES ASSUME ErrorInv, AllIdle, Live # {},
                      \A t \in Threads : location[t] = NULL /\ kept[t] = NULL
               PROVE  FALSE
    BY DEF NoLeak
  <2>1. PICK e \in Live : \A f \in Live : ~Owns(f, e)
    BY DEF ErrorInv, OrderInv
  <2>2. e \in Errors /\ NULL \notin Errors
    BY ErrorAssumption DEF Live
  <2>3. Held(e) = {}
    BY <2>2 DEF Held
  <2>4. Used(e) = {}
    <3>1. \A t \in Threads : ~Unrefs(t, e)
      BY DEF Unrefs, At, AllIdle
    <3>2. \A f \in Errors : ~Owns(f, e)
      BY <2>1 DEF Owns, Live
    <3> QED
      BY <3>1, <3>2 DEF Used
  <2>5. Kept(e)
    BY DEF ErrorInv, KeptInv
  <2>6. \A t \in Threads : Len(stack[t]) = 0
    BY DEF AllIdle, Idle
  <2> QED
    BY <2>3, <2>4, <2>5, <2>6 DEF Kept, Owners
<1> QED
  BY <1>1, ErrorsCounted, PTL

-----------------------------------------------------------------------------
(* The end. *)

(* An error that is gone has given up its cause, and at the end the pool   *)
(* of the errors has no child left.                                        *)
GoneInv ==
  /\ \A e \in Errors : e \notin Live => cause[e] = NULL
  /\ phase = "done" => children = <<>>

(* An error is destroyed by the call that has given up its cause.          *)
LEMMA GoneUncaused ==
  ASSUME ErrorInv, GoneInv, NEW t \in Threads, At(t, "end"),
         life' = [life EXCEPT ![Top(t).error] = "none"], cause' = cause,
         phase' = phase
  PROVE  GoneInv'
<1>1. /\ Top(t) = stack[t][1] /\ Top(t).step = "end" /\ FrameOK(t, 1)
      /\ phase \in {"running", "walking"}
  BY TopIs
<1>2. cause[Top(t).error] = NULL
  BY <1>1 DEF FrameOK
<1>3. \A e \in Errors : e \notin Live' => e \notin Live \/ e = Top(t).error
  BY DEF Live, ErrorInv, TypeOK
<1> QED
  BY <1>1, <1>2, <1>3 DEF GoneInv

LEMMA GoneStep ==
  ASSUME ErrorInv, GoneInv, [Next]_vars
  PROVE  GoneInv'
<1>1. CASE UNCHANGED <<life, cause, phase, children>>
  BY <1>1 DEF GoneInv, Live
<1>2. ASSUME NEW t \in Threads, Client(t)
      PROVE  GoneInv'
  <2>1. phase = "running" /\ phase' = phase
    BY <1>2 DEF Client, y_Error_throw, KeepCause, CallUnref, HandOver, Start
  <2>2. CASE y_Error_throw(t)
    <3>1. PICK e \in Errors :
            /\ life' = [life EXCEPT ![e] = "live"]
            /\ cause' = [cause EXCEPT ![e] = location[t]]
      BY <2>2 DEF y_Error_throw
    <3>2. ASSUME NEW x \in Errors, x \notin Live'
          PROVE  x # e /\ x \notin Live /\ cause'[x] = cause[x]
      BY <3>1, <3>2 DEF Live, ErrorInv, TypeOK
    <3> QED
      BY <2>1, <3>2 DEF GoneInv
  <2>3. CASE ~y_Error_throw(t)
    <3>1. UNCHANGED <<life, cause>>
      BY <1>2, <2>3
      DEF Client, KeepCause, CallUnref, HandOver, errorVars
    <3> QED
      BY <2>1, <3>1 DEF GoneInv, Live
  <2> QED
    BY <2>2, <2>3
<1>3. ASSUME NEW t \in Threads, Step(t)
      PROVE  GoneInv'
  <2>1. CASE Unref(t) \/ y_Error_clear(t)
    BY <1>1, <2>1 DEF Unref, y_Error_clear, errorVars, poolVars
  <2>2. CASE ClearCause(t)
    <3>1. /\ cause' = [cause EXCEPT ![Top(t).error] = NULL]
          /\ UNCHANGED <<life, phase, children>>
      BY <2>2 DEF ClearCause, poolVars
    <3>2. \A x \in Errors : cause'[x] = NULL \/ cause'[x] = cause[x]
      BY <3>1 DEF ErrorInv, TypeOK
    <3> QED
      BY <3>1, <3>2 DEF GoneInv, Live
  <2>3. CASE Destroyed(t)
    BY <2>3, GoneUncaused DEF Destroyed
  <2> QED
    BY <1>3, <2>1, <2>2, <2>3 DEF Step
<1>4. CASE y_Runtime_destroy \/ DestroyParent
  BY <1>4 DEF y_Runtime_destroy, DestroyParent, errorVars, GoneInv, Live
<1>5. CASE Walk
  <2>1. CASE NextChild
    BY <2>1 DEF NextChild, errorVars, GoneInv, Live
  <2>2. CASE LastResortDone
    BY <2>2, GoneUncaused, ErrorAssumption DEF LastResortDone
  <2>3. CASE LastChild
    BY <2>3 DEF LastChild, errorVars, poolVars, GoneInv, Live
  <2> QED
    BY <1>5, <2>1, <2>2, <2>3 DEF Walk
<1> QED
  BY <1>1, <1>2, <1>3, <1>4, <1>5 DEF Next, Rest, vars, errorVars, poolVars

(* When the pool has been destroyed every error in it was cleared: none is *)
(* live and none has a cause.  This is what EndClears says of the end; that *)
(* the end comes is left to TLC.                                           *)
THEOREM TheEndIsClean ==
  ASSUME "causes_at_end" \notin Freedoms, "outlive" \notin Freedoms
  PROVE  Spec => [](phase = "done" =>
                      \A e \in Errors : life[e] = "none" /\ cause[e] = NULL)
<1> DEFINE Clean == phase = "done" =>
                      \A e \in Errors : life[e] = "none" /\ cause[e] = NULL
<1>1. Init => GoneInv
  BY DEF Init, GoneInv
<1>2. ErrorInv /\ GoneInv /\ [Next]_vars => GoneInv'
  BY GoneStep
<1>3. ErrorInv /\ GoneInv => Clean
  <2> SUFFICES ASSUME ErrorInv, GoneInv, phase = "done", NEW e \in Errors
               PROVE  life[e] = "none" /\ cause[e] = NULL
    OBVIOUS
  <2>1. Live = {}
    BY DEF ErrorInv, PoolInv, GoneInv, Range
  <2> QED
    BY <2>1 DEF GoneInv, Live, ErrorInv, TypeOK
<1> QED
  BY <1>1, <1>2, <1>3, ErrorsCounted, PTL DEF Spec
=============================================================================

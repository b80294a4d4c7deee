------------------------- MODULE PoolBuffer_proofs -------------------------
(***************************************************************************)
(* Theorems about PoolBuffer, for every number of threads and pools and    *)
(* every buffer size.                                                      *)
(***************************************************************************)
EXTENDS PoolBuffer, Sequences, FunctionTheorems, FiniteSetTheorems, TLAPS

(* The buffer is used by one thread at a time.                             *)
LEMMA Alone ==
  ASSUME BufferInv, NEW t \in Threads, pc[t] \in Critical
  PROVE  /\ pool_buffer_pos \in Slots
         /\ \A u \in Threads : pc[u] \in Critical => u = t
<1>1. Size # 0
  BY DEF BufferInv, ControlInv, Buffered
<1>2. ASSUME NEW u \in Threads, pc[u] \in Critical
      PROVE  u = t
  BY <1>2, BufferAssumption DEF BufferInv, ControlInv
<1> QED
  BY <1>1, <1>2 DEF BufferInv, TypeOK

(* Emptying a slot moves its pool to the local variable.                   *)
LEMMA MovedOut ==
  ASSUME BufferInv, NEW t \in Threads, CreateEmpty(t)
  PROVE  /\ objects' = objects
         /\ content' = content
         /\ \A p \in Pools :
              /\ \A i \in Slots :
                   InSlot(i, p)' <=> InSlot(i, p) /\ i # pool_buffer_pos
              /\ \A u \in Threads :
                   InPool(u, p)' <=>
                     InPool(u, p) \/ (u = t /\ InSlot(pool_buffer_pos, p))
              /\ \A u \in Threads : InOld(u, p)' <=> InOld(u, p)
<1> USE DEF At, Goto
<1>1. /\ pool_buffer_pos \in Slots
      /\ \A u \in Threads : pc[u] \in Critical => u = t
  BY Alone DEF CreateEmpty, Critical
<1>2. pool[t] = pool_buffer[pool_buffer_pos]
  BY DEF BufferInv, LocalInv, CreateEmpty
<1> QED
  BY <1>1, <1>2, BufferAssumption
  DEF BufferInv, TypeOK, CreateEmpty, poolVars, Critical, InSlot, InPool, InOld

(* Filling a slot moves the pool that was there to the local variable old. *)
LEMMA MovedIn ==
  ASSUME BufferInv, NEW t \in Threads, FreePut(t)
  PROVE  /\ objects' = objects
         /\ content' = content
         /\ \A p \in Pools :
              /\ \A i \in Slots :
                   InSlot(i, p)' <=> IF i = pool_buffer_pos THEN InPool(t, p)
                                                            ELSE InSlot(i, p)
              /\ \A u \in Threads : InPool(u, p)' <=> InPool(u, p) /\ u # t
              /\ \A u \in Threads :
                   InOld(u, p)' <=>
                     InOld(u, p) \/ (u = t /\ InSlot(pool_buffer_pos, p))
<1> USE DEF At, Goto
<1>1. /\ pool_buffer_pos \in Slots
      /\ \A u \in Threads : pc[u] \in Critical => u = t
  BY Alone DEF FreePut, Critical
<1>2. old[t] = pool_buffer[pool_buffer_pos]
  BY DEF BufferInv, LocalInv, FreePut
<1> QED
  BY <1>1, <1>2, BufferAssumption
  DEF BufferInv, TypeOK, FreePut, poolVars, Critical, InSlot, InPool, InOld

(* The types are kept: the position is a slot because only a thread with a *)
(* buffer moves it.                                                        *)
LEMMA TypeStep ==
  ASSUME BufferInv, [Next]_vars
  PROVE  TypeOK'
<1> USE BufferAssumption
   DEF BufferInv, Goto, At, ringVars, poolVars, y_Runtime_lock,
       y_Runtime_unlock, apr_pool_create, apr_pool_destroy, TypeOK, ControlInv,
       LocalInv, Slots, Labels, Contents, Buffered, Critical, Before, After
<1>1. ASSUME NEW t \in Threads, CallCreate(t)
      PROVE  TypeOK'
  BY <1>1 DEF CallCreate
<1>2. ASSUME NEW t \in Threads, CreateTake(t)
      PROVE  TypeOK'
  BY <1>2 DEF CreateTake
<1>3. ASSUME NEW t \in Threads, CreateEmpty(t)
      PROVE  TypeOK'
  BY <1>3 DEF CreateEmpty
<1>4. ASSUME NEW t \in Threads, CreateStep(t)
      PROVE  TypeOK'
  BY <1>4 DEF CreateStep
<1>5. ASSUME NEW t \in Threads, CreateUnlock(t)
      PROVE  TypeOK'
  BY <1>5 DEF CreateUnlock
<1>6. ASSUME NEW t \in Threads, CreateDirect(t)
      PROVE  TypeOK'
  BY <1>6 DEF CreateDirect
<1>7. ASSUME NEW t \in Threads, FreeClear(t)
      PROVE  TypeOK'
  BY <1>7 DEF FreeClear
<1>8. ASSUME NEW t \in Threads, FreeAdvance(t)
      PROVE  TypeOK'
  BY <1>8 DEF FreeAdvance
<1>9. ASSUME NEW t \in Threads, FreeTake(t)
      PROVE  TypeOK'
  BY <1>9 DEF FreeTake
<1>10. ASSUME NEW t \in Threads, FreePut(t)
      PROVE  TypeOK'
  BY <1>10 DEF FreePut
<1>11. ASSUME NEW t \in Threads, FreeUnlock(t)
      PROVE  TypeOK'
  BY <1>11 DEF FreeUnlock
<1>12. ASSUME NEW t \in Threads, FreeDestroy(t)
      PROVE  TypeOK'
  BY <1>12 DEF FreeDestroy
<1>13. ASSUME NEW t \in Threads, FreeDirect(t)
      PROVE  TypeOK'
  BY <1>13 DEF FreeDirect
<1>14. ASSUME NEW t \in Threads, NEW p \in Pools, CallFree(t, p)
      PROVE  TypeOK'
  BY <1>14 DEF CallFree
<1>15. CASE UNCHANGED vars
  BY <1>15 DEF vars
<1> QED
  BY <1>1, <1>2, <1>3, <1>4, <1>5, <1>6, <1>7, <1>8, <1>9, <1>10, <1>11, <1>12,
     <1>13, <1>14, <1>15
     DEF Next, Step

(* The mutex is held in the critical sections, and there only.             *)
LEMMA ControlStep ==
  ASSUME BufferInv, [Next]_vars
  PROVE  ControlInv'
<1> USE BufferAssumption
   DEF BufferInv, Goto, At, y_Runtime_lock, y_Runtime_unlock, TypeOK,
       ControlInv, Buffered, Critical, Direct
<1>1. ASSUME NEW t \in Threads, CallCreate(t)
      PROVE  ControlInv'
  BY <1>1 DEF CallCreate
<1>2. ASSUME NEW t \in Threads, CreateTake(t)
      PROVE  ControlInv'
  BY <1>2 DEF CreateTake
<1>3. ASSUME NEW t \in Threads, CreateEmpty(t)
      PROVE  ControlInv'
  BY <1>3 DEF CreateEmpty
<1>4. ASSUME NEW t \in Threads, CreateStep(t)
      PROVE  ControlInv'
  BY <1>4 DEF CreateStep
<1>5. ASSUME NEW t \in Threads, CreateUnlock(t)
      PROVE  ControlInv'
  BY <1>5 DEF CreateUnlock
<1>6. ASSUME NEW t \in Threads, CreateDirect(t)
      PROVE  ControlInv'
  BY <1>6 DEF CreateDirect
<1>7. ASSUME NEW t \in Threads, FreeClear(t)
      PROVE  ControlInv'
  BY <1>7 DEF FreeClear
<1>8. ASSUME NEW t \in Threads, FreeAdvance(t)
      PROVE  ControlInv'
  BY <1>8 DEF FreeAdvance
<1>9. ASSUME NEW t \in Threads, FreeTake(t)
      PROVE  ControlInv'
  BY <1>9 DEF FreeTake
<1>10. ASSUME NEW t \in Threads, FreePut(t)
      PROVE  ControlInv'
  BY <1>10 DEF FreePut
<1>11. ASSUME NEW t \in Threads, FreeUnlock(t)
      PROVE  ControlInv'
  BY <1>11 DEF FreeUnlock
<1>12. ASSUME NEW t \in Threads, FreeDestroy(t)
      PROVE  ControlInv'
  BY <1>12 DEF FreeDestroy
<1>13. ASSUME NEW t \in Threads, FreeDirect(t)
      PROVE  ControlInv'
  BY <1>13 DEF FreeDirect
<1>14. ASSUME NEW t \in Threads, NEW p \in Pools, CallFree(t, p)
      PROVE  ControlInv'
  BY <1>14 DEF CallFree
<1>15. CASE UNCHANGED vars
  BY <1>15 DEF vars
<1> QED
  BY <1>1, <1>2, <1>3, <1>4, <1>5, <1>6, <1>7, <1>8, <1>9, <1>10, <1>11, <1>12,
     <1>13, <1>14, <1>15
     DEF Next, Step

(* The local variables fit the step a thread is about to take.             *)
LEMMA LocalStep ==
  ASSUME BufferInv, [Next]_vars
  PROVE  LocalInv'
<1> USE BufferAssumption
   DEF BufferInv, Goto, At, ringVars, y_Runtime_lock, apr_pool_create, TypeOK,
       ControlInv, LocalInv, Buffered, Critical
<1>1. ASSUME NEW t \in Threads, CallCreate(t)
      PROVE  LocalInv'
  BY <1>1 DEF CallCreate
<1>2. ASSUME NEW t \in Threads, CreateTake(t)
      PROVE  LocalInv'
  BY <1>2 DEF CreateTake
<1>3. ASSUME NEW t \in Threads, CreateEmpty(t)
      PROVE  LocalInv'
  BY <1>3 DEF CreateEmpty
<1>4. ASSUME NEW t \in Threads, CreateStep(t)
      PROVE  LocalInv'
  BY <1>4 DEF CreateStep
<1>5. ASSUME NEW t \in Threads, CreateUnlock(t)
      PROVE  LocalInv'
  BY <1>5 DEF CreateUnlock
<1>6. ASSUME NEW t \in Threads, CreateDirect(t)
      PROVE  LocalInv'
  BY <1>6 DEF CreateDirect
<1>7. ASSUME NEW t \in Threads, FreeClear(t)
      PROVE  LocalInv'
  BY <1>7 DEF FreeClear
<1>8. ASSUME NEW t \in Threads, FreeAdvance(t)
      PROVE  LocalInv'
  BY <1>8 DEF FreeAdvance
<1>9. ASSUME NEW t \in Threads, FreeTake(t)
      PROVE  LocalInv'
  BY <1>9 DEF FreeTake
<1>10. ASSUME NEW t \in Threads, FreePut(t)
      PROVE  LocalInv'
  BY <1>10 DEF FreePut
<1>11. ASSUME NEW t \in Threads, FreeUnlock(t)
      PROVE  LocalInv'
  BY <1>11 DEF FreeUnlock
<1>12. ASSUME NEW t \in Threads, FreeDestroy(t)
      PROVE  LocalInv'
  BY <1>12 DEF FreeDestroy
<1>13. ASSUME NEW t \in Threads, FreeDirect(t)
      PROVE  LocalInv'
  BY <1>13 DEF FreeDirect
<1>14. ASSUME NEW t \in Threads, NEW p \in Pools, CallFree(t, p)
      PROVE  LocalInv'
  BY <1>14 DEF CallFree
<1>15. CASE UNCHANGED vars
  BY <1>15 DEF vars
<1> QED
  BY <1>1, <1>2, <1>3, <1>4, <1>5, <1>6, <1>7, <1>8, <1>9, <1>10, <1>11, <1>12,
     <1>13, <1>14, <1>15
     DEF Next, Step

(* A pool that moves leaves one place for one other.                       *)
LEMMA ApartStep ==
  ASSUME BufferInv, [Next]_vars
  PROVE  Apart'
<1> USE BufferAssumption
   DEF BufferInv, Goto, At, ringVars, poolVars, apr_pool_create, TypeOK, Apart,
       InSlot, InPool, InOld, Located
<1>1. ASSUME NEW t \in Threads, CallCreate(t)
      PROVE  Apart'
  BY <1>1 DEF CallCreate
<1>2. ASSUME NEW t \in Threads, CreateTake(t)
      PROVE  Apart'
  BY <1>2 DEF CreateTake
<1>3. ASSUME NEW t \in Threads, CreateEmpty(t)
      PROVE  Apart'
  <2>1. pool_buffer_pos \in Slots
    BY <1>3, Alone DEF CreateEmpty, Critical
  <2> QED
    BY ONLY <1>3, <2>1, MovedOut, BufferInv DEF BufferInv, Apart
<1>4. ASSUME NEW t \in Threads, CreateStep(t)
      PROVE  Apart'
  BY <1>4 DEF CreateStep
<1>5. ASSUME NEW t \in Threads, CreateUnlock(t)
      PROVE  Apart'
  BY <1>5 DEF CreateUnlock
<1>6. ASSUME NEW t \in Threads, CreateDirect(t)
      PROVE  Apart'
  BY <1>6 DEF CreateDirect
<1>7. ASSUME NEW t \in Threads, FreeClear(t)
      PROVE  Apart'
  BY <1>7 DEF FreeClear
<1>8. ASSUME NEW t \in Threads, FreeAdvance(t)
      PROVE  Apart'
  BY <1>8 DEF FreeAdvance
<1>9. ASSUME NEW t \in Threads, FreeTake(t)
      PROVE  Apart'
  BY <1>9 DEF FreeTake
<1>10. ASSUME NEW t \in Threads, FreePut(t)
      PROVE  Apart'
  <2>1. pool_buffer_pos \in Slots
    BY <1>10, Alone DEF FreePut, Critical
  <2> QED
    BY ONLY <1>10, <2>1, MovedIn, BufferInv DEF BufferInv, Apart
<1>11. ASSUME NEW t \in Threads, FreeUnlock(t)
      PROVE  Apart'
  BY <1>11 DEF FreeUnlock
<1>12. ASSUME NEW t \in Threads, FreeDestroy(t)
      PROVE  Apart'
  BY <1>12 DEF FreeDestroy
<1>13. ASSUME NEW t \in Threads, FreeDirect(t)
      PROVE  Apart'
  BY <1>13 DEF FreeDirect
<1>14. ASSUME NEW t \in Threads, NEW p \in Pools, CallFree(t, p)
      PROVE  Apart'
  BY <1>14 DEF CallFree
<1>15. CASE UNCHANGED vars
  BY <1>15 DEF vars
<1> QED
  BY <1>1, <1>2, <1>3, <1>4, <1>5, <1>6, <1>7, <1>8, <1>9, <1>10, <1>11, <1>12,
     <1>13, <1>14, <1>15
     DEF Next, Step

(* No pool is lost, and none is destroyed while it is kept somewhere.      *)
LEMMA LocatedStep ==
  ASSUME BufferInv, [Next]_vars
  PROVE  Located'
<1> USE BufferAssumption
   DEF BufferInv, Goto, At, ringVars, poolVars, apr_pool_create,
       apr_pool_destroy, TypeOK, LocalInv, Apart, InSlot, InPool, InOld,
       Located
<1>1. ASSUME NEW t \in Threads, CallCreate(t)
      PROVE  Located'
  BY <1>1 DEF CallCreate
<1>2. ASSUME NEW t \in Threads, CreateTake(t)
      PROVE  Located'
  BY <1>2 DEF CreateTake
<1>3. ASSUME NEW t \in Threads, CreateEmpty(t)
      PROVE  Located'
  <2>1. pool_buffer_pos \in Slots
    BY <1>3, Alone DEF CreateEmpty, Critical
  <2> QED
    BY ONLY <1>3, <2>1, MovedOut, BufferInv DEF BufferInv, Located
<1>4. ASSUME NEW t \in Threads, CreateStep(t)
      PROVE  Located'
  BY <1>4 DEF CreateStep
<1>5. ASSUME NEW t \in Threads, CreateUnlock(t)
      PROVE  Located'
  BY <1>5 DEF CreateUnlock
<1>6. ASSUME NEW t \in Threads, CreateDirect(t)
      PROVE  Located'
  BY <1>6 DEF CreateDirect
<1>7. ASSUME NEW t \in Threads, FreeClear(t)
      PROVE  Located'
  BY <1>7 DEF FreeClear
<1>8. ASSUME NEW t \in Threads, FreeAdvance(t)
      PROVE  Located'
  BY <1>8 DEF FreeAdvance
<1>9. ASSUME NEW t \in Threads, FreeTake(t)
      PROVE  Located'
  BY <1>9 DEF FreeTake
<1>10. ASSUME NEW t \in Threads, FreePut(t)
      PROVE  Located'
  <2>1. pool_buffer_pos \in Slots
    BY <1>10, Alone DEF FreePut, Critical
  <2> QED
    BY ONLY <1>10, <2>1, MovedIn, BufferInv DEF BufferInv, Located
<1>11. ASSUME NEW t \in Threads, FreeUnlock(t)
      PROVE  Located'
  BY <1>11 DEF FreeUnlock
<1>12. ASSUME NEW t \in Threads, FreeDestroy(t)
      PROVE  Located'
  BY <1>12 DEF FreeDestroy
<1>13. ASSUME NEW t \in Threads, FreeDirect(t)
      PROVE  Located'
  BY <1>13 DEF FreeDirect
<1>14. ASSUME NEW t \in Threads, NEW p \in Pools, CallFree(t, p)
      PROVE  Located'
  BY <1>14 DEF CallFree
<1>15. CASE UNCHANGED vars
  BY <1>15 DEF vars
<1> QED
  BY <1>1, <1>2, <1>3, <1>4, <1>5, <1>6, <1>7, <1>8, <1>9, <1>10, <1>11, <1>12,
     <1>13, <1>14, <1>15
     DEF Next, Step

(* What an object leaves in its pool is cleared before the pool is kept.   *)
LEMMA ClearedStep ==
  ASSUME BufferInv, [Next]_vars
  PROVE  Cleared'
<1> USE BufferAssumption
   DEF BufferInv, Goto, At, poolVars, apr_pool_create, apr_pool_destroy,
       TypeOK, LocalInv, Apart, Cleared, InPool, InOld
<1>1. ASSUME NEW t \in Threads, CallCreate(t)
      PROVE  Cleared'
  BY <1>1 DEF CallCreate
<1>2. ASSUME NEW t \in Threads, CreateTake(t)
      PROVE  Cleared'
  BY <1>2 DEF CreateTake
<1>3. ASSUME NEW t \in Threads, CreateEmpty(t)
      PROVE  Cleared'
  BY <1>3 DEF CreateEmpty
<1>4. ASSUME NEW t \in Threads, CreateStep(t)
      PROVE  Cleared'
  BY <1>4 DEF CreateStep
<1>5. ASSUME NEW t \in Threads, CreateUnlock(t)
      PROVE  Cleared'
  BY <1>5 DEF CreateUnlock
<1>6. ASSUME NEW t \in Threads, CreateDirect(t)
      PROVE  Cleared'
  BY <1>6 DEF CreateDirect
<1>7. ASSUME NEW t \in Threads, FreeClear(t)
      PROVE  Cleared'
  BY <1>7 DEF FreeClear
<1>8. ASSUME NEW t \in Threads, FreeAdvance(t)
      PROVE  Cleared'
  BY <1>8 DEF FreeAdvance
<1>9. ASSUME NEW t \in Threads, FreeTake(t)
      PROVE  Cleared'
  BY <1>9 DEF FreeTake
<1>10. ASSUME NEW t \in Threads, FreePut(t)
      PROVE  Cleared'
  BY <1>10 DEF FreePut
<1>11. ASSUME NEW t \in Threads, FreeUnlock(t)
      PROVE  Cleared'
  BY <1>11 DEF FreeUnlock
<1>12. ASSUME NEW t \in Threads, FreeDestroy(t)
      PROVE  Cleared'
  BY <1>12 DEF FreeDestroy
<1>13. ASSUME NEW t \in Threads, FreeDirect(t)
      PROVE  Cleared'
  BY <1>13 DEF FreeDirect
<1>14. ASSUME NEW t \in Threads, NEW p \in Pools, CallFree(t, p)
      PROVE  Cleared'
  BY <1>14 DEF CallFree
<1>15. CASE UNCHANGED vars
  BY <1>15 DEF vars
<1> QED
  BY <1>1, <1>2, <1>3, <1>4, <1>5, <1>6, <1>7, <1>8, <1>9, <1>10, <1>11, <1>12,
     <1>13, <1>14, <1>15
     DEF Next, Step

(* The n slots that end at slot top hold pools, and the others do not.     *)
Run(buffer, top, n) ==
  \A k \in Slots : buffer[Below(top, k)] # NULL <=> k < n

(* Walking down from a slot, every other slot is met once before it.       *)
LEMMA Wraps ==
  ASSUME NEW i \in Slots
  PROVE  /\ Before(i) \in Slots
         /\ After(i) \in Slots
         /\ Before(After(i)) = i
         /\ Below(i, 0) = i
         /\ \A k \in Slots : Below(i, k) \in Slots /\ (Below(i, k) = i <=> k = 0)
         /\ \A k \in Slots : k + 1 \in Slots => Below(Before(i), k) = Below(i, k + 1)
         /\ Below(Before(i), Size - 1) = i
  BY BufferAssumption DEF Slots, Before, After, Below

(* Emptying the top slot shortens the run, unless there is none.           *)
LEMMA RunPopped ==
  ASSUME NEW buffer \in [Slots -> Pools \cup {NULL}], NEW i \in Slots,
         NEW n \in 0 .. Size, Run(buffer, i, n)
  PROVE  LET m == IF n = 0 THEN 0 ELSE n - 1 IN
         m \in 0 .. Size /\ Run([buffer EXCEPT ![i] = NULL], Before(i), m)
<1> DEFINE m == IF n = 0 THEN 0 ELSE n - 1
           b == [buffer EXCEPT ![i] = NULL]
<1>1. m \in 0 .. Size
  BY BufferAssumption
<1>2. ASSUME NEW k \in Slots
      PROVE  b[Below(Before(i), k)] # NULL <=> k < m
  <2>1. CASE k = Size - 1
    <3>1. b[Below(Before(i), k)] = NULL
      BY <2>1, Wraps
    <3>2. ~(k < m)
      BY <2>1, BufferAssumption DEF Slots
    <3> QED
      BY <3>1, <3>2
  <2>2. CASE k # Size - 1
    <3>1. k + 1 \in Slots
      BY <2>2, BufferAssumption DEF Slots
    <3>2. b[Below(Before(i), k)] = buffer[Below(i, k + 1)]
      <4>1. Below(Before(i), k) = Below(i, k + 1)
        BY <3>1, Wraps
      <4>2. k + 1 # 0
        BY DEF Slots
      <4>3. Below(i, k + 1) \in Slots /\ Below(i, k + 1) # i
        BY <3>1, <4>2, Wraps
      <4> QED
        BY <4>1, <4>3
    <3>3. buffer[Below(i, k + 1)] # NULL <=> k + 1 < n
      BY <3>1 DEF Run
    <3> QED
      BY <3>2, <3>3, BufferAssumption DEF Slots
  <2> QED
    BY <2>1, <2>2
<1> QED
  BY <1>1, <1>2 DEF Run

(* Filling the slot above the top lengthens it, unless it has every slot.  *)
LEMMA RunPushed ==
  ASSUME NEW buffer \in [Slots -> Pools \cup {NULL}], NEW i \in Slots,
         NEW n \in 0 .. Size, Run(buffer, Before(i), n), NEW p \in Pools
  PROVE  LET m == IF n = Size THEN Size ELSE n + 1 IN
         m \in 0 .. Size /\ Run([buffer EXCEPT ![i] = p], i, m)
<1> DEFINE m == IF n = Size THEN Size ELSE n + 1
           b == [buffer EXCEPT ![i] = p]
<1>1. m \in 0 .. Size
  BY BufferAssumption
<1>2. ASSUME NEW k \in Slots
      PROVE  b[Below(i, k)] # NULL <=> k < m
  <2>1. CASE k = 0
    <3>1. b[Below(i, k)] = p
      BY <2>1, Wraps
    <3>2. k < m
      BY <2>1, BufferAssumption DEF Slots
    <3> QED
      BY <3>1, <3>2, BufferAssumption
  <2>2. CASE k # 0
    <3>1. k - 1 \in Slots /\ k = (k - 1) + 1
      BY <2>2, BufferAssumption DEF Slots
    <3>2. b[Below(i, k)] = buffer[Below(Before(i), k - 1)]
      <4>1. Below(Before(i), k - 1) = Below(i, k)
        BY <3>1, Wraps
      <4>2. Below(i, k) \in Slots /\ Below(i, k) # i
        BY <2>2, Wraps
      <4> QED
        BY <4>1, <4>2
    <3>3. buffer[Below(Before(i), k - 1)] # NULL <=> k - 1 < n
      BY <3>1 DEF Run
    <3> QED
      BY <3>2, <3>3, BufferAssumption DEF Slots
  <2> QED
    BY <2>1, <2>2
<1> QED
  BY <1>1, <1>2 DEF Run

(* A thread that is halfway is the only one in the buffer.                 *)
LEMMA HalfwayBy ==
  ASSUME BufferInv, NEW t \in Threads, pc[t] \in Critical
  PROVE  Halfway <=> pc[t] \in {"create_step", "free_take", "free_put"}
  BY Alone DEF Halfway, Critical

(* Neighbours says that there is a run at the top.                         *)
LEMMA NeighboursRun ==
  ASSUME Size # 0
  PROVE  Neighbours <=> \E n \in 0 .. Size : Run(pool_buffer, Top, n)
  BY BufferAssumption DEF Neighbours, Run, Slots

(* Between two changes of the slots the top stays where it is, although    *)
(* the position moves before a slot is filled and after one is emptied.    *)
LEMMA TopStays ==
  ASSUME BufferInv, NEW t \in Threads, ~CreateEmpty(t), ~FreePut(t),
         Step(t) \/ CallCreate(t) \/ \E p \in Pools : CallFree(t, p)
  PROVE  pool_buffer' = pool_buffer /\ Top' = Top
<1> USE BufferAssumption DEF BufferInv, At, Goto, ringVars, poolVars
<1>1. CASE CallCreate(t)
  <2>1. pool_buffer' = pool_buffer /\ pool_buffer_pos' = pool_buffer_pos
    BY <1>1 DEF CallCreate
  <2>2. Halfway' <=> Halfway
    BY <1>1 DEF CallCreate, Halfway
  <2> QED
    BY <2>1, <2>2 DEF Top
<1>2. CASE CreateTake(t)
  <2>1. pool_buffer' = pool_buffer /\ pool_buffer_pos' = pool_buffer_pos
    BY <1>2 DEF CreateTake
  <2>2. Halfway' <=> Halfway
    BY <1>2 DEF CreateTake, Halfway
  <2> QED
    BY <2>1, <2>2 DEF Top
<1>3. CASE CreateStep(t)
  <2>1. pool_buffer_pos \in Slots /\ Size # 0
    BY <1>3, Alone DEF CreateStep, Critical, Slots
  <2>2. Halfway <=> TRUE
    BY <1>3, HalfwayBy DEF CreateStep, Critical
  <2>3. Halfway' <=> FALSE
    BY <1>3, Alone DEF CreateStep, Halfway, Critical, TypeOK
  <2>4. Top' = Top /\ pool_buffer' = pool_buffer
    BY <1>3, <2>2, <2>3 DEF CreateStep, Top
  <2> QED
    BY <2>4
<1>4. CASE CreateUnlock(t)
  <2>1. pool_buffer' = pool_buffer /\ pool_buffer_pos' = pool_buffer_pos
    BY <1>4 DEF CreateUnlock
  <2>2. Halfway' <=> Halfway
    BY <1>4 DEF CreateUnlock, Halfway
  <2> QED
    BY <2>1, <2>2 DEF Top
<1>5. CASE CreateDirect(t)
  <2>1. pool_buffer' = pool_buffer /\ pool_buffer_pos' = pool_buffer_pos
    BY <1>5 DEF CreateDirect
  <2>2. Halfway' <=> Halfway
    BY <1>5 DEF CreateDirect, Halfway
  <2> QED
    BY <2>1, <2>2 DEF Top
<1>6. CASE FreeClear(t)
  <2>1. pool_buffer' = pool_buffer /\ pool_buffer_pos' = pool_buffer_pos
    BY <1>6 DEF FreeClear
  <2>2. Halfway' <=> Halfway
    BY <1>6 DEF FreeClear, Halfway
  <2> QED
    BY <2>1, <2>2 DEF Top
<1>7. CASE FreeAdvance(t)
  <2>1. pool_buffer_pos \in Slots /\ Size # 0
    BY <1>7 DEF FreeAdvance, ControlInv, Buffered, TypeOK
  <2>2. ~Halfway
    BY <1>7 DEF FreeAdvance, Halfway, ControlInv, Critical, y_Runtime_lock
  <2>3. Halfway'
    BY <1>7 DEF FreeAdvance, Halfway, TypeOK
  <2>4. Top' = Top /\ pool_buffer' = pool_buffer
    BY <1>7, <2>1, <2>2, <2>3, Wraps DEF FreeAdvance, Top
  <2> QED
    BY <2>4
<1>8. CASE FreeTake(t)
  <2>1. pool_buffer' = pool_buffer /\ pool_buffer_pos' = pool_buffer_pos
    BY <1>8 DEF FreeTake
  <2>2. Halfway' <=> Halfway
    BY <1>8 DEF FreeTake, Halfway
  <2> QED
    BY <2>1, <2>2 DEF Top
<1>9. CASE FreeUnlock(t)
  <2>1. pool_buffer' = pool_buffer /\ pool_buffer_pos' = pool_buffer_pos
    BY <1>9 DEF FreeUnlock
  <2>2. Halfway' <=> Halfway
    BY <1>9 DEF FreeUnlock, Halfway
  <2> QED
    BY <2>1, <2>2 DEF Top
<1>10. CASE FreeDestroy(t)
  <2>1. pool_buffer' = pool_buffer /\ pool_buffer_pos' = pool_buffer_pos
    BY <1>10 DEF FreeDestroy
  <2>2. Halfway' <=> Halfway
    BY <1>10 DEF FreeDestroy, Halfway
  <2> QED
    BY <2>1, <2>2 DEF Top
<1>11. CASE FreeDirect(t)
  <2>1. pool_buffer' = pool_buffer /\ pool_buffer_pos' = pool_buffer_pos
    BY <1>11 DEF FreeDirect
  <2>2. Halfway' <=> Halfway
    BY <1>11 DEF FreeDirect, Halfway
  <2> QED
    BY <2>1, <2>2 DEF Top
<1>12. ASSUME NEW p \in Pools, CallFree(t, p)
      PROVE  pool_buffer' = pool_buffer /\ Top' = Top
  <2>1. pool_buffer' = pool_buffer /\ pool_buffer_pos' = pool_buffer_pos
    BY <1>12 DEF CallFree
  <2>2. Halfway' <=> Halfway
    BY <1>12 DEF CallFree, Halfway
  <2> QED
    BY <2>1, <2>2 DEF Top
<1> QED
  BY <1>1, <1>2, <1>3, <1>4, <1>5, <1>6, <1>7, <1>8, <1>9, <1>10, <1>11, <1>12
     DEF Step

(* The buffer stays a run of neighbouring slots.                           *)
LEMMA NeighboursStep ==
  ASSUME BufferInv, [Next]_vars
  PROVE  Neighbours'
<1> USE BufferAssumption DEF BufferInv, At, Goto, ringVars, poolVars
<1>1. ASSUME NEW t \in Threads, CreateEmpty(t)
      PROVE  Neighbours'
  <2>1. pool_buffer_pos \in Slots /\ Size # 0
    BY <1>1, Alone DEF CreateEmpty, Critical, Slots
  <2>2. Halfway <=> FALSE
    BY <1>1, HalfwayBy DEF CreateEmpty, Critical
  <2>3. Halfway' <=> TRUE
    BY <1>1 DEF CreateEmpty, Halfway, Critical, TypeOK
  <2>4. Top = pool_buffer_pos /\ Top' = Before(pool_buffer_pos)
    BY <1>1, <2>2, <2>3 DEF CreateEmpty, Top
  <2>5. PICK n \in 0 .. Size : Run(pool_buffer, pool_buffer_pos, n)
    BY <2>1, <2>4, NeighboursRun
  <2>6. pool_buffer' = [pool_buffer EXCEPT ![pool_buffer_pos] = NULL]
    BY <1>1 DEF CreateEmpty
  <2>7. \E m \in 0 .. Size :
          Run([pool_buffer EXCEPT ![pool_buffer_pos] = NULL],
              Before(pool_buffer_pos), m)
    BY <2>1, <2>5, RunPopped DEF TypeOK
  <2> QED
    BY <2>4, <2>6, <2>7 DEF Neighbours, Run, Slots
<1>2. ASSUME NEW t \in Threads, FreePut(t)
      PROVE  Neighbours'
  <2>1. pool_buffer_pos \in Slots /\ Size # 0
    BY <1>2, Alone DEF FreePut, Critical, Slots
  <2>2. Halfway <=> TRUE
    BY <1>2, HalfwayBy DEF FreePut, Critical
  <2>3. Halfway' <=> FALSE
    BY <1>2, Alone DEF FreePut, Halfway, Critical, TypeOK
  <2>4. Top = Before(pool_buffer_pos) /\ Top' = pool_buffer_pos
    BY <1>2, <2>2, <2>3 DEF FreePut, Top
  <2>5. PICK n \in 0 .. Size : Run(pool_buffer, Before(pool_buffer_pos), n)
    BY <2>1, <2>4, NeighboursRun
  <2>6. /\ pool_buffer' = [pool_buffer EXCEPT ![pool_buffer_pos] = pool[t]]
        /\ pool[t] \in Pools
    BY <1>2 DEF FreePut, TypeOK, LocalInv
  <2>7. \E m \in 0 .. Size :
          Run([pool_buffer EXCEPT ![pool_buffer_pos] = pool[t]],
              pool_buffer_pos, m)
    BY <2>1, <2>5, <2>6, RunPushed DEF TypeOK
  <2> QED
    BY <2>4, <2>6, <2>7 DEF Neighbours, Run, Slots
<1>3. ASSUME NEW t \in Threads, ~CreateEmpty(t), ~FreePut(t),
             Step(t) \/ CallCreate(t) \/ \E p \in Pools : CallFree(t, p)
      PROVE  Neighbours'
  BY <1>3, TopStays DEF Neighbours
<1>4. CASE UNCHANGED vars
  <2>1. pool_buffer' = pool_buffer /\ Top' = Top
    BY <1>4 DEF vars, Top, Halfway
  <2> QED
    BY <2>1 DEF Neighbours
<1> QED
  BY <1>1, <1>2, <1>3, <1>4 DEF Next, Step

(* The slots below one are all the slots.                                  *)
LEMMA AllBelow ==
  ASSUME NEW i \in Slots, NEW j \in Slots
  PROVE  /\ \E k \in Slots : Below(i, k) = j
         /\ \A k, m \in Slots : Below(i, k) = Below(i, m) => k = m
<1>1. ASSUME j <= i
      PROVE  \E k \in Slots : Below(i, k) = j
  <2>1. i - j \in Slots /\ Below(i, i - j) = j
    BY <1>1, BufferAssumption DEF Slots, Below
  <2> QED
    BY <2>1
<1>2. ASSUME ~(j <= i)
      PROVE  \E k \in Slots : Below(i, k) = j
  <2>1. i - j + Size \in Slots /\ Below(i, i - j + Size) = j
    BY <1>2, BufferAssumption DEF Slots, Below
  <2> QED
    BY <2>1
<1>3. \A m, n \in Slots : Below(i, m) = Below(i, n) => m = n
  BY BufferAssumption DEF Slots, Below
<1>4. \E k \in Slots : Below(i, k) = j
  BY <1>1, <1>2
<1> QED
  BY <1>3, <1>4

(* If the slot at the top is empty all slots are.                          *)
LEMMA EmptyStep ==
  ASSUME BufferInv, [Next]_vars
  PROVE  EmptyInv'
<1> USE BufferAssumption DEF BufferInv, At, Goto
<1>1. ASSUME NEW t \in Threads, CreateEmpty(t), pool[t] = NULL
      PROVE  NoneKept'
  <2>1. pool_buffer_pos \in Slots /\ Size # 0 /\ ~Halfway
    BY <1>1, Alone, HalfwayBy DEF CreateEmpty, Critical, Slots
  <2>2. Top = pool_buffer_pos
    BY <2>1 DEF Top
  <2>3. PICK n \in 0 .. Size : Run(pool_buffer, pool_buffer_pos, n)
    BY <2>1, <2>2, NeighboursRun
  <2>4. pool_buffer[pool_buffer_pos] = NULL
    BY <1>1 DEF CreateEmpty, LocalInv
  <2>5. n = 0
    BY <2>1, <2>3, <2>4, Wraps DEF Run, Slots
  <2>6. ASSUME NEW i \in Slots
        PROVE  pool_buffer[i] = NULL
    <3>1. PICK k \in Slots : Below(pool_buffer_pos, k) = i
      BY <2>1, AllBelow
    <3>2. ~(k < n)
      BY <2>5, <3>1 DEF Slots
    <3> QED
      BY <2>3, <3>1, <3>2 DEF Run
  <2> QED
    BY <1>1, <2>6 DEF CreateEmpty, TypeOK, NoneKept
<1>2. ASSUME NEW t \in Threads, FreePut(t), NEW u \in Threads
      PROVE  pc'[u] # "create_step"
  BY <1>2, Alone DEF FreePut, Critical, TypeOK
<1>3. ASSUME NEW t \in Threads, CreateEmpty(t), NEW u \in Threads, u # t
      PROVE  pc'[u] # "create_step"
  BY <1>3, Alone DEF CreateEmpty, Critical, TypeOK
<1>4. ASSUME NEW t \in Threads, CreateEmpty(t)
      PROVE  EmptyInv'
  <2>1. pool' = pool
    BY <1>4 DEF CreateEmpty
  <2> QED
    BY <1>1, <1>3, <1>4, <2>1 DEF EmptyInv
<1>5. ASSUME NEW t \in Threads, ~CreateEmpty(t), ~FreePut(t),
             Step(t) \/ CallCreate(t) \/ \E p \in Pools : CallFree(t, p)
      PROVE  EmptyInv'
  <2>1. pool_buffer' = pool_buffer
    BY <1>5, TopStays
  <2>2. ASSUME NEW u \in Threads, pc'[u] = "create_step"
        PROVE  pc[u] = "create_step" /\ pool'[u] = pool[u]
    BY <1>5, <2>2
       DEF Step, CreateTake, CreateStep, CreateUnlock, CreateDirect, FreeClear,
           FreeAdvance, FreeTake, FreeUnlock, FreeDestroy, FreeDirect,
           CallCreate, CallFree, apr_pool_create, TypeOK
  <2> QED
    BY <2>1, <2>2 DEF EmptyInv, NoneKept
<1>6. CASE UNCHANGED vars
  BY <1>6 DEF vars, ringVars, EmptyInv, NoneKept
<1> QED
  BY <1>2, <1>4, <1>5, <1>6 DEF Next, Step, EmptyInv

(* y_Runtime_new establishes the invariant.                                *)
LEMMA InitInv ==
  ASSUME Init
  PROVE  BufferInv
<1> USE BufferAssumption DEF Init
<1>1. TypeOK
  BY DEF TypeOK, Slots, Contents, Labels
<1>2. ControlInv /\ LocalInv
  BY DEF ControlInv, LocalInv, Critical, Buffered, Direct
<1>3. Apart /\ Located /\ Cleared
  BY DEF Apart, Located, Cleared, InSlot, InPool, InOld, Slots
<1>4. Neighbours
  <2>1. ~Halfway
    BY DEF Halfway
  <2>2. ASSUME Size # 0
        PROVE  Run(pool_buffer, Top, 0)
    BY <2>1, <2>2, Wraps DEF Run, Top, Slots
  <2> QED
    BY <2>2, NeighboursRun DEF Neighbours
<1>5. EmptyInv
  BY DEF EmptyInv
<1> QED
  BY <1>1, <1>2, <1>3, <1>4, <1>5 DEF BufferInv

(* Whatever the threads do, BufferInv holds.                               *)
THEOREM Invariance == Spec => []BufferInv
<1>1. Init => BufferInv
  BY InitInv
<1>2. BufferInv /\ [Next]_vars => BufferInv'
  BY TypeStep, ControlStep, LocalStep, ApartStep, LocatedStep, ClearedStep,
     NeighboursStep, EmptyStep DEF BufferInv
<1> QED
  BY <1>1, <1>2, PTL DEF Spec

(* The variables keep their types.                                         *)
THEOREM TypeCorrectness == Spec => []TypeOK
<1>1. BufferInv => TypeOK
  BY DEF BufferInv
<1> QED
  BY <1>1, Invariance, PTL

(* A pool in no two places, and in some place if it exists, is in exactly  *)
(* one place or in none.                                                   *)
LEMMA OnePlaceHolds ==
  ASSUME BufferInv
  PROVE  OnePlace
<1> SUFFICES ASSUME NEW p \in Pools
             PROVE  IF content[p] = "none" THEN Places(p) = {}
                    ELSE \E x \in Places(p) : Places(p) = {x}
  BY DEF OnePlace
<1>1. \A x : x \in Places(p) <=>
        \/ \E i \in Slots : x = <<"slot", i>> /\ InSlot(i, p)
        \/ \E t \in Threads : x = <<"pool", t>> /\ InPool(t, p)
        \/ \E t \in Threads : x = <<"old", t>> /\ InOld(t, p)
        \/ x = <<"object", p>> /\ p \in objects
  BY DEF Places, InSlot
<1>2. content[p] # "none" <=> \E x : x \in Places(p)
  BY <1>1 DEF BufferInv, Located
<1>3. ASSUME NEW x \in Places(p), NEW y \in Places(p)
      PROVE  x = y
  BY <1>1, <1>3 DEF BufferInv, Apart
<1> QED
  BY <1>2, <1>3

(* No two objects ever share a pool and no pool is lost.                   *)
THEOREM PoolsHaveOnePlace == Spec => []OnePlace
  BY Invariance, OnePlaceHolds, PTL

(* An object is always put into an empty pool.                             *)
THEOREM PoolsReusedClean == Spec => []ReusedClean
<1>1. BufferInv => ReusedClean
  <2> SUFFICES ASSUME BufferInv
               PROVE  ReusedClean
    OBVIOUS
  <2>1. ASSUME NEW i \in Slots, pool_buffer[i] # NULL
        PROVE  content[pool_buffer[i]] = "clean"
    <3>1. pool_buffer[i] \in Pools /\ InSlot(i, pool_buffer[i])
      BY <2>1 DEF BufferInv, TypeOK, InSlot
    <3> QED
      BY <3>1
         DEF BufferInv, TypeOK, Contents, Apart, Located, Cleared, InPool, At
  <2>2. ASSUME NEW t \in Threads, pool[t] # NULL,
               pc[t] \in {"create_step", "create_unlock"}
        PROVE  content[pool[t]] = "clean"
    <3>1. pool[t] \in Pools /\ InPool(t, pool[t])
      BY <2>2 DEF BufferInv, TypeOK, InPool, At
    <3> QED
      BY <2>2, <3>1
         DEF BufferInv, TypeOK, Contents, Apart, Located, Cleared, InPool, At
  <2>3. ASSUME NEW t \in Threads, pool[t] # NULL, pc[t] = "create_empty"
        PROVE  content[pool[t]] = "clean"
    BY <2>1, <2>3, Alone DEF BufferInv, LocalInv, Critical
  <2> QED
    BY <2>1, <2>2, <2>3 DEF ReusedClean
<1> QED
  BY <1>1, Invariance, PTL

(* The pools kept fill neighbouring slots that end at the position.        *)
THEOREM PoolsAreNeighbours == Spec => []Neighbours
<1>1. BufferInv => Neighbours
  BY DEF BufferInv
<1> QED
  BY <1>1, Invariance, PTL

-----------------------------------------------------------------------------
(* The buffer implements PoolStack. *)

(* The pools in the n slots that end at top, the one freed first first.    *)
StackOf(buffer, top, n) == [i \in 1 .. n |-> buffer[Below(top, n - i)]]

(* A run of n slots is a stack of n pools.                                 *)
LEMMA RunIsStack ==
  ASSUME NEW buffer \in [Slots -> Pools \cup {NULL}], NEW top \in Slots,
         NEW n \in 0 .. Size, Run(buffer, top, n)
  PROVE  /\ Cardinality({i \in Slots : buffer[i] # NULL}) = n
         /\ StackOf(buffer, top, n) \in Seq(Pools)
         /\ Len(StackOf(buffer, top, n)) = n
<1> DEFINE full == {i \in Slots : buffer[i] # NULL}
           f == [k \in 1 .. n |-> Below(top, k - 1)]
<1>1. ASSUME NEW k \in 1 .. n
      PROVE  k - 1 \in Slots /\ k - 1 < n
  BY BufferAssumption DEF Slots
<1>2. f \in [1 .. n -> full]
  BY <1>1, Wraps DEF Run
<1>3. ASSUME NEW j \in 1 .. n, NEW k \in 1 .. n, f[j] = f[k]
      PROVE  j = k
  <2>1. j - 1 = k - 1
    BY <1>1, <1>3, AllBelow
  <2> QED
    BY <2>1
<1>4. ASSUME NEW i \in full
      PROVE  \E k \in 1 .. n : f[k] = i
  <2>1. PICK k \in Slots : Below(top, k) = i
    BY AllBelow
  <2>2. k < n
    BY <2>1 DEF Run
  <2>3. k + 1 \in 1 .. n /\ (k + 1) - 1 = k
    BY <2>2, BufferAssumption DEF Slots
  <2> QED
    BY <2>1, <2>3
<1>5. f \in Bijection(1 .. n, full)
  BY <1>2, <1>3, <1>4, Fun_IsBij
<1>6. IsFiniteSet(1 .. n) /\ Cardinality(1 .. n) = n
  BY FS_Interval, BufferAssumption
<1>7. Cardinality(full) = n
  BY <1>5, <1>6, FS_Bijection DEF ExistsBijection
<1>8. ASSUME NEW i \in 1 .. n
      PROVE  buffer[Below(top, n - i)] \in Pools
  <2>1. n - i \in Slots /\ n - i < n
    BY BufferAssumption DEF Slots
  <2>2. Below(top, n - i) \in Slots /\ buffer[Below(top, n - i)] # NULL
    BY <2>1, Wraps DEF Run
  <2> QED
    BY <2>2
<1>9. /\ StackOf(buffer, top, n) \in Seq(Pools)
      /\ Len(StackOf(buffer, top, n)) = n
  BY <1>8, BufferAssumption DEF StackOf
<1> QED
  BY <1>7, <1>9

(* The stack is the run below the top; without a buffer it is empty.       *)
LEMMA StackIs ==
  ASSUME BufferInv
  PROVE  /\ Size = 0 => stack = <<>>
         /\ Size # 0 =>
              /\ Top \in Slots /\ pool_buffer_pos \in Slots
              /\ \E n \in 0 .. Size :
                   /\ Run(pool_buffer, Top, n)
                   /\ stack = StackOf(pool_buffer, Top, n)
                   /\ stack \in Seq(Pools) /\ Len(stack) = n
<1>1. ASSUME Size = 0
      PROVE  stack = <<>>
  <2>1. {i \in Slots : pool_buffer[i] # NULL} = {}
    BY <1>1 DEF Slots
  <2>2. NumKept = 0
    BY <2>1, FS_EmptySet DEF NumKept
  <2> QED
    BY <2>2 DEF stack
<1>2. ASSUME Size # 0
      PROVE  /\ Top \in Slots /\ pool_buffer_pos \in Slots
             /\ \E n \in 0 .. Size :
                  /\ Run(pool_buffer, Top, n)
                  /\ stack = StackOf(pool_buffer, Top, n)
                  /\ stack \in Seq(Pools) /\ Len(stack) = n
  <2>1. pool_buffer_pos \in Slots /\ pool_buffer \in [Slots -> Pools \cup {NULL}]
    BY <1>2 DEF BufferInv, TypeOK
  <2>2. Top \in Slots
    BY <2>1, Wraps DEF Top
  <2>3. PICK n \in 0 .. Size : Run(pool_buffer, Top, n)
    BY <1>2, NeighboursRun DEF BufferInv
  <2>4. NumKept = n
    BY <2>1, <2>2, <2>3, RunIsStack DEF NumKept
  <2>5. stack = StackOf(pool_buffer, Top, n)
    BY <2>4 DEF stack, StackOf
  <2> QED
    BY <2>1, <2>2, <2>3, <2>5, RunIsStack
<1> QED
  BY <1>1, <1>2

(* If the slots and the top stay, so does the stack.                       *)
LEMMA StackStays ==
  ASSUME pool_buffer' = pool_buffer, Top' = Top
  PROVE  stack' = stack
BY DEF stack, NumKept

(* A pool that exists is kept, evicted or taken.                           *)
LEMMA Whereabouts ==
  ASSUME NEW p \in Pools
  PROVE  /\ p \in evicted <=> \E u \in Threads : Leaves(u, p)
         /\ p \in taken <=>
              content[p] # "none" /\ p \notin evicted
                /\ \A i \in Slots : ~InSlot(i, p)
BY DEF evicted, taken, InSlot

(* Steps that PoolStack does not see.                                      *)
LEMMA Unseen ==
  ASSUME pool_buffer' = pool_buffer, Top' = Top,
         \A p \in Pools : content'[p] = "none" <=> content[p] = "none",
         \A p \in Pools, u \in Threads : Leaves(u, p)' <=> Leaves(u, p)
  PROVE  UNCHANGED Stack!vars
<1>1. stack' = stack
  BY StackStays
<1>2. evicted' = evicted
  BY DEF evicted
<1>3. taken' = taken
  BY <1>2 DEF taken
<1> QED
  BY <1>1, <1>2, <1>3 DEF Stack!vars

(* Which steps PoolStack does not see: those that leave the slots alone    *)
(* and neither make, clear away nor destroy a pool.                        *)
LEMMA UnseenSteps ==
  ASSUME BufferInv, NEW t \in Threads,
         \/ CallCreate(t) \/ CreateTake(t) \/ CreateUnlock(t)
         \/ FreeAdvance(t) \/ FreeTake(t) \/ FreeUnlock(t)
         \/ (FreeClear(t) /\ Size # 0)
         \/ (CreateStep(t) /\ pool[t] # NULL)
         \/ \E p \in Pools : CallFree(t, p)
  PROVE  UNCHANGED Stack!vars
<1> USE BufferAssumption DEF At, Goto, BufferInv
<1>1. ~CreateEmpty(t) /\ ~FreePut(t)
  BY DEF CallCreate, CreateTake, CreateUnlock, FreeAdvance, FreeTake,
         FreeUnlock, FreeClear, CreateStep, CallFree, CreateEmpty, FreePut
<1>2. pool_buffer' = pool_buffer /\ Top' = Top
  BY <1>1, TopStays DEF Step
<1>3. \A p \in Pools : pool[t] = p /\ pc[t] \in {"create_unlock", "free_clear"}
        => content[p] # "none"
  BY DEF Located, InPool
<1>4. \A p \in Pools : content'[p] = "none" <=> content[p] = "none"
  BY <1>3 DEF CallCreate, CreateTake, CreateUnlock, FreeAdvance, FreeTake,
              FreeUnlock, FreeClear, CreateStep, CallFree, poolVars, TypeOK
<1>5. \A p \in Pools, u \in Threads : u # t => (Leaves(u, p)' <=> Leaves(u, p))
  BY DEF CallCreate, CreateTake, CreateUnlock, FreeAdvance, FreeTake,
         FreeUnlock, FreeClear, CreateStep, CallFree, TypeOK, Leaves, InOld
<1>6. \A p \in Pools : Leaves(t, p)' <=> Leaves(t, p)
  BY DEF CallCreate, CreateTake, CreateUnlock, FreeAdvance, FreeTake,
         FreeUnlock, FreeClear, CreateStep, CallFree, TypeOK, LocalInv, Leaves,
         InOld
<1> QED
  BY <1>2, <1>4, <1>5, <1>6, Unseen

(* The slot at the position is emptied: its pool is taken.                 *)
LEMMA TakeStep ==
  ASSUME BufferInv, NEW t \in Threads, CreateEmpty(t)
  PROVE  [Stack!Next]_(Stack!vars)
<1> USE BufferAssumption DEF At, Goto
<1>1. /\ pool_buffer_pos \in Slots /\ Size # 0 /\ ~Halfway /\ Halfway'
      /\ pool_buffer \in [Slots -> Pools \cup {NULL}]
      /\ pool_buffer' = [pool_buffer EXCEPT ![pool_buffer_pos] = NULL]
  BY Alone, HalfwayBy
     DEF CreateEmpty, Critical, Slots, Halfway, BufferInv, TypeOK
<1>2. Top = pool_buffer_pos /\ Top' = Before(pool_buffer_pos)
  BY <1>1 DEF Top, CreateEmpty
<1>3. PICK n \in 0 .. Size : /\ Run(pool_buffer, pool_buffer_pos, n)
                             /\ stack = StackOf(pool_buffer, pool_buffer_pos, n)
                             /\ stack \in Seq(Pools) /\ Len(stack) = n
  BY <1>1, <1>2, StackIs
<1>4. /\ \A p \in Pools : content'[p] = content[p]
      /\ \A p \in Pools, u \in Threads : Leaves(u, p)' <=> Leaves(u, p)
  <2>1. \A p \in Pools, u \in Threads : InOld(u, p)' <=> InOld(u, p)
    BY MovedOut
  <2>2. content' = content /\ pool' = pool
    BY DEF CreateEmpty, poolVars
  <2>3. \A u \in Threads : pc'[u] = "free_direct" <=> pc[u] = "free_direct"
    BY DEF CreateEmpty, BufferInv, TypeOK
  <2> QED
    BY <2>1, <2>2, <2>3 DEF Leaves
<1>5. evicted' = evicted
  BY <1>4 DEF evicted
<1>6. CASE n = 0
  <2>1. pool_buffer[pool_buffer_pos] = NULL
    BY <1>1, <1>3, <1>6, Wraps DEF Run, Slots
  <2>2. pool_buffer' = pool_buffer
    BY <1>1, <2>1
  <2>3. NumKept' = 0 /\ NumKept = 0
    <3>1. Cardinality({i \in Slots : pool_buffer[i] # NULL}) = 0
      BY <1>1, <1>3, <1>6, RunIsStack
    <3> QED
      BY <2>2, <3>1 DEF NumKept
  <2>4. stack' = stack
    BY <2>3 DEF stack
  <2>5. taken' = taken
    BY <1>4, <1>5, <2>2 DEF taken
  <2> QED
    BY <1>5, <2>4, <2>5 DEF Stack!vars
<1>7. CASE n # 0
  <2>1. PICK p \in Pools : p = pool_buffer[pool_buffer_pos]
    <3>1. pool_buffer[pool_buffer_pos] # NULL
      BY <1>1, <1>3, <1>7, Wraps DEF Run, Slots
    <3> QED
      BY <1>1, <3>1
  <2>2. stack[Len(stack)] = p
    <3>1. n \in 1 .. n /\ n - n = 0
      BY <1>7
    <3> QED
      BY <1>1, <1>3, <2>1, <3>1, Wraps DEF StackOf
  <2>3. Run(pool_buffer', Top', n - 1) /\ n - 1 \in 0 .. Size
    BY <1>1, <1>2, <1>3, <1>7, RunPopped
  <2>4. stack' = StackOf(pool_buffer', Top', n - 1)
    <3>1. pool_buffer' \in [Slots -> Pools \cup {NULL}] /\ Top' \in Slots
      BY <1>1, <1>2, Wraps
    <3>2. Cardinality({i \in Slots : pool_buffer'[i] # NULL}) = n - 1
      BY <2>3, <3>1, RunIsStack
    <3> QED
      BY <3>2 DEF stack, NumKept, StackOf
  <2>5. stack' = SubSeq(stack, 1, Len(stack) - 1)
    <3>1. ASSUME NEW i \in 1 .. n - 1
          PROVE  pool_buffer'[Below(Top', n - 1 - i)] = stack[i]
      <4>1. n - 1 - i \in Slots /\ n - i \in Slots /\ n - 1 - i + 1 = n - i
            /\ n - i # 0 /\ i \in 1 .. n
        BY DEF Slots
      <4>2. Below(Top', n - 1 - i) = Below(pool_buffer_pos, n - i)
        BY <1>1, <1>2, <4>1, Wraps
      <4>3. /\ Below(pool_buffer_pos, n - i) \in Slots
            /\ Below(pool_buffer_pos, n - i) # pool_buffer_pos
        BY <1>1, <4>1, Wraps
      <4>4. stack[i] = pool_buffer[Below(pool_buffer_pos, n - i)]
        BY <1>3, <4>1 DEF StackOf
      <4> QED
        BY <1>1, <4>2, <4>3, <4>4
    <3>2. SubSeq(stack, 1, n - 1) = [i \in 1 .. n - 1 |-> stack[i]]
      BY <1>3, <1>7
    <3>3. stack' = [i \in 1 .. n - 1 |-> stack[i]]
      BY <2>4, <3>1 DEF StackOf
    <3> QED
      BY <1>3, <3>2, <3>3
  <2>6. taken' = taken \cup {p}
    <3>1. /\ content[p] # "none" /\ p \notin evicted
          /\ \A i \in Slots : InSlot(i, p) <=> i = pool_buffer_pos
      <4>1. InSlot(pool_buffer_pos, p)
        BY <2>1 DEF InSlot
      <4>2. \A u \in Threads : ~InOld(u, p) /\ ~InPool(u, p)
        BY <1>1, <4>1 DEF BufferInv, Apart
      <4> QED
        BY <1>1, <4>1, <4>2, Whereabouts
           DEF BufferInv, Apart, Located, Leaves, InPool
    <3>2. \A q \in Pools, i \in Slots :
            InSlot(i, q)' <=> InSlot(i, q) /\ i # pool_buffer_pos
      BY MovedOut
    <3>3. \A q \in Pools : q # p => ~InSlot(pool_buffer_pos, q)
      BY <2>1 DEF InSlot
    <3>4. \A q \in Pools : q \in taken' <=> q \in taken \/ q = p
      BY <1>4, <1>5, <3>1, <3>2, <3>3 DEF taken, InSlot
    <3> QED
      BY <3>4 DEF taken
  <2>7. stack # <<>>
    BY <1>3, <1>7
  <2> QED
    BY <1>5, <2>2, <2>5, <2>6, <2>7 DEF Stack!Next, Stack!Take
<1> QED
  BY <1>6, <1>7

(* No thread found a pool: one is made.                                    *)
LEMMA NewStep ==
  ASSUME BufferInv, NEW t \in Threads,
         (CreateStep(t) /\ pool[t] = NULL) \/ CreateDirect(t)
  PROVE  Stack!Next
<1> USE BufferAssumption DEF At, Goto
<1>1. PICK p \in Pools : /\ content[p] = "none" /\ content'[p] # "none"
                         /\ \A q \in Pools : q # p => content'[q] = content[q]
                         /\ pool'[t] \in {NULL, p}
  BY DEF CreateStep, CreateDirect, apr_pool_create, BufferInv, TypeOK, LocalInv
<1>2. NoneKept
  BY DEF CreateStep, CreateDirect, BufferInv, EmptyInv, NoneKept, Slots,
         ControlInv, Direct
<1>3. pool_buffer' = pool_buffer /\ Top' = Top
  BY TopStays DEF Step, CreateStep, CreateDirect, CreateEmpty, FreePut
<1>4. stack' = stack
  BY <1>3, StackStays
<1>5. stack = <<>>
  <2>1. {i \in Slots : pool_buffer[i] # NULL} = {}
    BY <1>2 DEF NoneKept
  <2>2. NumKept = 0
    BY <2>1, FS_EmptySet DEF NumKept
  <2> QED
    BY <2>2 DEF stack
<1>6. \A q \in Pools, u \in Threads : Leaves(u, q)' <=> Leaves(u, q)
  <2>1. old' = old /\ \A u \in Threads : u # t => pool'[u] = pool[u]
    BY DEF CreateStep, CreateDirect, apr_pool_create, BufferInv, TypeOK
  <2>2. /\ \A u \in Threads : u # t => pc'[u] = pc[u]
        /\ pc[t] \in {"create_step", "create_direct"}
        /\ pc'[t] \in {"create_unlock", "idle"}
    BY DEF CreateStep, CreateDirect, BufferInv, TypeOK
  <2> QED
    BY <2>1, <2>2 DEF Leaves, InOld
<1>7. evicted' = evicted
  BY <1>6 DEF evicted
<1>8. p \notin evicted
  <2>1. \A u \in Threads : ~InOld(u, p) /\ ~InPool(u, p)
    BY <1>1 DEF BufferInv, Located
  <2> QED
    BY <2>1 DEF evicted, Leaves, InPool
<1>9. p \notin taken
  BY <1>1 DEF taken
<1>10. taken' = taken \cup {p}
  <2>1. \A q \in Pools : q \in taken <=> content[q] # "none" /\ q \notin evicted
    BY <1>2 DEF taken, NoneKept
  <2>2. \A q \in Pools :
          q \in taken' <=> content'[q] # "none" /\ q \notin evicted'
    BY <1>2, <1>3 DEF taken, NoneKept
  <2>3. \A q \in Pools : q \in taken' <=> q \in taken \/ q = p
    BY <1>1, <1>7, <1>8, <2>1, <2>2
  <2> QED
    BY <2>3 DEF taken
<1> QED
  BY <1>4, <1>5, <1>7, <1>8, <1>9, <1>10 DEF Stack!Next, Stack!New

(* A pool that a thread is about to give up is neither kept nor evicted.   *)
LEMMA PutTaken ==
  ASSUME BufferInv, NEW t \in Threads, NEW p \in Pools, pool[t] = p,
         pc[t] \in {"free_clear", "free_put"}
  PROVE  /\ content[p] # "none" /\ p \in taken /\ p \notin evicted
         /\ \A i \in Slots : ~InSlot(i, p)
<1>1. InPool(t, p)
  BY DEF InPool, At
<1>2. content[p] # "none" /\ \A i \in Slots : ~InSlot(i, p)
  BY <1>1 DEF BufferInv, Located, Apart
<1>3. \A u \in Threads : ~Leaves(u, p)
  BY <1>1 DEF BufferInv, Apart, Leaves, InPool, At
<1> QED
  BY <1>2, <1>3, Whereabouts

(* Without a buffer a pool makes room for itself.                          *)
LEMMA PutDirectStep ==
  ASSUME BufferInv, NEW t \in Threads, FreeClear(t), Size = 0
  PROVE  Stack!Next
<1> USE BufferAssumption DEF At, Goto
<1>1. PICK p \in Pools : p = pool[t]
  BY DEF FreeClear, BufferInv, TypeOK, LocalInv
<1>2. /\ content[p] # "none" /\ p \in taken /\ p \notin evicted
      /\ \A i \in Slots : ~InSlot(i, p)
  BY <1>1, PutTaken DEF FreeClear
<1>3. stack = <<>>
  BY StackIs
<1>4. pool_buffer' = pool_buffer /\ Top' = Top
  BY TopStays DEF Step, FreeClear, CreateEmpty, FreePut
<1>5. stack' = stack
  BY <1>4, StackStays
<1>6. \A q \in Pools : (content'[q] = "none" <=> content[q] = "none")
  BY <1>1, <1>2 DEF FreeClear, BufferInv, TypeOK
<1>7. \A q \in Pools, u \in Threads :
        Leaves(u, q)' <=> Leaves(u, q) \/ (u = t /\ q = p)
  <2>1. old' = old /\ pool' = pool /\ old[t] = NULL
    BY DEF FreeClear, BufferInv, LocalInv
  <2>2. /\ \A u \in Threads : u # t => pc'[u] = pc[u]
        /\ pc[t] = "free_clear" /\ pc'[t] = "free_direct"
    BY DEF FreeClear, BufferInv, TypeOK
  <2> QED
    BY <1>1, <2>1, <2>2 DEF Leaves, InOld
<1>8. evicted' = evicted \cup {p}
  BY <1>7 DEF evicted
<1>9. taken' = taken \ {p}
  BY <1>4, <1>6, <1>8 DEF taken
<1>10. PICK full : full = Append(stack, p)
  OBVIOUS
<1>11. Tail(full) = <<>> /\ Head(full) = p /\ Len(stack) = 0
  BY <1>3, <1>10
<1>12. Stack!Put(p)
  BY <1>2, <1>3, <1>5, <1>8, <1>9, <1>10, <1>11 DEF Stack!Put
<1> QED
  BY <1>12 DEF Stack!Next

(* The slot at the position is filled: its pool makes room.                *)
LEMMA PutStep ==
  ASSUME BufferInv, NEW t \in Threads, FreePut(t)
  PROVE  Stack!Next
<1> USE BufferAssumption DEF At, Goto
<1>1. PICK p \in Pools : p = pool[t]
  BY DEF FreePut, BufferInv, TypeOK, LocalInv
<1>2. /\ content[p] # "none" /\ p \in taken /\ p \notin evicted
      /\ \A i \in Slots : ~InSlot(i, p)
  BY <1>1, PutTaken DEF FreePut
<1>3. /\ pool_buffer_pos \in Slots /\ Size # 0 /\ Halfway /\ ~Halfway'
      /\ pool_buffer \in [Slots -> Pools \cup {NULL}]
      /\ pool_buffer' = [pool_buffer EXCEPT ![pool_buffer_pos] = p]
      /\ pool_buffer_pos' = pool_buffer_pos
  BY <1>1, Alone, HalfwayBy
     DEF FreePut, Critical, Slots, Halfway, BufferInv, TypeOK
<1>4. PICK top \in Slots : top = Before(pool_buffer_pos)
  BY <1>3, Wraps
<1>5. Top = top /\ Top' = pool_buffer_pos
  BY <1>3, <1>4 DEF Top
<1>6. PICK n \in 0 .. Size : /\ Run(pool_buffer, top, n)
                             /\ stack = StackOf(pool_buffer, top, n)
                             /\ stack \in Seq(Pools) /\ Len(stack) = n
  BY <1>3, <1>5, StackIs
<1>7. PICK m \in 0 .. Size : m = IF n = Size THEN Size ELSE n + 1
  OBVIOUS
<1>8. stack' = StackOf(pool_buffer', pool_buffer_pos, m)
  <2>1. Run(pool_buffer', pool_buffer_pos, m)
    BY <1>3, <1>4, <1>6, <1>7, RunPushed
  <2>2. pool_buffer' \in [Slots -> Pools \cup {NULL}]
    BY <1>3
  <2>3. Cardinality({i \in Slots : pool_buffer'[i] # NULL}) = m
    BY <1>3, <2>1, <2>2, RunIsStack
  <2> QED
    BY <1>5, <2>3 DEF stack, NumKept, StackOf
<1>9. /\ pool_buffer'[Below(pool_buffer_pos, 0)] = p
      /\ \A k \in Slots : k + 1 \in Slots =>
           pool_buffer'[Below(pool_buffer_pos, k + 1)]
             = pool_buffer[Below(top, k)]
  <2>1. pool_buffer'[Below(pool_buffer_pos, 0)] = p
    BY <1>3, Wraps
  <2>2. ASSUME NEW k \in Slots, k + 1 \in Slots
        PROVE  pool_buffer'[Below(pool_buffer_pos, k + 1)]
                 = pool_buffer[Below(top, k)]
    <3>1. k + 1 # 0
      BY DEF Slots
    <3>2. /\ Below(pool_buffer_pos, k + 1) \in Slots
          /\ Below(pool_buffer_pos, k + 1) # pool_buffer_pos
      BY <1>3, <2>2, <3>1, Wraps
    <3>3. Below(top, k) = Below(pool_buffer_pos, k + 1)
      BY <1>3, <1>4, <2>2, Wraps
    <3> QED
      BY <1>3, <3>2, <3>3
  <2> QED
    BY <2>1, <2>2
<1>10. ASSUME NEW d \in {0, 1}, m = n + 1 - d, NEW i \in 1 .. m, i # m
       PROVE  stack'[i] = stack[i + d]
  <2>1. /\ m - i - 1 \in Slots /\ m - i \in Slots /\ m - i - 1 + 1 = m - i
        /\ i + d \in 1 .. n /\ n - (i + d) = m - i - 1
    BY <1>10 DEF Slots
  <2>2. stack'[i] = pool_buffer'[Below(pool_buffer_pos, m - i)]
    BY <1>8 DEF StackOf
  <2>3. stack[i + d] = pool_buffer[Below(top, m - i - 1)]
    BY <1>6, <2>1 DEF StackOf
  <2> QED
    BY <1>9, <2>1, <2>2, <2>3
<1>11. /\ m \in 1 .. m /\ stack'[m] = p
       /\ DOMAIN stack' = 1 .. m /\ Len(stack') = m
  <2>1. m \in 1 .. m /\ m - m = 0
    BY <1>3, <1>7
  <2> QED
    BY <1>8, <1>9, <2>1 DEF StackOf
<1>12. \A q \in Pools, i \in Slots :
         InSlot(i, q)' <=> IF i = pool_buffer_pos THEN q = p ELSE InSlot(i, q)
  BY <1>3 DEF InSlot
<1>13. \A q \in Pools, u \in Threads :
         Leaves(u, q)' <=>
           Leaves(u, q) \/ (u = t /\ InSlot(pool_buffer_pos, q))
  <2>1. \A q \in Pools, u \in Threads :
          InOld(u, q)' <=>
            InOld(u, q) \/ (u = t /\ InSlot(pool_buffer_pos, q))
    BY MovedIn
  <2>2. /\ \A u \in Threads : u # t => pc'[u] = pc[u] /\ pool'[u] = pool[u]
        /\ pc[t] = "free_put" /\ pc'[t] = "free_unlock"
    BY DEF FreePut, BufferInv, TypeOK
  <2> QED
    BY <2>1, <2>2 DEF Leaves
<1>14. content' = content
  BY DEF FreePut, poolVars
<1>15. \A q \in Pools : q \in evicted' <=>
         q \in evicted \/ InSlot(pool_buffer_pos, q)
  BY <1>13 DEF evicted
<1>16. taken' = taken \ {p}
  <2>1. \A q \in Pools :
          /\ q \in taken <=> content[q] # "none" /\ q \notin evicted
                               /\ \A i \in Slots : ~InSlot(i, q)
          /\ q \in taken' <=> content'[q] # "none" /\ q \notin evicted'
                                /\ \A i \in Slots : ~InSlot(i, q)'
    BY DEF taken, InSlot
  <2>2. \A q \in Pools : q \in taken' <=> q \in taken /\ q # p
    BY <1>2, <1>3, <1>12, <1>14, <1>15, <2>1
  <2> QED
    BY <2>2 DEF taken
<1>17. PICK full : full = Append(stack, p)
  OBVIOUS
<1>18. /\ full \in Seq(Pools) /\ Len(full) = n + 1
       /\ \A i \in 1 .. n : full[i] = stack[i]
       /\ full[n + 1] = p
  BY <1>6, <1>17
<1>19. pool_buffer[pool_buffer_pos] # NULL <=> n = Size
  <2>1. Size - 1 \in Slots /\ Below(top, Size - 1) = pool_buffer_pos
    BY <1>3, <1>4, Wraps DEF Slots
  <2> QED
    BY <1>6, <2>1 DEF Run
<1>20. CASE n < Size
  <2>1. m = n + 1
    BY <1>7, <1>20
  <2>2. stack' = full
    <3>1. \A i \in 1 .. m : stack'[i] = full[i]
      BY <1>10, <1>11, <1>18, <2>1
    <3>2. DOMAIN full = 1 .. m
      BY <1>18, <2>1
    <3>3. stack' = [i \in 1 .. m |-> full[i]]
      BY <1>8, <3>1 DEF StackOf
    <3> QED
      BY <1>18, <3>2, <3>3
  <2>3. evicted' = evicted
    <3>1. \A q \in Pools : ~InSlot(pool_buffer_pos, q)
      BY <1>19, <1>20 DEF InSlot
    <3> QED
      BY <1>15, <3>1 DEF evicted
  <2>4. Stack!Put(p)
    BY <1>2, <1>6, <1>16, <1>17, <1>20, <2>2, <2>3 DEF Stack!Put
  <2> QED
    BY <2>4 DEF Stack!Next
<1>21. CASE n = Size
  <2>1. m = n
    BY <1>7, <1>21
  <2>2. PICK rest : rest = Tail(full)
    OBVIOUS
  <2>3. /\ rest \in Seq(Pools) /\ Len(rest) = n
        /\ \A i \in 1 .. n : rest[i] = full[i + 1]
    BY <1>3, <1>18, <2>2
  <2>4. stack' = rest
    <3>1. \A i \in 1 .. m : stack'[i] = rest[i]
      <4> SUFFICES ASSUME NEW i \in 1 .. m
                   PROVE  stack'[i] = rest[i]
        OBVIOUS
      <4>1. CASE i = m
        BY <1>11, <1>18, <2>1, <2>3, <4>1
      <4>2. CASE i # m
        <5>1. stack'[i] = stack[i + 1]
          BY <1>10, <2>1, <4>2
        <5>2. i + 1 \in 1 .. n
          BY <2>1, <4>2
        <5> QED
          BY <1>18, <2>1, <2>3, <5>1, <5>2
      <4> QED
        BY <4>1, <4>2
    <3>2. DOMAIN rest = 1 .. m
      BY <2>1, <2>3
    <3>3. stack' = [i \in 1 .. m |-> rest[i]]
      BY <1>8, <3>1 DEF StackOf
    <3> QED
      BY <2>3, <3>2, <3>3
  <2>5. Head(full) = pool_buffer[pool_buffer_pos]
    <3>1. Head(full) = full[1] /\ 1 \in 1 .. n
      BY <1>3, <1>18, <1>21
    <3>2. full[1] = stack[1]
      BY <1>18, <3>1
    <3>3. stack[1] = pool_buffer[Below(top, Size - 1)]
      BY <1>6, <1>21, <3>1 DEF StackOf
    <3>4. Below(top, Size - 1) = pool_buffer_pos
      BY <1>3, <1>4, Wraps
    <3> QED
      BY <3>1, <3>2, <3>3, <3>4
  <2>6. evicted' = evicted \cup {Head(full)}
    <3>1. Head(full) \in Pools
      BY <1>3, <1>19, <1>21, <2>5
    <3>2. \A q \in Pools : InSlot(pool_buffer_pos, q) <=> q = Head(full)
      BY <2>5 DEF InSlot
    <3> QED
      BY <1>15, <3>1, <3>2 DEF evicted
  <2>7. Stack!Put(p)
    BY <1>2, <1>6, <1>16, <1>17, <1>21, <2>2, <2>4, <2>6 DEF Stack!Put
  <2> QED
    BY <2>7 DEF Stack!Next
<1> QED
  BY <1>20, <1>21

(* A pool that had to make room is destroyed.                              *)
LEMMA DestroyStep ==
  ASSUME BufferInv, NEW t \in Threads, FreeDestroy(t) \/ FreeDirect(t)
  PROVE  Stack!Next
<1> USE BufferAssumption DEF At, Goto
<1>1. PICK p \in Pools :
        /\ Leaves(t, p) /\ content'[p] = "none" /\ content[p] # "none"
        /\ \A q \in Pools : q # p => content'[q] = content[q]
        /\ \A q \in Pools : Leaves(t, q) <=> q = p
  <2>1. CASE FreeDestroy(t)
    <3>1. PICK p \in Pools : p = old[t]
      BY <2>1 DEF FreeDestroy, BufferInv, TypeOK, LocalInv
    <3>2. InOld(t, p)
      BY <2>1, <3>1 DEF FreeDestroy, InOld
    <3>3. content[p] # "none"
      BY <3>2 DEF BufferInv, Located
    <3> QED
      BY <2>1, <3>1, <3>2, <3>3
         DEF FreeDestroy, apr_pool_destroy, BufferInv, TypeOK, Leaves, InOld
  <2>2. CASE FreeDirect(t)
    <3>1. PICK p \in Pools : p = pool[t]
      BY <2>2 DEF FreeDirect, BufferInv, TypeOK, LocalInv
    <3>2. InPool(t, p) /\ old[t] = NULL
      BY <2>2, <3>1 DEF FreeDirect, InPool, BufferInv, LocalInv
    <3>3. content[p] # "none"
      BY <3>2 DEF BufferInv, Located
    <3> QED
      BY <2>2, <3>1, <3>2, <3>3
         DEF FreeDirect, apr_pool_destroy, BufferInv, TypeOK, Leaves, InOld
  <2> QED
    BY <2>1, <2>2
<1>2. \A u \in Threads : u # t => ~Leaves(u, p)
  <2>1. InOld(t, p) \/ InPool(t, p)
    BY <1>1 DEF Leaves, InPool
  <2>2. \A u \in Threads : u # t => ~InOld(u, p) /\ ~InPool(u, p)
    BY <2>1 DEF BufferInv, Apart
  <2> QED
    BY <2>2 DEF Leaves, InPool
<1>3. \A q \in Pools, u \in Threads : Leaves(u, q)' <=> Leaves(u, q) /\ u # t
  <2>1. ASSUME NEW u \in Threads, u # t
        PROVE  pool'[u] = pool[u] /\ old'[u] = old[u] /\ pc'[u] = pc[u]
    BY <2>1 DEF FreeDestroy, FreeDirect, BufferInv, TypeOK
  <2>2. pc'[t] = "idle" /\ old'[t] = NULL
    BY DEF FreeDestroy, FreeDirect, BufferInv, TypeOK, LocalInv
  <2> QED
    BY <2>1, <2>2 DEF Leaves, InOld
<1>4. pool_buffer' = pool_buffer /\ Top' = Top
  BY TopStays DEF Step, FreeDestroy, FreeDirect, CreateEmpty, FreePut
<1>5. stack' = stack
  BY <1>4, StackStays
<1>6. p \in evicted /\ evicted' = evicted \ {p}
  BY <1>1, <1>2, <1>3 DEF evicted
<1>7. taken' = taken
  <2>1. \A q \in Pools : q \in taken' <=> q \in taken
    BY <1>1, <1>4, <1>6 DEF taken
  <2> QED
    BY <2>1 DEF taken
<1> QED
  BY <1>5, <1>6, <1>7 DEF Stack!Next, Stack!Destroy

(* Every step of the threads is a step of the stack or changes nothing     *)
(* that it sees.                                                           *)
LEMMA StackStep ==
  ASSUME BufferInv, [Next]_vars
  PROVE  [Stack!Next]_(Stack!vars)
<1>1. ASSUME NEW t \in Threads, Step(t)
      PROVE  [Stack!Next]_(Stack!vars)
  <2>1. CASE CreateTake(t) \/ CreateUnlock(t) \/ FreeAdvance(t) \/ FreeTake(t)
               \/ FreeUnlock(t)
    BY <2>1, UnseenSteps
  <2>2. CASE CreateEmpty(t)
    BY <2>2, TakeStep
  <2>3. CASE CreateStep(t) \/ CreateDirect(t)
    BY <2>3, NewStep, UnseenSteps
  <2>4. CASE FreeClear(t)
    BY <2>4, PutDirectStep, UnseenSteps
  <2>5. CASE FreePut(t)
    BY <2>5, PutStep
  <2>6. CASE FreeDestroy(t) \/ FreeDirect(t)
    BY <2>6, DestroyStep
  <2> QED
    BY <1>1, <2>1, <2>2, <2>3, <2>4, <2>5, <2>6 DEF Step
<1>2. ASSUME NEW t \in Threads, CallCreate(t) \/ \E p \in Pools : CallFree(t, p)
      PROVE  [Stack!Next]_(Stack!vars)
  BY <1>2, UnseenSteps
<1>3. CASE UNCHANGED vars
  <2>1. pool_buffer' = pool_buffer /\ Top' = Top
    BY <1>3 DEF vars, ringVars, Top, Halfway
  <2>2. \A p \in Pools, u \in Threads : Leaves(u, p)' <=> Leaves(u, p)
    BY <1>3 DEF vars, Leaves, InOld, At
  <2>3. \A p \in Pools : content'[p] = "none" <=> content[p] = "none"
    BY <1>3 DEF vars, poolVars
  <2> QED
    BY <2>1, <2>2, <2>3, Unseen
<1> QED
  BY <1>1, <1>2, <1>3 DEF Next

(* Whatever the number of threads and slots, and however their steps       *)
(* interleave, the ring with its one position is a stack of the pools that *)
(* were freed last.                                                        *)
THEOREM Refinement == Spec => ImplementsStack
<1>1. Init => Stack!Init
  <2> SUFFICES ASSUME Init
               PROVE  Stack!Init
    OBVIOUS
  <2>1. NumKept = 0
    <3>1. {i \in Slots : pool_buffer[i] # NULL} = {}
      BY DEF Init
    <3> QED
      BY <3>1, FS_EmptySet DEF NumKept
  <2>2. stack = <<>>
    BY <2>1 DEF stack
  <2>3. evicted = {}
    BY BufferAssumption DEF Init, evicted, Leaves, InOld, At
  <2>4. taken = {}
    BY DEF Init, taken
  <2> QED
    BY <2>2, <2>3, <2>4 DEF Stack!Init
<1> QED
  BY <1>1, StackStep, Invariance, PTL DEF Spec, ImplementsStack, Stack!Spec
=============================================================================

----------------------------- MODULE PoolStack -----------------------------
(***************************************************************************)
(* What the pool buffer of yakka/Runtime.c (its struct calls it the "pool  *)
(* trash stack") promises: a stack that keeps the pools freed last, at     *)
(* most Size of them.  The pool freed last is reused first; a pool is      *)
(* created only if none is kept; the pool that has been kept longest makes *)
(* room for a new one and is then destroyed.                               *)
(***************************************************************************)
EXTENDS Naturals, Sequences

CONSTANTS
  Pools,  \* the pools that can exist
  Size    \* the number of pools to keep

VARIABLES
  stack,   \* the pools kept for reuse, the one freed last at the end
  taken,   \* the pools in the hands of those who took or created them
  evicted  \* the pools that have made room and wait to be destroyed

vars == <<stack, taken, evicted>>

Kept == {stack[i] : i \in DOMAIN stack}

Init == stack = <<>> /\ taken = {} /\ evicted = {}

Take ==
  /\ stack # <<>>
  /\ stack' = SubSeq(stack, 1, Len(stack) - 1)
  /\ taken' = taken \cup {stack[Len(stack)]}
  /\ UNCHANGED evicted

New(p) ==
  /\ stack = <<>>
  /\ p \notin taken \cup evicted
  /\ taken' = taken \cup {p}
  /\ UNCHANGED <<stack, evicted>>

Put(p) ==
  /\ p \in taken
  /\ taken' = taken \ {p}
  /\ LET full == Append(stack, p)
     IN IF Len(stack) < Size
        THEN stack' = full /\ UNCHANGED evicted
        ELSE stack' = Tail(full) /\ evicted' = evicted \cup {Head(full)}

Destroy(p) ==
  /\ p \in evicted
  /\ evicted' = evicted \ {p}
  /\ UNCHANGED <<stack, taken>>

Next == Take \/ \E p \in Pools : New(p) \/ Put(p) \/ Destroy(p)

Spec == Init /\ [][Next]_vars
=============================================================================

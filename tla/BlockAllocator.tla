--------------------------- MODULE BlockAllocator ---------------------------
(***************************************************************************)
(* What malloc and free promise, with no free list: a set of live blocks   *)
(* inside one address range.  A block <<lo, hi>> is the half-open range    *)
(* of addresses lo .. hi - 1, its header included.  One request is served  *)
(* at a time; blocks may be released while it is being served, because an  *)
(* interrupt handler may call free in the middle of a malloc.              *)
(***************************************************************************)
EXTENDS Naturals

CONSTANTS
  HeapSize,   \* bytes between HEAP_ADDRESS and STACK_ADDRESS
  HdrSize,    \* bytes of an allocation header
  Requests    \* the sizes clients ask for

VARIABLES
  live,       \* the blocks handed out and not released
  need,       \* bytes the pending request needs, 0 when there is none
  snap        \* the live blocks at the moment of the pending request

vars == <<live, need, snap>>

Disjoint(lo, hi, b) == hi <= b[1] \/ b[2] <= lo

\* A gap of n bytes that no block of the set touches.
HasGap(blocks, n) ==
  \E lo \in 0 .. HeapSize :
    /\ lo + n <= HeapSize
    /\ \A b \in blocks : Disjoint(lo, lo + n, b)

Init == live = {} /\ need = 0 /\ snap = {}

Request(n) ==
  /\ need = 0
  /\ n + HdrSize < HeapSize
  /\ need' = n + HdrSize
  /\ snap' = live
  /\ live' = live

\* The block given is inside the heap, long enough, and nobody else's.
Grant ==
  /\ need > 0
  /\ \E lo, hi \in 0 .. HeapSize :
       /\ lo + need <= hi
       /\ \A b \in live : Disjoint(lo, hi, b)
       /\ live' = live \cup {<<lo, hi>>}
  /\ need' = 0
  /\ snap' = {}

\* NULL is an answer only when, at the moment of the call, no gap of one
\* byte more than the request existed, however fragmented the heap was.
Refuse ==
  /\ need > 0
  /\ ~HasGap(snap, need + 1)
  /\ need' = 0
  /\ snap' = {}
  /\ live' = live

Release ==
  /\ \E b \in live : live' = live \ {b}
  /\ UNCHANGED <<need, snap>>

Answer == Grant \/ Refuse

Next == \/ \E n \in Requests : Request(n)
        \/ Answer
        \/ Release

Safety == Init /\ [][Next]_vars

\* Every request is answered.
Spec == Safety /\ WF_vars(Answer)

=============================================================================

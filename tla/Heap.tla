-------------------------------- MODULE Heap --------------------------------
(***************************************************************************)
(* libc/src/malloc.c: the first-fit heap, one step per loop iteration.     *)
(*                                                                         *)
(* The heap is a chain of chunks; each starts with a header that holds an  *)
(* is_free bit and the size of the chunk, header included.  The chain is   *)
(* the function size from the address of each header to its size; bytes    *)
(* that were a header before a merge are not in its domain.  Addresses     *)
(* are relative to HEAP_ADDRESS, so STACK_BASE_PTR is HeapSize.            *)
(*                                                                         *)
(* One malloc runs at a time, but an interrupt handler may run between any *)
(* two of its steps and call free (the scheduler frees the control block   *)
(* of a dead process inside the timer interrupt), so Free is enabled in    *)
(* every state.  A malloc inside an interrupt that hits another malloc is  *)
(* in KernelMemory.                                                        *)
(***************************************************************************)
EXTENDS Naturals, FiniteSets

CONSTANTS
  HeapSize,   \* HEAP_MAX_SIZE
  HdrSize,    \* sizeof(AllocHeader)
  Requests,   \* the sizes passed to malloc
  SizeMod     \* number of values of a size_t

ASSUME HeapAssumption ==
  /\ HeapSize \in Nat /\ HdrSize \in Nat /\ SizeMod \in Nat
  /\ 0 < HdrSize /\ HdrSize < HeapSize /\ HeapSize < SizeMod

\* No caller asks for a size so close to 2^32 that adding the header wraps.
ASSUME RequestsAssumption ==
  /\ Requests \subseteq Nat
  /\ \A n \in Requests : n + HdrSize < SizeMod

VARIABLES
  size,         \* chunk sizes, by header address
  is_free,      \* the headers whose is_free bit is set
  memory_used,  \* the counter the ram command prints
  pc,           \* the loop of malloc being executed
  p,            \* malloc's p
  concat_ptr,   \* __malloc_concat_free_chunks's concat_ptr
  want,         \* malloc's size, header included; 0 when no call is active
  tmp,          \* memory_used as loaded by the += in progress
  snap          \* history: the live blocks when the active call started

vars == <<size, is_free, memory_used, pc, p, concat_ptr, want, tmp, snap>>
locals == <<p, concat_ptr, want, tmp, snap>>

Heads == DOMAIN size
Live == Heads \ is_free
End(a) == a + size[a]
Block(a) == <<a, End(a)>>
LiveBlocks == {Block(a) : a \in Live}

-----------------------------------------------------------------------------
Init ==
  /\ size = [a \in {0} |-> HeapSize]
  /\ is_free = {0}
  /\ memory_used = 0
  /\ pc = "idle"
  /\ p = 0 /\ concat_ptr = 0 /\ want = 0 /\ tmp = 0
  /\ snap = {}

\* malloc's last return: its locals are gone.
Return ==
  /\ pc' = "idle"
  /\ p' = 0 /\ concat_ptr' = 0 /\ want' = 0 /\ tmp' = 0
  /\ snap' = {}

\* Sizes that fail the first test of malloc return NULL and change nothing.
Accepted(n) == n # 0 /\ n < HeapSize

Malloc(n) ==
  /\ pc = "idle"
  /\ want' = (n + HdrSize) % SizeMod
  /\ Accepted(want')
  /\ pc' = "find"
  /\ p' = 0
  /\ snap' = LiveBlocks
  /\ UNCHANGED <<size, is_free, memory_used, concat_ptr, tmp>>

\* __malloc_find_empty_space: step over a chunk in use ...
FindSkip ==
  /\ pc = "find"
  /\ p < HeapSize /\ p \notin is_free
  /\ p' = End(p)
  /\ UNCHANGED <<size, is_free, memory_used, pc, concat_ptr, want, tmp, snap>>

\* ... stop on a free one ...
FindStop ==
  /\ pc = "find"
  /\ p < HeapSize /\ p \in is_free
  /\ pc' = "concat"
  /\ concat_ptr' = End(p)
  /\ UNCHANGED <<size, is_free, memory_used, p, want, tmp, snap>>

\* ... or reach the end of the heap: malloc returns NULL.
FindEnd ==
  /\ pc = "find"
  /\ p >= HeapSize
  /\ Return
  /\ UNCHANGED <<size, is_free, memory_used>>

\* __malloc_concat_free_chunks: the chunk at p swallows a free successor.
Mergeable_Never(q) == FALSE
Mergeable(q) == q < HeapSize /\ q \in is_free

ConcatMerge ==
  /\ pc = "concat"
  /\ Mergeable(concat_ptr)
  /\ size' = [a \in Heads \ {concat_ptr} |->
                IF a = p THEN size[p] + size[concat_ptr] ELSE size[a]]
  /\ is_free' = is_free \ {concat_ptr}
  /\ concat_ptr' = End(concat_ptr)
  /\ UNCHANGED <<memory_used, pc, p, want, tmp, snap>>

ConcatStop ==
  /\ pc = "concat"
  /\ ~Mergeable(concat_ptr)
  /\ pc' = "fit"
  /\ UNCHANGED <<size, is_free, memory_used, p, concat_ptr, want, tmp, snap>>

\* A chunk is taken only if it is longer than the request: the exact size
\* does not fit.
FitSkip ==
  /\ pc = "fit"
  /\ ~(want < size[p])
  /\ pc' = "find"
  /\ p' = End(p)
  /\ UNCHANGED <<size, is_free, memory_used, concat_ptr, want, tmp, snap>>

\* memory_used += size is a load, then a store; an interrupt may come between.
FitLoad ==
  /\ pc = "fit"
  /\ want < size[p]
  /\ tmp' = memory_used
  /\ pc' = "take"
  /\ UNCHANGED <<size, is_free, memory_used, p, concat_ptr, want, snap>>

\* The chain after chunk a gives up its first n bytes: the rest is a free
\* chunk of its own if it has room for more than a header, else it is given
\* away with the block.
Split_Lossy(a, n) ==
  IF size[a] - n > HdrSize
  THEN [x \in Heads \cup {a + n} |->
          IF x = a THEN n ELSE IF x = a + n THEN size[a] - n ELSE size[x]]
  ELSE [size EXCEPT ![a] = n]

Split(a, n) ==
  IF size[a] - n > HdrSize
  THEN [x \in Heads \cup {a + n} |->
          IF x = a THEN n ELSE IF x = a + n THEN size[a] - n ELSE size[x]]
  ELSE size

Take ==
  /\ pc = "take"
  /\ size' = Split(p, want)
  /\ is_free' = (is_free \ {p}) \cup (DOMAIN size' \ Heads)
  /\ memory_used' = (tmp + want) % SizeMod
  /\ Return

\* free, from an interrupt handler or from the code that called malloc.
Free(a) ==
  /\ is_free' = is_free \cup {a}
  /\ memory_used' = (memory_used + SizeMod - size[a]) % SizeMod
  /\ UNCHANGED <<size, pc, p, concat_ptr, want, tmp, snap>>

MallocStep ==
  \/ FindSkip \/ FindStop \/ FindEnd
  \/ ConcatMerge \/ ConcatStop
  \/ FitSkip \/ FitLoad \/ Take

Next ==
  \/ \E n \in Requests : Malloc(n)
  \/ MallocStep
  \/ \E a \in Live : Free(a)

\* A started malloc goes on: interrupt handlers return to the code they
\* interrupted.  Nobody is obliged to call malloc or free.
Spec == Init /\ [][Next]_vars /\ WF_vars(MallocStep)

-----------------------------------------------------------------------------
\* Every variable stays in its range, and the chunk malloc stands on is one
\* the current loop may use (malloc.c:54-94).
TypeOK ==
  /\ Heads \subseteq 0 .. HeapSize - 1
  /\ size \in [Heads -> 1 .. HeapSize]
  /\ is_free \subseteq Heads
  /\ memory_used \in 0 .. SizeMod - 1
  /\ tmp \in 0 .. SizeMod - 1
  /\ pc \in {"idle", "find", "concat", "fit", "take"}
  /\ p \in 0 .. HeapSize
  /\ concat_ptr \in 0 .. HeapSize
  /\ want \in 0 .. HeapSize - 1

\* The chunks tile the heap: following the sizes from the first header meets
\* every header, and ends exactly at STACK_BASE_PTR.  A merge or a split
\* that loses a byte, or a free in the middle of a merge, would break it.
ChunksTileHeap ==
  /\ 0 \in Heads
  /\ \A a \in Heads :
       /\ End(a) \in Heads \cup {HeapSize}
       /\ \A b \in Heads : a < b => End(a) <= b

\* No chunk is shorter than its own header, so writing a header never
\* touches the next chunk (malloc.c:75-82).
HeadersFit == \A a \in Heads : size[a] >= HdrSize

-----------------------------------------------------------------------------
\* The chain of chunks implements a set of live blocks: a grant is disjoint
\* from every live block, and NULL is answered only when the heap had no gap
\* longer than the request at the call, whatever was freed meanwhile.
Blocks == INSTANCE BlockAllocator WITH live <- LiveBlocks, need <- want
AllocatesBlocks == Blocks!Spec

=============================================================================

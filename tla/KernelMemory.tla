---------------------------- MODULE KernelMemory ----------------------------
(***************************************************************************)
(* The heap of malloc.c with all who use it at once: main, which the pci   *)
(* command takes through free and malloc step by step, and the handlers    *)
(* that call malloc or free whole between any two of those steps: the      *)
(* network card copies every frame and keeps the copy, the keyboard makes  *)
(* the control block of a process and the timer frees it.                  *)
(*                                                                         *)
(* The chain of chunks is that of Heap.  What follows once main or a       *)
(* handler has taken other bytes for a header, or changed a chunk that was *)
(* given away, is not modelled; nor is the packet after a full list, which *)
(* frees the list itself.                                                  *)
(***************************************************************************)
EXTENDS Integers, FiniteSets, FiniteSetsExt

CONSTANTS
  HeapSize, HdrSize,
  Ring, List, Table, FrameCopy, Block,   \* the bytes the clients ask for
  NHeaders   \* headers in the list: 256

ASSUME MemoryAssumption ==
  /\ {HeapSize, HdrSize, Ring, List, Table, FrameCopy, Block, NHeaders} \subseteq Nat \ {0}
  /\ Ring + List + Table + 3 * HdrSize < HeapSize

Null == -1

VARIABLES
  size, is_free,        \* the chain, as in Heap
  owned,                \* history: the areas given out, as <<whose, from, to>>
  pc, p, concat_ptr,    \* main: "shell" outside the pci command, or in malloc
  next_size,            \* and the remainder of the chunk it takes
  devices,              \* pci.c's pointer to its table
  devices_size,         \* and what is asked for it, up to more than the heap
  nHeaders,             \* packets received
  null_written,         \* history: a client wrote through NULL
  interleaved,                \* history: an interrupt's malloc came while main's
                        \* stood on its chunk
  lost                  \* the chain is not what malloc takes it for

memoryVars == <<size, is_free, owned, pc, p, concat_ptr, next_size, devices,
                devices_size, nHeaders, null_written, interleaved, lost>>
chain == <<size, is_free>>
locals == <<pc, p, concat_ptr, next_size>>
pci == <<devices, devices_size>>

Heads == DOMAIN size
End(a) == a + size[a]
Area(whose, a, n) == <<whose, a, a + n + HdrSize>>

\* init_os: pci_scan_bus makes the table, rtl8139_init the ring and the list.
MemoryInit ==
  LET ring == Table + HdrSize
      list == ring + Ring + HdrSize
      rest == list + List + HdrSize
  IN /\ size = [a \in {0, ring, list, rest} |->
                  CASE a = 0 -> ring [] a = ring -> list - ring
                    [] a = list -> rest - list [] OTHER -> HeapSize - rest]
     /\ is_free = {rest}
     /\ owned = {Area("devices", 0, Table), Area("ring", ring, Ring), Area("list", list, List)}
     /\ pc = "shell" /\ p = 0 /\ concat_ptr = 0 /\ next_size = 0
     /\ devices = 0 /\ devices_size = Table /\ nHeaders = 0
     /\ null_written = FALSE /\ interleaved = FALSE /\ lost = FALSE

-----------------------------------------------------------------------------
\* A whole malloc.  It merges every run of free chunks it comes to and takes
\* the first that is longer than the request.
Runs == {a \in is_free : \A b \in is_free : End(b) # a}
RunEnd(a) == Min({End(b) : b \in {c \in is_free : c >= a /\ End(c) \notin is_free}})
Fitting_Bare(want) == {a \in Runs : want - HdrSize < RunEnd(a) - a}
Fitting(want) == {a \in Runs : want < RunEnd(a) - a}
Visited(want) == {a \in Runs : Fitting(want) = {} \/ a <= Min(Fitting(want))}
Absorbed(want) == {b \in is_free \ Runs : \E a \in Visited(want) : a < b /\ b < RunEnd(a)}

Merged(want) ==
  [a \in Heads \ Absorbed(want) |-> IF a \in Visited(want) THEN RunEnd(a) - a ELSE size[a]]

\* The chunk at a gives its first bytes away; a rest with room for more than a
\* header is a free chunk.
Leaves(n) == n > HdrSize
Cut(sizes, a, want) ==
  [x \in DOMAIN sizes \cup (IF Leaves(sizes[a] - want) THEN {a + want} ELSE {}) |->
     IF x = a /\ Leaves(sizes[a] - want) THEN want
     ELSE IF x = a + want THEN sizes[a] - want ELSE sizes[x]]

\* A walk that comes to the chunk main has cut short, and not yet closed, reads
\* whatever lies behind it.
ReachesOpen(want) ==
  pc = "rest" /\ next_size # 0 /\ (Fitting(want) = {} \/ p < Min(Fitting(want)))

\* malloc in a handler, for a client that writes to what it gets untested.
MallocInside(whose, n) ==
  LET want == n + HdrSize
      sizes == Merged(want)
      a == Min(Fitting(want))
  IN /\ interleaved' = (interleaved \/ pc # "shell")
     /\ lost' = ReachesOpen(want)
     /\ \/ /\ lost' \/ Fitting(want) = {}
           /\ null_written' = (null_written \/ ~lost')
           /\ size' = sizes /\ is_free' = is_free \ Absorbed(want)
           /\ UNCHANGED owned
        \/ /\ ~lost' /\ Fitting(want) # {}
           /\ size' = Cut(sizes, a, want)
           /\ is_free' = ((is_free \ Absorbed(want)) \ {a}) \cup (DOMAIN size' \ DOMAIN sizes)
           /\ owned' = owned \cup {Area(whose, a, n)}
           /\ UNCHANGED null_written

\* The card: receive_packet never frees its copy of the frame.
Receive ==
  /\ ~lost /\ nHeaders < NHeaders
  /\ MallocInside("frame", FrameCopy)
  /\ nHeaders' = nHeaders + 1
  /\ UNCHANGED <<locals, pci>>

\* The keyboard: spawn_process; the timer: scheduler.
Spawn ==
  /\ ~lost
  /\ MallocInside("block", Block)
  /\ UNCHANGED <<locals, pci, nHeaders>>

Free(o) ==
  /\ is_free' = is_free \cup {o[2]}
  /\ owned' = owned \ {o}

Reap(o) ==
  /\ ~lost /\ o[1] = "block"
  /\ Free(o)
  /\ UNCHANGED <<size, locals, pci, nHeaders, null_written, interleaved, lost>>

-----------------------------------------------------------------------------
\* pci_scan_bus in main: the old table is freed, the devices are counted and
\* malloc is called.  The count begins at 0 only where there was a table: after a
\* malloc that failed it goes on from the last one.  It grows to one that no heap
\* satisfies and is kept there; that the 16 bits of the code wrap is left out.
MainRuns(c) == pc = c /\ ~lost
Wanted == devices_size + HdrSize
Counted ==
  IF devices # Null THEN Table
  ELSE IF devices_size < HeapSize THEN devices_size + Table ELSE devices_size

ScanBus ==
  /\ MainRuns("shell")
  /\ IF devices = Null THEN UNCHANGED <<is_free, owned>>
     ELSE \E o \in owned : o[1] = "devices" /\ Free(o)
  /\ devices' = Null /\ devices_size' = Counted
  /\ interleaved' = FALSE
  /\ pc' = "find" /\ p' = 0
  /\ UNCHANGED <<size, concat_ptr, next_size, nHeaders, null_written, lost>>

\* main goes on from a chunk: a header that is gone loses the heap.
Loses(c) == lost' = c /\ UNCHANGED <<pci, nHeaders, null_written, interleaved>>

FindSkip ==
  /\ MainRuns("find") /\ p < HeapSize /\ p \notin is_free
  /\ p' = IF p \in Heads THEN End(p) ELSE p
  /\ Loses(p \notin Heads)
  /\ UNCHANGED <<chain, owned, pc, concat_ptr, next_size>>

FindStop ==
  /\ MainRuns("find") /\ p < HeapSize /\ p \in is_free
  /\ pc' = "concat" /\ concat_ptr' = End(p)
  /\ Loses(FALSE)
  /\ UNCHANGED <<chain, owned, p, next_size>>

\* No chunk is left: the table is written through NULL.
FindEnd ==
  /\ MainRuns("find") /\ p >= HeapSize
  /\ null_written' = TRUE
  /\ pc' = "shell" /\ p' = 0 /\ concat_ptr' = 0 /\ next_size' = 0
  /\ UNCHANGED <<chain, owned, pci, nHeaders, interleaved, lost>>

\* The chunk at p must still end where the next begins.
Intact == p \in is_free /\ End(p) = concat_ptr

ConcatMerge ==
  /\ MainRuns("concat") /\ concat_ptr \in is_free
  /\ \/ /\ Intact
        /\ size' = [a \in Heads \ {concat_ptr} |->
                      IF a = p THEN size[p] + size[concat_ptr] ELSE size[a]]
        /\ is_free' = is_free \ {concat_ptr}
        /\ concat_ptr' = End(concat_ptr)
        /\ Loses(FALSE)
     \/ ~Intact /\ Loses(TRUE) /\ UNCHANGED <<chain, concat_ptr>>
  /\ UNCHANGED <<owned, pc, p, next_size>>

ConcatStop ==
  /\ MainRuns("concat") /\ concat_ptr \notin is_free
  /\ pc' = "fit"
  /\ Loses(concat_ptr < HeapSize /\ concat_ptr \notin Heads)
  /\ UNCHANGED <<chain, owned, p, concat_ptr, next_size>>

\* malloc tests is_free once more before it compares the size.
StillFree == p \in is_free

FitTaken ==
  /\ MainRuns("fit") /\ p \in Heads \cup {HeapSize} /\ ~StillFree
  /\ pc' = "find"
  /\ Loses(FALSE)
  /\ UNCHANGED <<chain, owned, p, concat_ptr, next_size>>

FitSkip ==
  /\ MainRuns("fit") /\ p \in Heads /\ StillFree /\ ~(Wanted < size[p])
  /\ pc' = "find" /\ p' = End(p)
  /\ Loses(FALSE)
  /\ UNCHANGED <<chain, owned, concat_ptr, next_size>>

Fit ==
  /\ MainRuns("fit") /\ p \in Heads /\ StillFree /\ Wanted < size[p]
  /\ pc' = "take"
  /\ Loses(FALSE)
  /\ UNCHANGED <<chain, owned, p, concat_ptr, next_size>>

FitGone ==
  /\ MainRuns("fit") /\ p \notin Heads
  /\ Loses(TRUE)
  /\ UNCHANGED <<chain, owned, locals>>

\* The header at p first, which leaves no header behind the block ...
TakeChunk ==
  /\ MainRuns("take")
  /\ next_size' = IF p \in Heads THEN size[p] - Wanted ELSE 0
  /\ size' = IF p \in Heads THEN [size EXCEPT ![p] = Wanted] ELSE size
  /\ is_free' = is_free \ {p}
  /\ pc' = "rest"
  /\ Loses(p \notin is_free \/ size[p] < Wanted)
  /\ UNCHANGED <<owned, p, concat_ptr>>

\* ... then the rest.
CloseChunk ==
  /\ MainRuns("rest")
  /\ size' = [x \in Heads \cup (IF Leaves(next_size) THEN {p + Wanted} ELSE {}) |->
                IF x = p + Wanted /\ Leaves(next_size) THEN next_size
                ELSE IF x = p /\ ~Leaves(next_size) THEN Wanted + next_size ELSE size[x]]
  /\ is_free' = is_free \cup (DOMAIN size' \ Heads)
  /\ owned' = owned \cup {Area("devices", p, devices_size)}
  /\ devices' = p
  /\ pc' = "shell" /\ p' = 0 /\ concat_ptr' = 0 /\ next_size' = 0
  /\ UNCHANGED <<devices_size, nHeaders, null_written, interleaved, lost>>

MemoryNext ==
  \/ Receive \/ Spawn
  \/ \E o \in owned : Reap(o)
  \/ ScanBus
  \/ FindSkip \/ FindStop \/ FindEnd
  \/ ConcatMerge \/ ConcatStop
  \/ FitTaken \/ FitSkip \/ Fit \/ FitGone
  \/ TakeChunk \/ CloseChunk

MemorySpec == MemoryInit /\ [][MemoryNext]_memoryVars

-----------------------------------------------------------------------------
\* Whoever owns an area has it to himself, from the header of a chunk in use
\* to no further than its end, and every chunk in use has an owner, whatever
\* the handlers allocate and free between the steps of main's malloc.  The heap
\* is lost only when a handler's malloc came during main's: frees alone, and
\* mallocs that come before or after, do no harm (malloc.c:33-107, pci.c:92-109,
\* rtl8139.c:63, ctx.c:74, 143).
EveryAreaItsOwn ==
  /\ lost => interleaved
  /\ ~lost /\ pc # "rest" =>
       /\ \A o \in owned : o[2] \in Heads \ is_free /\ o[3] <= End(o[2])
       /\ \A o, q \in owned : o # q => o[3] <= q[2] \/ q[3] <= o[2]
       /\ Heads \ is_free = {o[2] : o \in owned}
       /\ \A a \in Heads : End(a) \in Heads \cup {HeapSize}

=============================================================================

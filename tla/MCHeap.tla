------------------------------- MODULE MCHeap -------------------------------
(***************************************************************************)
(* A heap of 17 bytes with the 4-byte header of the code: up to four       *)
(* blocks, remainders on both sides of the split threshold, a full heap,   *)
(* and a request of the size of the whole heap.                            *)
(***************************************************************************)
EXTENDS Heap, FiniteSetsExt

\* The ram command's "used" figure (tty.c, "ram usage"; malloc.c:72,106) is
\* the number of bytes of the chunks in use, whenever no malloc is running.
UsedIsLiveBytes == pc = "idle" => memory_used = MapThenSumSet(LAMBDA a : size[a], Live)

=============================================================================

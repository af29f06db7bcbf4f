----------------------------- MODULE HeapProofs -----------------------------
(***************************************************************************)
(* Theorems about the heap of libc/src/malloc.c, for every heap size,      *)
(* header size and set of requests that satisfies the assumptions of Heap. *)
(* The chain stays a tiling although free may come from an interrupt       *)
(* between any two steps of malloc, and every step of malloc is a step of  *)
(* the abstract block allocator, or leaves its state alone.                *)
(***************************************************************************)
EXTENDS Heap, TLAPS

USE DEF Heads, Live, End, Block

-----------------------------------------------------------------------------
\* Where malloc's pointers stand at each of its loops.
Cursor ==
  /\ pc = "idle" => want = 0
  /\ pc # "idle" => want >= HdrSize
  /\ pc = "find" => p \in Heads \cup {HeapSize}
  /\ pc \in {"concat", "fit", "take"} => p \in is_free
  /\ pc = "concat" => concat_ptr = End(p)
  /\ pc = "take" => want < size[p]

\* The inductive invariant behind the safety properties.
HeapInv == TypeOK /\ ChunksTileHeap /\ HeadersFit /\ Cursor

LEMMA InitHeapInv == Init => HeapInv
BY HeapAssumption
DEF Init, HeapInv, TypeOK, ChunksTileHeap, HeadersFit, Cursor

\* Swallowing the free successor of a chunk keeps the tiling.
LEMMA MergeKeepsInv == HeapInv /\ ConcatMerge => HeapInv'
<1> SUFFICES ASSUME HeapInv, ConcatMerge PROVE HeapInv'
  OBVIOUS
<1> USE HeapAssumption
<1> DEFINE q == concat_ptr
<1>1. /\ p \in Heads /\ q \in Heads /\ q = p + size[p] /\ p # q
      /\ size[p] \in Nat /\ size[q] \in Nat /\ p \in Nat /\ q \in Nat
      /\ End(q) \in Heads \cup {HeapSize} /\ End(q) <= HeapSize
      /\ q < HeapSize
  BY DEF HeapInv, TypeOK, Cursor, ChunksTileHeap, ConcatMerge, Mergeable
<1>2. /\ Heads' = Heads \ {q}
      /\ size'[p] = size[p] + size[q]
      /\ \A a \in Heads' \ {p} : size'[a] = size[a]
      /\ is_free' = is_free \ {q}
      /\ \A a \in Heads : size[a] \in Nat /\ size[a] > 0 /\ a \in Nat
  BY <1>1 DEF ConcatMerge, HeapInv, TypeOK
<1>3. p' = p /\ p + size'[p] = End(q)
  BY <1>1, <1>2 DEF ConcatMerge
<1>4. ChunksTileHeap'
  <2>1. 0 \in Heads'
    BY <1>1, <1>2 DEF HeapInv, ChunksTileHeap
  <2>2. ASSUME NEW a \in Heads'
        PROVE  (a + size'[a]) \in Heads' \cup {HeapSize}
    <3>1. CASE a = p
      BY <1>1, <1>2, <1>3, <3>1 DEF HeapInv, ChunksTileHeap
    <3>2. CASE a # p
      <4>1. a \in Heads /\ a + size'[a] = End(a) /\ a # q
        BY <1>2, <3>2
      <4>2. End(a) # q
        BY <1>1, <1>2, <3>2, <4>1 DEF HeapInv, ChunksTileHeap
      <4> QED BY <1>2, <4>1, <4>2 DEF HeapInv, ChunksTileHeap
    <3> QED BY <3>1, <3>2
  <2>3. ASSUME NEW a \in Heads', NEW b \in Heads', a < b
        PROVE  a + size'[a] <= b
    <3>1. a \in Heads /\ b \in Heads /\ b # q /\ End(a) <= b
      BY <1>2, <2>3 DEF HeapInv, ChunksTileHeap
    <3>2. CASE a = p
      <4>1. q <= b /\ q < b
        BY <1>1, <1>2, <3>1, <3>2
      <4>2. End(q) <= b
        BY <1>1, <3>1, <4>1 DEF HeapInv, ChunksTileHeap
      <4> QED BY <1>3, <3>2, <4>2
    <3>3. CASE a # p
      BY <1>2, <3>1, <3>3
    <3> QED BY <3>2, <3>3
  <2> QED BY <2>1, <2>2, <2>3 DEF ChunksTileHeap
<1>5. TypeOK'
  <2>1. size' \in [Heads' -> 1 .. HeapSize]
    <3>1. size[p] + size[q] \in 1 .. HeapSize
      BY <1>1, <1>2
    <3> QED BY <1>1, <1>2, <3>1 DEF ConcatMerge, HeapInv, TypeOK
  <2>2. concat_ptr' \in 0 .. HeapSize
    BY <1>1 DEF ConcatMerge
  <2> QED BY <1>2, <2>1, <2>2 DEF ConcatMerge, HeapInv, TypeOK
<1>6. HeadersFit'
  BY <1>1, <1>2 DEF HeapInv, HeadersFit
<1>7. Cursor'
  BY <1>1, <1>2, <1>3 DEF ConcatMerge, HeapInv, Cursor
<1> QED BY <1>4, <1>5, <1>6, <1>7 DEF HeapInv

\* So does taking a chunk, split or not.
LEMMA TakeKeepsInv == HeapInv /\ Take => HeapInv'
<1> SUFFICES ASSUME HeapInv, Take PROVE HeapInv'
  OBVIOUS
<1> USE HeapAssumption
<1>1. /\ p \in Heads /\ p \in Nat /\ size[p] \in Nat /\ want \in Nat
      /\ want < size[p] /\ want >= HdrSize
      /\ p \in is_free /\ p + size[p] <= HeapSize
      /\ \A a \in Heads : size[a] \in Nat /\ size[a] > 0 /\ a \in Nat
      /\ tmp \in Nat
  BY DEF HeapInv, TypeOK, Cursor, ChunksTileHeap, Take
<1>2. TypeOK' /\ HeadersFit' /\ ChunksTileHeap'
  <2>1. CASE size[p] - want > HdrSize
    <3> DEFINE r == p + want
    <3>1. /\ Heads' = Heads \cup {r}
          /\ size'[p] = want /\ size'[r] = size[p] - want
          /\ \A a \in Heads' \ {p, r} : size'[a] = size[a]
          /\ r # p /\ r \in Nat /\ r < p + size[p]
          /\ size' = [x \in Heads \cup {r} |-> IF x = p THEN want ELSE
                        IF x = r THEN size[p] - want ELSE size[x]]
      BY <1>1, <2>1 DEF Take, Split
    <3>2. r \notin Heads
      BY <1>1, <3>1 DEF HeapInv, ChunksTileHeap
    <3>3. is_free' = (is_free \ {p}) \cup {r}
      BY <3>1, <3>2 DEF Take
    <3>4. TypeOK'
      <4>1. Heads' \subseteq 0 .. HeapSize - 1
        BY <1>1, <3>1 DEF HeapInv, TypeOK
      <4>2. size' \in [Heads' -> 1 .. HeapSize]
        BY <1>1, <2>1, <3>1 DEF HeapInv, TypeOK
      <4>3. memory_used' \in 0 .. SizeMod - 1
        BY <1>1 DEF Take
      <4> QED BY <3>1, <3>3, <4>1, <4>2, <4>3
             DEF HeapInv, TypeOK, Take, Return
    <3>5. HeadersFit'
      BY <1>1, <2>1, <3>1 DEF HeapInv, HeadersFit
    <3>6. ChunksTileHeap'
      <4>2. 0 \in Heads'
        BY <3>1 DEF HeapInv, ChunksTileHeap
      <4>3. ASSUME NEW a \in Heads' PROVE (a + size'[a]) \in Heads' \cup {HeapSize}
        <5>1. CASE a = p BY <3>1, <5>1
        <5>2. CASE a = r BY <1>1, <3>1, <5>2 DEF HeapInv, ChunksTileHeap
        <5>3. CASE a # p /\ a # r
          BY <1>1, <3>1, <5>3 DEF HeapInv, ChunksTileHeap
        <5> QED BY <5>1, <5>2, <5>3
      <4>4. ASSUME NEW a \in Heads', NEW b \in Heads', a < b
            PROVE  a + size'[a] <= b
        <5>1. \A x, y \in Heads : x < y => x + size[x] <= y
          BY DEF HeapInv, ChunksTileHeap
        <5>2. CASE a = p
          BY <1>1, <3>1, <4>4, <5>1, <5>2
        <5>3. CASE a = r
          <6>1. b \in Heads /\ p < b
            BY <1>1, <3>1, <4>4, <5>3
          <6>2. p + size[p] <= b
            BY <1>1, <5>1, <6>1
          <6> QED BY <1>1, <3>1, <5>3, <6>2
        <5>4. CASE a # p /\ a # r
          <6>1. a \in Heads /\ size'[a] = size[a]
            BY <3>1, <5>4
          <6>2. CASE b = r
            <7>1. a < p
              BY <1>1, <3>1, <4>4, <5>1, <5>4, <6>1, <6>2
            <7> QED BY <1>1, <3>1, <5>1, <6>1, <6>2, <7>1
          <6>3. CASE b # r
            BY <3>1, <4>4, <5>1, <6>1, <6>3
          <6> QED BY <6>2, <6>3
        <5> QED BY <5>2, <5>3, <5>4
      <4> QED BY <4>2, <4>3, <4>4 DEF ChunksTileHeap
    <3> QED BY <3>4, <3>5, <3>6
  <2>2. CASE ~(size[p] - want > HdrSize)
    <3>1. size' = size /\ is_free' = is_free \ {p}
      BY <2>2 DEF Take, Split
    <3>2. memory_used' \in 0 .. SizeMod - 1
      BY <1>1 DEF Take
    <3> QED BY <3>1, <3>2
           DEF HeapInv, TypeOK, HeadersFit, ChunksTileHeap, Take, Return
  <2> QED BY <2>1, <2>2
<1>3. Cursor'
  BY DEF Take, Return, Cursor
<1> QED BY <1>2, <1>3 DEF HeapInv

LEMMA NextKeepsInv == HeapInv /\ [Next]_vars => HeapInv'
<1> SUFFICES ASSUME HeapInv, [Next]_vars PROVE HeapInv'
  OBVIOUS
<1> USE HeapAssumption
<1> USE DEF HeapInv, TypeOK, ChunksTileHeap, HeadersFit, Cursor
<1>1. ASSUME NEW n \in Requests, Malloc(n) PROVE HeapInv'
  <2>1. want' = n + HdrSize /\ n \in Nat /\ want' < HeapSize
    BY <1>1, RequestsAssumption DEF Malloc, Accepted
  <2> QED BY <1>1, <2>1 DEF Malloc
<1>2. CASE FindSkip
  BY <1>2 DEF FindSkip
<1>3. CASE FindStop
  BY <1>3 DEF FindStop
<1>4. CASE FindEnd
  BY <1>4 DEF FindEnd, Return
<1>5. CASE ConcatMerge
  BY <1>5, MergeKeepsInv
<1>6. CASE ConcatStop
  BY <1>6 DEF ConcatStop
<1>7. CASE FitSkip
  BY <1>7 DEF FitSkip
<1>8. CASE FitLoad
  BY <1>8 DEF FitLoad
<1>9. CASE Take
  BY <1>9, TakeKeepsInv
<1>10. ASSUME NEW a \in Live, Free(a) PROVE HeapInv'
  <2>1. size[a] \in 1 .. HeapSize /\ memory_used \in Nat
    OBVIOUS
  <2>2. memory_used + SizeMod - size[a] \in Nat
    BY <2>1
  <2>3. memory_used' \in 0 .. SizeMod - 1
    BY <1>10, <2>2 DEF Free
  <2> QED BY <1>10, <2>3 DEF Free
<1>11. CASE UNCHANGED vars
  BY <1>11 DEF vars
<1> QED
  BY <1>1, <1>2, <1>3, <1>4, <1>5, <1>6, <1>7, <1>8, <1>9, <1>10, <1>11
  DEF Next, MallocStep

\* The chunk chain always tiles the heap and no chunk is shorter than its
\* header, for every heap size (malloc.c:40-94, with free at any moment).
THEOREM HeapSafe == Spec => [](TypeOK /\ ChunksTileHeap /\ HeadersFit)
<1>1. HeapInv => TypeOK /\ ChunksTileHeap /\ HeadersFit
  BY DEF HeapInv
<1> QED BY InitHeapInv, NextKeepsInv, <1>1, PTL DEF Spec

-----------------------------------------------------------------------------
\* A gap of the active call, long enough for it, at x or after it.
GapFrom(x) ==
  \E lo \in x .. HeapSize :
    /\ lo + (want + 1) <= HeapSize
    /\ \A b \in snap : lo + (want + 1) <= b[1] \/ b[2] <= lo

\* What a malloc under way knows of the gaps it was called with: blocks only
\* go away while it runs, every gap long enough for it still lies ahead of
\* p, and the run of free bytes it stands on ends at a block of the call.
Ahead ==
  /\ \A b \in snap : b[1] \in Nat /\ b[2] \in Nat /\ b[1] < b[2]
  /\ pc = "idle" => snap = {}
  /\ pc # "idle" => \A a \in Live : Block(a) \in snap
  /\ pc # "idle" /\ GapFrom(0) => GapFrom(p)
  /\ pc = "fit" => p + size[p] = HeapSize \/ \E b \in snap : b[1] = p + size[p]

RefInv == HeapInv /\ Ahead

LEMMA InitRefInv == Init => RefInv
BY InitHeapInv DEF RefInv, Ahead, Init

\* Passing a live block passes no gap.
LEMMA FindSkipAhead == RefInv /\ FindSkip => Ahead'
<1> SUFFICES ASSUME RefInv, FindSkip PROVE Ahead'
  OBVIOUS
<1>1. /\ p \in Live /\ p \in Nat /\ size[p] \in Nat /\ want \in Nat
      /\ pc = "find" /\ pc' = "find" /\ p' = p + size[p]
      /\ snap' = snap /\ want' = want /\ size' = size /\ is_free' = is_free
      /\ Block(p) \in snap /\ HeapSize \in Nat
      /\ p + size[p] <= HeapSize
  BY HeapAssumption
  DEF RefInv, HeapInv, TypeOK, Cursor, FindSkip, Ahead, ChunksTileHeap
<1>2. ASSUME GapFrom(p) PROVE GapFrom(p + size[p])
  <2>1. PICK lo \in p .. HeapSize :
           /\ lo + (want + 1) <= HeapSize
           /\ \A b \in snap : lo + (want + 1) <= b[1] \/ b[2] <= lo
    BY <1>2 DEF GapFrom
  <2>2. Block(p)[1] = p /\ Block(p)[2] = p + size[p]
    OBVIOUS
  <2>3. p + size[p] <= lo
    BY <1>1, <2>1, <2>2
  <2> QED BY <1>1, <2>1, <2>3 DEF GapFrom
<1>3. (GapFrom(0))' = GapFrom(0) /\ (GapFrom(p))' = GapFrom(p + size[p])
  BY <1>1 DEF GapFrom
<1> QED BY <1>1, <1>2, <1>3 DEF Ahead, RefInv

\* Passing a maximal free run that is too short passes no gap either.
LEMMA FitSkipAhead == RefInv /\ FitSkip => Ahead'
<1> SUFFICES ASSUME RefInv, FitSkip PROVE Ahead'
  OBVIOUS
<1>1. /\ p \in Heads /\ p \in Nat /\ size[p] \in Nat /\ want \in Nat
      /\ ~(want < size[p]) /\ pc = "fit" /\ pc' = "find"
      /\ p' = p + size[p] /\ p + size[p] <= HeapSize
      /\ snap' = snap /\ want' = want /\ size' = size /\ is_free' = is_free
      /\ HeapSize \in Nat
      /\ \A b \in snap : b[1] \in Nat /\ b[2] \in Nat /\ b[1] < b[2]
  BY HeapAssumption
  DEF RefInv, HeapInv, TypeOK, Cursor, FitSkip, Ahead, ChunksTileHeap
<1>2. ASSUME GapFrom(p) PROVE GapFrom(p + size[p])
  <2>1. PICK lo \in p .. HeapSize :
           /\ lo + (want + 1) <= HeapSize
           /\ \A b \in snap : lo + (want + 1) <= b[1] \/ b[2] <= lo
    BY <1>2 DEF GapFrom
  <2>2. lo + (want + 1) > p + size[p]
    BY <1>1, <2>1
  <2>3. p + size[p] <= lo
    <3>1. CASE p + size[p] = HeapSize
      BY <1>1, <2>1, <2>2, <3>1
    <3>2. ASSUME NEW b \in snap, b[1] = p + size[p] PROVE p + size[p] <= lo
      BY <1>1, <2>1, <2>2, <3>2
    <3> QED BY <1>1, <3>1, <3>2 DEF RefInv, Ahead
  <2> QED BY <1>1, <2>1, <2>3 DEF GapFrom
<1>3. (GapFrom(0))' = GapFrom(0) /\ (GapFrom(p))' = GapFrom(p + size[p])
  BY <1>1 DEF GapFrom
<1> QED BY <1>1, <1>2, <1>3 DEF Ahead, RefInv

\* Steps that leave p and the request where they are.
LEMMA StandAhead ==
  /\ RefInv /\ pc # "idle" /\ pc' # "idle" /\ UNCHANGED <<p, want, snap>>
  /\ \A a \in Live' : a \in Live /\ size'[a] = size[a]
  /\ pc' = "fit" =>
       p + size'[p] = HeapSize \/ \E b \in snap : b[1] = p + size'[p]
  => Ahead'
<1> SUFFICES
      ASSUME RefInv, pc # "idle", pc' # "idle", UNCHANGED <<p, want, snap>>,
             \A a \in Live' : a \in Live /\ size'[a] = size[a],
             pc' = "fit" =>
               p + size'[p] = HeapSize \/ \E b \in snap : b[1] = p + size'[p]
      PROVE  Ahead'
  OBVIOUS
<1>1. (GapFrom(0))' = GapFrom(0) /\ (GapFrom(p))' = GapFrom(p)
  BY DEF GapFrom
<1>2. \A a \in Live' : <<a, a + size'[a]>> \in snap'
  BY DEF RefInv, Ahead
<1> QED BY <1>1, <1>2 DEF RefInv, Ahead

LEMMA NextKeepsRefInv == RefInv /\ [Next]_vars => RefInv'
<1> SUFFICES ASSUME RefInv, [Next]_vars PROVE Ahead'
  BY NextKeepsInv DEF RefInv
<1> USE HeapAssumption
<1>0. HeapInv /\ HeapInv'
  BY NextKeepsInv DEF RefInv
<1>1. ASSUME NEW n \in Requests, Malloc(n) PROVE Ahead'
  <2>1. \A a \in Live : a \in Nat /\ size[a] \in Nat /\ size[a] > 0
    BY <1>0 DEF HeapInv, TypeOK
  <2>2. /\ pc' = "find" /\ p' = 0 /\ size' = size /\ is_free' = is_free
        /\ snap' = {Block(a) : a \in Live}
    BY <1>1 DEF Malloc, LiveBlocks
  <2>3. \A b \in snap' : b[1] \in Nat /\ b[2] \in Nat /\ b[1] < b[2]
    <3>1. ASSUME NEW a \in Live
          PROVE  /\ Block(a)[1] \in Nat /\ Block(a)[2] \in Nat
                 /\ Block(a)[1] < Block(a)[2]
      <4>1. Block(a)[1] = a /\ Block(a)[2] = a + size[a]
        OBVIOUS
      <4> QED BY <2>1, <4>1
    <3> QED BY <2>2, <3>1
  <2>4. (GapFrom(0))' => (GapFrom(p))'
    BY <2>2 DEF GapFrom
  <2> QED BY <2>2, <2>3, <2>4 DEF Ahead
<1>2. CASE FindSkip
  BY <1>2, FindSkipAhead
<1>3. CASE FindStop
  BY <1>3, StandAhead DEF FindStop
<1>4. CASE FindEnd
  BY <1>4 DEF FindEnd, Return, Ahead
<1>5. CASE ConcatMerge
  <2>1. \A a \in Live' : a \in Live /\ size'[a] = size[a]
    BY <1>0, <1>5 DEF ConcatMerge, HeapInv, TypeOK, Cursor
  <2> QED BY <1>5, <2>1, StandAhead DEF ConcatMerge
<1>6. CASE ConcatStop
  <2>1. /\ concat_ptr = p + size[p] /\ size' = size /\ is_free' = is_free
        /\ p \in Heads
    BY <1>0, <1>6 DEF ConcatStop, HeapInv, TypeOK, Cursor
  <2>2. concat_ptr = HeapSize \/ concat_ptr \in Live
    BY <1>0, <1>6, <2>1
    DEF ConcatStop, Mergeable, HeapInv, TypeOK, ChunksTileHeap
  <2>3. concat_ptr \in Live => Block(concat_ptr) \in snap
    BY <1>6 DEF RefInv, Ahead, ConcatStop
  <2>4. Block(concat_ptr)[1] = concat_ptr
    OBVIOUS
  <2>5. p + size'[p] = HeapSize \/ \E b \in snap : b[1] = p + size'[p]
    BY <2>1, <2>2, <2>3, <2>4
  <2> QED BY <1>6, <2>1, <2>5, StandAhead DEF ConcatStop
<1>7. CASE FitSkip
  BY <1>7, FitSkipAhead
<1>8. CASE FitLoad
  BY <1>8, StandAhead DEF FitLoad
<1>9. CASE Take
  BY <1>9 DEF Take, Return, Ahead
<1>10. ASSUME NEW a \in Live, Free(a) PROVE Ahead'
  <2>1. CASE pc = "idle"
    BY <1>10, <2>1 DEF Free, RefInv, Ahead
  <2>2. CASE pc # "idle"
    BY <1>10, <2>2, StandAhead DEF Free, RefInv, Ahead
  <2> QED BY <2>1, <2>2
<1>11. CASE UNCHANGED vars
  <2>1. (GapFrom(0))' = GapFrom(0) /\ (GapFrom(p))' = GapFrom(p)
    BY <1>11 DEF GapFrom, vars
  <2> QED BY <1>11, <2>1 DEF vars, RefInv, Ahead
<1> QED
  BY <1>1, <1>2, <1>3, <1>4, <1>5, <1>6, <1>7, <1>8, <1>9, <1>10, <1>11
  DEF Next, MallocStep

-----------------------------------------------------------------------------
\* A merge swallows a chunk nobody holds.
LEMMA MergeStutters ==
  RefInv /\ ConcatMerge => UNCHANGED Blocks!vars
<1> SUFFICES ASSUME RefInv, ConcatMerge PROVE UNCHANGED Blocks!vars
  OBVIOUS
<1>1. Live' = Live /\ \A a \in Live : size'[a] = size[a]
  BY DEF RefInv, HeapInv, TypeOK, Cursor, ConcatMerge, Mergeable
<1>2. LiveBlocks' = LiveBlocks
  BY <1>1 DEF LiveBlocks
<1> QED BY <1>2 DEF ConcatMerge, Blocks!vars

\* The chunk taken is a block disjoint from every block in use.
LEMMA TakeGrants == RefInv /\ Take => Blocks!Grant
<1> SUFFICES ASSUME RefInv, Take PROVE Blocks!Grant
  OBVIOUS
<1> USE HeapAssumption
<1> DEFINE hi == p + size'[p]
<1>1. /\ p \in is_free /\ p \in Heads /\ p \in Nat /\ size[p] \in Nat
      /\ want \in Nat /\ want >= HdrSize /\ want < size[p]
      /\ p + size[p] <= HeapSize
      /\ \A a \in Heads : a \in Nat /\ size[a] \in Nat
      /\ \A a, b \in Heads : a < b => a + size[a] <= b
  BY DEF RefInv, HeapInv, TypeOK, Cursor, ChunksTileHeap, Take
<1>2. /\ Live' = Live \cup {p}
      /\ \A a \in Live : size'[a] = size[a]
      /\ size'[p] \in Nat /\ want <= size'[p] /\ size'[p] <= size[p]
  <2>1. CASE size[p] - want > HdrSize
    <3>1. /\ Heads' = Heads \cup {p + want}
          /\ size'[p] = want
          /\ \A a \in Heads \ {p, p + want} : size'[a] = size[a]
      BY <1>1, <2>1 DEF Take, Split
    <3>2. p + want \notin Heads
      BY <1>1
    <3>3. is_free' = (is_free \ {p}) \cup {p + want}
      BY <3>1, <3>2 DEF Take
    <3> QED BY <1>1, <3>1, <3>2, <3>3
  <2>2. CASE ~(size[p] - want > HdrSize)
    <3>1. size' = size /\ is_free' = is_free \ {p}
      BY <2>2 DEF Take, Split
    <3> QED BY <1>1, <3>1
  <2> QED BY <2>1, <2>2
<1>3. LiveBlocks' = LiveBlocks \cup {<<p, hi>>}
  <2>1. LiveBlocks' = {<<a, a + size'[a]>> : a \in Live \cup {p}}
    BY <1>2 DEF LiveBlocks
  <2>2. \A a \in Live : <<a, a + size'[a]>> = <<a, a + size[a]>>
    BY <1>2
  <2> QED BY <2>1, <2>2 DEF LiveBlocks
<1>4. \A b \in LiveBlocks : Blocks!Disjoint(p, hi, b)
  <2> SUFFICES ASSUME NEW a \in Live PROVE Blocks!Disjoint(p, hi, Block(a))
    BY DEF LiveBlocks
  <2>1. Block(a)[1] = a /\ Block(a)[2] = a + size[a]
    OBVIOUS
  <2>2. hi <= a \/ a + size[a] <= p
    <3>1. a # p /\ a \in Heads
      BY <1>1
    <3>2. a < p \/ p < a
      BY <1>1, <3>1
    <3> QED BY <1>1, <1>2, <3>1, <3>2
  <2> QED BY <2>1, <2>2 DEF Blocks!Disjoint
<1>5. want > 0 /\ p \in 0 .. HeapSize /\ hi \in 0 .. HeapSize /\ p + want <= hi
  BY <1>1, <1>2
<1>6. want' = 0 /\ snap' = {}
  BY DEF Take, Return
<1> QED BY <1>3, <1>4, <1>5, <1>6 DEF Blocks!Grant

\* At the end of the heap no gap is left ahead, so none existed.
LEMMA EndRefuses == RefInv /\ FindEnd => Blocks!Refuse
<1> SUFFICES ASSUME RefInv, FindEnd PROVE Blocks!Refuse
  OBVIOUS
<1> USE HeapAssumption
<1>1. /\ p >= HeapSize /\ p \in Nat /\ want \in Nat /\ want >= HdrSize
      /\ pc = "find"
  BY DEF RefInv, HeapInv, TypeOK, Cursor, FindEnd
<1>2. ~GapFrom(p)
  BY <1>1 DEF GapFrom
<1>3. ~GapFrom(0)
  BY <1>1, <1>2 DEF RefInv, Ahead
<1>4. ~Blocks!HasGap(snap, want + 1)
  BY <1>3 DEF GapFrom, Blocks!HasGap, Blocks!Disjoint
<1>5. LiveBlocks' = LiveBlocks
  BY DEF FindEnd, LiveBlocks
<1> QED BY <1>1, <1>4, <1>5 DEF Blocks!Refuse, FindEnd, Return

\* free takes one block out of the set, and touches no other.
LEMMA FreeReleases ==
  ASSUME NEW a \in Live, RefInv, Free(a)
  PROVE  Blocks!Release
<1>1. /\ Live' = Live \ {a} /\ size' = size
      /\ want' = want /\ snap' = snap
  BY DEF Free, RefInv, HeapInv, TypeOK
<1>2. LiveBlocks' = LiveBlocks \ {Block(a)}
  <2>1. LiveBlocks' = {<<x, x + size[x]>> : x \in Live \ {a}}
    BY <1>1 DEF LiveBlocks
  <2>2. \A x \in Live \ {a} : <<x, x + size[x]>> # <<a, a + size[a]>>
    OBVIOUS
  <2> QED BY <2>1, <2>2 DEF LiveBlocks
<1>3. Block(a) \in LiveBlocks
  BY DEF LiveBlocks
<1> QED BY <1>1, <1>2, <1>3 DEF Blocks!Release

LEMMA StepRefines == RefInv /\ [Next]_vars => [Blocks!Next]_(Blocks!vars)
<1> SUFFICES ASSUME RefInv, [Next]_vars
             PROVE  Blocks!Next \/ UNCHANGED Blocks!vars
  OBVIOUS
<1>1. ASSUME NEW n \in Requests, Malloc(n) PROVE Blocks!Request(n)
  <2>1. want = 0 /\ n \in Nat /\ n + HdrSize < SizeMod
    BY <1>1, RequestsAssumption DEF RefInv, HeapInv, Cursor, Malloc
  <2>2. want' = n + HdrSize
    BY <1>1, <2>1, HeapAssumption DEF Malloc
  <2> QED BY <1>1, <2>1, <2>2 DEF Malloc, Accepted, Blocks!Request, LiveBlocks
<1>2. CASE FindSkip \/ FindStop \/ ConcatStop \/ FitSkip \/ FitLoad
  <2>1. UNCHANGED <<size, is_free, want, snap>>
    BY <1>2 DEF FindSkip, FindStop, ConcatStop, FitSkip, FitLoad
  <2> QED BY <2>1 DEF Blocks!vars, LiveBlocks
<1>3. CASE FindEnd
  BY <1>3, EndRefuses DEF Blocks!Next, Blocks!Answer
<1>4. CASE ConcatMerge
  BY <1>4, MergeStutters
<1>5. CASE Take
  BY <1>5, TakeGrants DEF Blocks!Next, Blocks!Answer
<1>6. ASSUME NEW a \in Live, Free(a) PROVE Blocks!Next
  BY <1>6, FreeReleases DEF Blocks!Next
<1>7. CASE UNCHANGED vars
  BY <1>7 DEF vars, Blocks!vars, LiveBlocks
<1> QED
  BY <1>1, <1>2, <1>3, <1>4, <1>5, <1>6, <1>7
  DEF Next, MallocStep, Blocks!Next

\* malloc and free implement the abstract block allocator, apart from
\* termination, which the run checks: no block overlaps a live one, and NULL
\* means that no gap longer than the request existed at the call.
THEOREM HeapAllocatesBlocks == Spec => Blocks!Safety
<1>1. Init => Blocks!Init
  BY HeapAssumption DEF Init, Blocks!Init, LiveBlocks
<1> QED BY <1>1, InitRefInv, NextKeepsRefInv, StepRefines, PTL
        DEF Spec, Blocks!Safety

-----------------------------------------------------------------------------
\* How far the walk of a call has looked, and the most steps of malloc that are
\* left to it.
Looked == IF pc = "find" THEN p ELSE End(p)
Loop == CASE pc = "concat" -> 3 [] pc = "fit" -> 2 [] OTHER -> 1
StepsLeft == IF pc = "idle" THEN 0 ELSE 4 * (HeapSize - Looked) + Loop

\* Every step of malloc brings its call nearer to the end, and no free of a handler
\* throws it back.
CallNearsEnd ==
  [][pc # "idle" => \/ StepsLeft' < StepsLeft
                    \/ StepsLeft' = StepsLeft /\ \E a \in Live : Free(a)]_vars


LEMMA StepsLeftIs ==
  ASSUME HeapInv
  PROVE  /\ StepsLeft \in 0 .. 4 * HeapSize + 1
         /\ StepsLeft = 0 <=> pc = "idle"
         /\ pc # "idle" => Looked \in 0 .. HeapSize
<1>1. pc # "idle" => Looked \in 0 .. HeapSize
  <2>1. CASE pc = "find" BY <2>1 DEF HeapInv, TypeOK, Looked
  <2>2. CASE pc \in {"concat", "fit", "take"}
    <3>1. p \in Heads /\ Looked = p + size[p] BY <2>2 DEF HeapInv, TypeOK, Cursor, Looked
    <3>2. Looked \in Heads \cup {HeapSize} BY <3>1 DEF HeapInv, ChunksTileHeap
    <3> QED BY <3>2, HeapAssumption DEF HeapInv, TypeOK
  <2> QED BY <2>1, <2>2 DEF HeapInv, TypeOK
<1>2. Loop \in 1 .. 3 /\ (pc = "find" => Loop = 1) /\ HeapSize \in Nat
  BY HeapAssumption DEF Loop
<1>3. pc \in {"concat", "fit", "take"} => Looked >= 1
  <2>1. ASSUME pc \in {"concat", "fit", "take"} PROVE Looked >= 1
    <3>1. p \in Heads /\ Looked = p + size[p] BY <2>1 DEF HeapInv, TypeOK, Cursor, Looked
    <3>2. p \in Nat /\ size[p] \in Nat /\ size[p] >= 1 BY <3>1 DEF HeapInv, TypeOK
    <3> QED BY <3>1, <3>2
  <2> QED BY <2>1
<1>4. CASE pc = "idle" BY <1>2, <1>4 DEF StepsLeft
<1>5. CASE pc = "find"
  <2>1. StepsLeft = 4 * (HeapSize - Looked) + 1 BY <1>2, <1>5 DEF StepsLeft
  <2> QED BY <1>1, <1>2, <1>5, <2>1
<1>6. CASE pc \in {"concat", "fit", "take"}
  <2>1. StepsLeft = 4 * (HeapSize - Looked) + Loop BY <1>6 DEF StepsLeft
  <2> QED BY <1>1, <1>2, <1>3, <1>6, <2>1
<1> QED BY <1>4, <1>5, <1>6 DEF HeapInv, TypeOK

LEMMA Nearer ==
  ASSUME NEW n \in Nat, NEW a \in 0 .. n, NEW b \in 0 .. n, NEW i \in 1 .. 3, NEW j \in 1 .. 3,
         b > a \/ (b = a /\ j < i)
  PROVE  4 * (n - b) + j < 4 * (n - a) + i
OBVIOUS

\* A call that goes on looks further, or leaves its loop.
LEMMA NearerIs ==
  ASSUME HeapInv, HeapInv', pc # "idle", pc' # "idle",
         \/ Looked' > Looked
         \/ Looked' = Looked /\ Loop' < Loop
  PROVE  StepsLeft' < StepsLeft
<1>1. /\ StepsLeft = 4 * (HeapSize - Looked) + Loop
      /\ StepsLeft' = 4 * (HeapSize - Looked') + Loop'
  BY DEF StepsLeft
<1>2. Looked \in 0 .. HeapSize /\ Looked' \in 0 .. HeapSize
  <2>1. Looked \in 0 .. HeapSize BY StepsLeftIs
  <2>2. (HeapInv /\ pc # "idle" => Looked \in 0 .. HeapSize)' BY StepsLeftIs, PTL
  <2> QED BY <2>1, <2>2
<1>3. Loop \in 1 .. 3 /\ Loop' \in 1 .. 3 /\ HeapSize \in Nat BY HeapAssumption DEF Loop
<1> QED BY <1>1, <1>2, <1>3, Nearer

LEMMA StepNearsEnd ==
  ASSUME HeapInv, HeapInv', [Next]_vars
  PROVE  [pc # "idle" => \/ StepsLeft' < StepsLeft
                         \/ StepsLeft' = StepsLeft /\ \E a \in Live : Free(a)]_vars
<1> SUFFICES ASSUME pc # "idle", vars' # vars
             PROVE  StepsLeft' < StepsLeft \/ (StepsLeft' = StepsLeft /\ \E a \in Live : Free(a))
  OBVIOUS
<1>0. /\ \A a \in Heads : a \in Nat /\ size[a] \in Nat /\ size[a] >= 1
      /\ pc \in {"concat", "fit", "take"} => p \in Heads
  BY DEF HeapInv, TypeOK, Cursor
<1>1. ASSUME NEW n \in Requests, Malloc(n) PROVE FALSE BY <1>1 DEF Malloc
<1>2. CASE FindSkip
  <2>1. p \in Heads BY <1>2, HeapAssumption DEF FindSkip, HeapInv, Cursor
  <2>2. Looked = p /\ Looked' = p + size[p] /\ pc' # "idle" BY <1>2 DEF FindSkip, Looked
  <2>3. Looked' > Looked BY <1>0, <2>1, <2>2
  <2> QED BY <2>2, <2>3, NearerIs
<1>3. CASE FindStop
  <2>1. p \in Heads BY <1>3 DEF FindStop, HeapInv, TypeOK
  <2>2. Looked = p /\ Looked' = p + size[p] /\ pc' # "idle" BY <1>3 DEF FindStop, Looked
  <2>3. Looked' > Looked BY <1>0, <2>1, <2>2
  <2> QED BY <2>2, <2>3, NearerIs
<1>4. CASE FindEnd \/ Take
  <2>1. StepsLeft' = 0 BY <1>4 DEF FindEnd, Take, Return, StepsLeft
  <2>2. StepsLeft \in Nat /\ StepsLeft # 0 BY StepsLeftIs, HeapAssumption
  <2> QED BY <2>1, <2>2
<1>5. CASE ConcatMerge
  <2>1. p \in Heads /\ concat_ptr \in Heads /\ concat_ptr = p + size[p]
    BY <1>5 DEF ConcatMerge, Mergeable, HeapInv, TypeOK, Cursor
  <2>2. size'[p] = size[p] + size[concat_ptr] /\ p' = p /\ pc' # "idle"
    BY <1>0, <1>5, <2>1 DEF ConcatMerge
  <2>3. Looked = p + size[p] /\ Looked' = p + size'[p] BY <1>5, <2>2 DEF ConcatMerge, Looked
  <2>4. Looked' > Looked BY <1>0, <2>1, <2>2, <2>3
  <2> QED BY <2>2, <2>4, NearerIs
<1>6. CASE ConcatStop
  <2>1. Looked' = Looked /\ Loop' = 2 /\ Loop = 3 /\ pc' # "idle" BY <1>6 DEF ConcatStop, Looked, Loop
  <2> QED BY <2>1, NearerIs
<1>7. CASE FitSkip
  <2>1. Looked' = Looked /\ Loop' = 1 /\ Loop = 2 /\ pc' # "idle" BY <1>7 DEF FitSkip, Looked, Loop
  <2> QED BY <2>1, NearerIs
<1>8. CASE FitLoad
  <2>1. Looked' = Looked /\ Loop' = 1 /\ Loop = 2 /\ pc' # "idle" BY <1>8 DEF FitLoad, Looked, Loop
  <2> QED BY <2>1, NearerIs
<1>9. ASSUME NEW a \in Live, Free(a) PROVE StepsLeft' = StepsLeft
  BY <1>9 DEF Free, StepsLeft, Looked, Loop
<1> QED BY <1>1, <1>2, <1>3, <1>4, <1>5, <1>6, <1>7, <1>8, <1>9 DEF Next, MallocStep

\* A call of malloc ends after 4 * HeapSize + 1 steps of its own at most, whatever
\* handlers free in between: the walk and the merges never go back (malloc.c:40-94).
THEOREM HeapCallsEnd ==
  Spec => [](StepsLeft \in 0 .. 4 * HeapSize + 1 /\ (StepsLeft = 0 <=> pc = "idle")) /\ CallNearsEnd
<1>1. HeapInv => StepsLeft \in 0 .. 4 * HeapSize + 1 /\ (StepsLeft = 0 <=> pc = "idle")
  BY StepsLeftIs
<1>2. HeapInv /\ HeapInv' /\ [Next]_vars =>
        [pc # "idle" => \/ StepsLeft' < StepsLeft
                        \/ StepsLeft' = StepsLeft /\ \E a \in Live : Free(a)]_vars
  BY StepNearsEnd
<1> QED BY <1>1, <1>2, InitHeapInv, NextKeepsInv, PTL DEF Spec, CallNearsEnd

=============================================================================

---------------------------- MODULE PagingProofs ----------------------------
(***************************************************************************)
(* Theorems about the page allocator of kernel/src/paging.c, for every     *)
(* number of pages, every place of the tables and every request size.      *)
(***************************************************************************)
EXTENDS Paging, TLAPS

PagingInv == PagingTypeOK /\ RunsDisjoint /\ BitmapExact /\ RefusedOnlyWhenNone

USE PagingAssumption DEF InitIdx, Memory, UserPages, IsPageFree

\* The scan accepts a start only if every page of the run that exists is free.
LEMMA AcceptedRunIsFree ==
  ASSUME NEW i \in UserPages, NEW n \in Nat \ {0}, NEW foreign,
         Accepts(i, n, foreign)
  PROVE  \A j \in i .. i + n - 1 : j < TotalPages => j \notin used
<1> SUFFICES ASSUME NEW j \in i .. i + n - 1, j < TotalPages
             PROVE  j \notin used
  OBVIOUS
<1>1. CASE j = i
  BY <1>1 DEF Accepts
<1>2. CASE j # i
  <2>1. j \in i + 1 .. i + n - 1
    BY <1>2
  <2> QED BY <2>1 DEF Accepts
<1> QED BY <1>1, <1>2

\* A free run inside memory is always accepted, whatever lies past the bitmap.
LEMMA FreeRunIsAccepted ==
  ASSUME NEW k \in UserPages, NEW n \in Nat \ {0}, NEW foreign,
         k + n <= TotalPages, \A j \in k .. k + n - 1 : j \notin used
  PROVE  Accepts(k, n, foreign)
<1>1. k \in k .. k + n - 1 /\ k + n - 1 \in k .. k + n - 1
  OBVIOUS
<1>2. k + n - 1 < TotalPages
  OBVIOUS
<1>3. \A j \in k + 1 .. k + n - 1 : j \in k .. k + n - 1
  OBVIOUS
<1> QED BY <1>1, <1>2, <1>3 DEF Accepts

\* Handing out a free run keeps the bitmap exact and the runs disjoint.
LEMMA GiveKeepsInv ==
  ASSUME NEW i \in UserPages, NEW n \in Nat \ {0}, PagingInv, Give(i, n),
         \A j \in i .. i + n - 1 : j < TotalPages => j \notin used
  PROVE  PagingInv'
<1>1. /\ used' = used \cup ((i .. i + n - 1) \cap Memory)
      /\ runs' = runs \cup {<<i, n>>}
      /\ refused' = 0
      /\ PagesOf(<<i, n>>) = i .. i + n - 1
  BY DEF Give, PagesOf
<1>2. PagingTypeOK'
  BY <1>1 DEF PagingInv, PagingTypeOK
<1>3. ASSUME NEW r \in runs, NEW x \in PagesOf(r), x \in i .. i + n - 1
      PROVE  FALSE
  <2>1. r[1] \in UserPages /\ r[2] \in Nat \ {0}
    BY DEF PagingInv, PagingTypeOK
  <2>2. x \in r[1] .. r[1] + r[2] - 1
    BY DEF PagesOf
  <2>3. CASE x < TotalPages
    <3>1. x \in used
      BY <2>1, <2>2, <2>3 DEF PagingInv, BitmapExact
    <3> QED BY <1>3, <2>3, <3>1
  <2>4. CASE x >= TotalPages
    <3> DEFINE y == TotalPages - 1
    <3>1. y \in r[1] .. r[1] + r[2] - 1 /\ y \in i .. i + n - 1 /\ y \in Memory
      BY <1>3, <2>1, <2>2, <2>4
    <3>2. y \in PagesOf(r)
      BY <3>1 DEF PagesOf
    <3>3. y \in used
      BY <3>1, <3>2 DEF PagingInv, BitmapExact
    <3> QED BY <3>1, <3>3
  <2> QED BY <2>1, <2>2, <2>3, <2>4
<1>4. RunsDisjoint'
  <2> SUFFICES ASSUME NEW r \in runs', NEW s \in runs', r # s
               PROVE  PagesOf(r) \cap PagesOf(s) = {}
    BY DEF RunsDisjoint, PagesOf
  <2>1. CASE r \in runs /\ s \in runs
    BY <2>1 DEF PagingInv, RunsDisjoint
  <2>2. CASE r = <<i, n>>
    BY <1>1, <1>3, <2>2
  <2>3. CASE s = <<i, n>>
    BY <1>1, <1>3, <2>3
  <2> QED BY <1>1, <2>1, <2>2, <2>3
<1>5. BitmapExact'
  <2> DEFINE Held(R) == {x \in Memory : \E r \in R : x \in PagesOf(r)}
  <2>1. Held(runs') = Held(runs) \cup ((i .. i + n - 1) \cap Memory)
    BY <1>1
  <2>2. used = (0 .. InitIdx - 1) \cup Held(runs)
    BY DEF PagingInv, BitmapExact
  <2>3. used' = (0 .. InitIdx - 1) \cup Held(runs')
    BY <1>1, <2>1, <2>2
  <2> QED BY <2>3 DEF BitmapExact, PagesOf
<1> QED BY <1>1, <1>2, <1>4, <1>5 DEF PagingInv, RefusedOnlyWhenNone

\* A refusal changes no page.
LEMMA RefuseKeepsInv ==
  ASSUME NEW n \in Nat \ {0}, NEW foreign, PagingInv, Refuse(n),
         \A i \in UserPages : ~Accepts(i, n, foreign)
  PROVE  PagingInv'
<1>1. used' = used /\ runs' = runs /\ refused' = n
  BY DEF Refuse
<1>2. ~HasRun(n)
  BY FreeRunIsAccepted DEF HasRun
<1>3. RefusedOnlyWhenNone'
  BY <1>1, <1>2 DEF RefusedOnlyWhenNone, HasRun
<1> QED BY <1>1, <1>3
        DEF PagingInv, PagingTypeOK, RunsDisjoint, BitmapExact, PagesOf

\* Freeing a run clears the bits of its pages and of no other client's.
LEMMA FreeKeepsInv ==
  ASSUME NEW r \in runs, PagingInv, free_pages(r)
  PROVE  PagingInv'
<1>1. /\ used' = used \ PagesOf(r) /\ runs' = runs \ {r} /\ refused' = 0
      /\ r[1] >= InitIdx /\ r[1] \in Nat
  BY DEF free_pages, PagingInv, PagingTypeOK
<1>2. BitmapExact'
  <2> DEFINE Held(R) == {x \in Memory : \E s \in R : x \in PagesOf(s)}
  <2>1. used = (0 .. InitIdx - 1) \cup Held(runs)
    BY DEF PagingInv, BitmapExact
  <2>2. \A x \in PagesOf(r) : x >= InitIdx
    BY <1>1 DEF PagesOf
  <2>3. \A s \in runs \ {r} : PagesOf(s) \cap PagesOf(r) = {}
    BY DEF PagingInv, RunsDisjoint
  <2>4. Held(runs') = Held(runs) \ PagesOf(r)
    BY <1>1, <2>3
  <2>5. used' = (0 .. InitIdx - 1) \cup Held(runs')
    BY <1>1, <2>1, <2>2, <2>4
  <2> QED BY <2>5 DEF BitmapExact, PagesOf
<1> QED BY <1>1, <1>2
        DEF PagingInv, PagingTypeOK, RunsDisjoint, RefusedOnlyWhenNone, PagesOf

LEMMA InitPagingInv == PagingInit => PagingInv
BY DEF PagingInit, PagingInv, PagingTypeOK, RunsDisjoint, BitmapExact, RefusedOnlyWhenNone

LEMMA NextKeepsPagingInv == PagingInv /\ [PagingNext]_pagingVars => PagingInv'
<1> SUFFICES ASSUME PagingInv, [PagingNext]_pagingVars PROVE PagingInv'
  OBVIOUS
<1>1. CASE alloc_page
  <2>1. ASSUME NEW i \in UserPages, FirstAccepted(i, 1, {}), Give(i, 1)
        PROVE  PagingInv'
    BY <2>1, AcceptedRunIsFree, GiveKeepsInv DEF FirstAccepted
  <2>2. ASSUME \A i \in UserPages : ~IsPageFree(i), Refuse(1) PROVE PagingInv'
    <3>1. \A i \in UserPages : ~Accepts(i, 1, {})
      BY <2>2 DEF Accepts
    <3> QED BY <2>2, <3>1, RefuseKeepsInv
  <2> QED BY <1>1, <2>1, <2>2 DEF alloc_page
<1>2. ASSUME NEW n \in Sizes, alloc_pages(n) PROVE PagingInv'
  <2>0. n \in Nat \ {0}
    OBVIOUS
  <2>1. ASSUME NEW foreign, NEW i \in UserPages,
               FirstAccepted(i, n, foreign), Give(i, n)
        PROVE  PagingInv'
    BY <2>0, <2>1, AcceptedRunIsFree, GiveKeepsInv DEF FirstAccepted
  <2>2. ASSUME NEW foreign, \A i \in UserPages : ~Accepts(i, n, foreign),
               Refuse(n)
        PROVE  PagingInv'
    BY <2>0, <2>2, RefuseKeepsInv
  <2> QED BY <1>2, <2>1, <2>2 DEF alloc_pages
<1>3. ASSUME NEW r \in runs, free_page(r) \/ free_pages(r) PROVE PagingInv'
  BY <1>3, FreeKeepsInv DEF free_page
<1>4. CASE UNCHANGED pagingVars
  BY <1>4 DEF pagingVars, PagingInv, PagingTypeOK, RunsDisjoint, BitmapExact,
              RefusedOnlyWhenNone, HasRun, PagesOf
<1> QED BY <1>1, <1>2, <1>3, <1>4 DEF PagingNext

\* No page has two owners, and the bitmap neither leaks a page nor frees one
\* in use, also when runs reach past the end of memory.
THEOREM PagingSafe ==
  PagingSpec => [](PagingTypeOK /\ RunsDisjoint /\ BitmapExact /\ RefusedOnlyWhenNone)
<1>1. PagingInv => PagingTypeOK /\ RunsDisjoint /\ BitmapExact /\ RefusedOnlyWhenNone
  BY DEF PagingInv
<1> QED BY InitPagingInv, NextKeepsPagingInv, <1>1, PTL DEF PagingSpec

\* Each invariant of the runs alone: two clients never share a page ...
THEOREM RunsStayDisjoint == PagingSpec => []RunsDisjoint
BY PagingSafe, PTL

\* ... the bitmap is the reserved pages and those of the clients ...
THEOREM BitmapStaysExact == PagingSpec => []BitmapExact
BY PagingSafe, PTL

\* ... and NULL is the answer only when no run in memory is free.
THEOREM RefusalIsRight == PagingSpec => []RefusedOnlyWhenNone
BY PagingSafe, PTL

\* The run past the end of memory is the answer only when no run inside it
\* was free, for every memory and every request size.
THEOREM OverrunIsLast == PagingSpec => OverrunOnlyWhenNone
<1> DEFINE Ok == \A r \in runs' \ runs :
                   r[1] + r[2] <= TotalPages \/ ~HasRun(r[2])
<1>1. ASSUME NEW i \in UserPages, NEW n \in Nat \ {0}, NEW foreign,
             FirstAccepted(i, n, foreign), Give(i, n)
      PROVE  Ok
  <2>1. \A r \in runs' \ runs : r = <<i, n>>
    BY <1>1 DEF Give
  <2> SUFFICES ASSUME i + n > TotalPages, HasRun(n) PROVE FALSE
    BY <2>1
  <2>2. PICK k \in UserPages : k + n <= TotalPages /\
               \A j \in k .. k + n - 1 : j \notin used
    BY DEF HasRun
  <2>3. Accepts(k, n, foreign)
    BY <2>2, FreeRunIsAccepted
  <2>4. k < i
    BY <2>2
  <2> QED BY <1>1, <2>3, <2>4 DEF FirstAccepted
<1>2. [PagingNext]_pagingVars => [Ok]_pagingVars
  <2> SUFFICES ASSUME PagingNext PROVE Ok
    OBVIOUS
  <2>1. CASE alloc_page
    <3>1. ASSUME NEW i \in UserPages, FirstAccepted(i, 1, {}), Give(i, 1)
          PROVE  Ok
      BY <1>1, <3>1
    <3>2. Refuse(1) => Ok
      BY DEF Refuse
    <3> QED BY <2>1, <3>1, <3>2 DEF alloc_page
  <2>2. ASSUME NEW n \in Sizes, alloc_pages(n) PROVE Ok
    <3>1. ASSUME NEW foreign, NEW i \in UserPages,
                 FirstAccepted(i, n, foreign), Give(i, n)
          PROVE  Ok
      BY <1>1, <3>1
    <3>2. Refuse(n) => Ok
      BY DEF Refuse
    <3> QED BY <2>2, <3>1, <3>2 DEF alloc_pages
  <2>3. ASSUME NEW r \in runs, free_page(r) \/ free_pages(r) PROVE Ok
    BY <2>3 DEF free_page, free_pages
  <2> QED BY <2>1, <2>2, <2>3 DEF PagingNext
<1> QED BY <1>2, PTL DEF PagingSpec, OverrunOnlyWhenNone

=============================================================================

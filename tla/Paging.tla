------------------------------- MODULE Paging -------------------------------
(***************************************************************************)
(* kernel/src/paging.c: the bitmap allocator of physical pages.            *)
(*                                                                         *)
(* used is the set of pages below TOTAL_PAGES whose bit is set.  Every     *)
(* operation runs inside an interrupt handler, interrupts disabled, so     *)
(* each is one step.  alloc_pages reads the bit of page i + n - 1 without  *)
(* testing it against TOTAL_PAGES; past the bitmap lie other variables of  *)
(* the kernel, so what such a read returns is left open.                   *)
(***************************************************************************)
EXTENDS Naturals

CONSTANTS
  TotalPages,   \* TOTAL_PAGES
  DirPage,      \* PAGE_DIR_ADDR / PAGE_SIZE
  TablesCount,  \* PAGE_TABLES_COUNT
  Sizes         \* the page counts clients ask for

ASSUME PagingAssumption ==
  /\ TotalPages \in Nat /\ DirPage \in Nat /\ TablesCount \in Nat \ {0}
  /\ DirPage + TablesCount < TotalPages
  /\ Sizes \subseteq Nat \ {0}

VARIABLES
  used,    \* page_bitmap
  runs,    \* history: the runs <<first page, number of pages>> clients hold
  refused  \* history: the size of the last request if it got NULL, else 0

pagingVars == <<used, runs, refused>>

\* USER_PAGES_ADDR / PAGE_SIZE.
InitIdx == DirPage + TablesCount
Memory == 0 .. TotalPages - 1
\* The pages paging_setup writes the tables into: PAGE_TABLE_ADDR is the
\* page after the directory.
TablePages == DirPage + 1 .. DirPage + TablesCount

PagesOf(r) == r[1] .. r[1] + r[2] - 1
IsPageFree(i) == i \notin used

\* paging_setup: a clear bitmap with the pages below USER_PAGES_ADDR set.
PagingInit ==
  /\ used = 0 .. InitIdx - 1
  /\ runs = {}
  /\ refused = 0

\* The three tests of the scan of alloc_pages for a run of n pages from i:
\* the first page, the last one, and those in between that exist.  foreign
\* holds the indices past the bitmap that happen to read as free.
Accepts_Ends(i, n, foreign) ==
  /\ IsPageFree(i)
  /\ IF i + n - 1 < TotalPages THEN IsPageFree(i + n - 1) ELSE i + n - 1 \in foreign

Accepts_Beyond(i, n, foreign) ==
  /\ IsPageFree(i)
  /\ IF i + n < TotalPages THEN IsPageFree(i + n) ELSE i + n \in foreign
  /\ \A j \in i + 1 .. i + n - 1 : j < TotalPages => IsPageFree(j)

Accepts(i, n, foreign) ==
  /\ IsPageFree(i)
  /\ IF i + n - 1 < TotalPages THEN IsPageFree(i + n - 1) ELSE i + n - 1 \in foreign
  /\ \A j \in i + 1 .. i + n - 1 : j < TotalPages => IsPageFree(j)

UserPages == InitIdx .. TotalPages - 1

FirstAccepted_Any(i, n, foreign) == i \in UserPages /\ Accepts(i, n, foreign)

FirstAccepted(i, n, foreign) ==
  /\ i \in UserPages /\ Accepts(i, n, foreign)
  /\ \A j \in UserPages : j < i => ~Accepts(j, n, foreign)

Give(i, n) ==
  /\ used' = used \cup (PagesOf(<<i, n>>) \cap Memory)
  /\ runs' = runs \cup {<<i, n>>}
  /\ refused' = 0

Refuse(n) ==
  /\ refused' = n
  /\ UNCHANGED <<used, runs>>

alloc_pages(n) ==
  \E foreign \in SUBSET (TotalPages .. TotalPages + n - 2) :
    \/ \E i \in UserPages : FirstAccepted(i, n, foreign) /\ Give(i, n)
    \/ (\A i \in UserPages : ~Accepts(i, n, foreign)) /\ Refuse(n)

\* alloc_page's scan is that of alloc_pages for a run of one page.
alloc_page ==
  \/ \E i \in UserPages : FirstAccepted(i, 1, {}) /\ Give(i, 1)
  \/ (\A i \in UserPages : ~IsPageFree(i)) /\ Refuse(1)

\* free_page and free_pages ignore pages below USER_PAGES_ADDR.
free_pages_Short(r) ==
  /\ r[1] >= InitIdx
  /\ used' = used \ (r[1] .. r[1] + r[2] - 2)
  /\ runs' = runs \ {r}
  /\ refused' = 0

free_pages(r) ==
  /\ r[1] >= InitIdx
  /\ used' = used \ PagesOf(r)
  /\ runs' = runs \ {r}
  /\ refused' = 0

free_page(r) == r[2] = 1 /\ free_pages(r)

PagingNext ==
  \/ alloc_page
  \/ \E n \in Sizes : alloc_pages(n)
  \/ \E r \in runs : free_page(r) \/ free_pages(r)

PagingSpec == PagingInit /\ [][PagingNext]_pagingVars

-----------------------------------------------------------------------------
\* The bitmap and the runs stay in their ranges (paging.c:7).
PagingTypeOK ==
  /\ used \subseteq Memory
  /\ runs \subseteq (InitIdx .. TotalPages - 1) \X (Nat \ {0})
  /\ refused \in Nat

\* No page belongs to two clients (paging.c:66-90).
RunsDisjoint ==
  \A r, s \in runs : r # s => PagesOf(r) \cap PagesOf(s) = {}

\* The bitmap is exactly the reserved pages and the pages clients hold: no
\* page leaks and no page in use is free, whatever was allocated and freed.
BitmapExact ==
  used = (0 .. InitIdx - 1) \cup
         {i \in Memory : \E r \in runs : i \in PagesOf(r)}

\* n free pages in a row, all of them in memory.
HasRun(n) ==
  \E i \in UserPages : i + n <= TotalPages /\ \A j \in i .. i + n - 1 : j \notin used

\* NULL is returned only when no run of that many pages is free in memory.
RefusedOnlyWhenNone == refused # 0 => ~HasRun(refused)

\* A run that reaches past the end of memory (paging.c:70,73: the scan does
\* not stop n pages before TOTAL_PAGES) is handed out only if no run of that
\* length was free inside memory: the faulty answer never hides a right one.
OverrunOnlyWhenNone ==
  [][\A r \in runs' \ runs : r[1] + r[2] <= TotalPages \/ ~HasRun(r[2])]_pagingVars

\* The tables that map "all the 128 mb of ram the os uses" (paging.c:29) are
\* never the memory of a client.
TablesNotHandedOut == \A r \in runs : PagesOf(r) \cap TablePages = {}

=============================================================================

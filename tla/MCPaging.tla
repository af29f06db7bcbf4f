------------------------------ MODULE MCPaging ------------------------------
(***************************************************************************)
(* Eleven pages: one low page, the directory, two tables and eight user    *)
(* pages, the first of which is the page of the last table, as with the    *)
(* addresses of paging.h.  Runs of one to three pages fragment the rest    *)
(* and reach past the end.                                                 *)
(***************************************************************************)
EXTENDS Paging
=============================================================================

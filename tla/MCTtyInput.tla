----------------------------- MODULE MCTtyInput -----------------------------
(***************************************************************************)
(* Three rows of three bytes: the history wraps after two lines, and lines *)
(* of one and two characters are edited, recalled and repeated; a third    *)
(* character fills the row.                                                *)
(***************************************************************************)
EXTENDS TtyInput
=============================================================================

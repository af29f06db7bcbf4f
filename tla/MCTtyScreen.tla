---------------------------- MODULE MCTtyScreen -----------------------------
(***************************************************************************)
(* A screen of two rows of three cells: a line of two characters wraps and *)
(* scrolls it.  Two rows of history, and output of a character, of one in  *)
(* the next row, and of two newlines, which may scroll by a whole screen.  *)
(***************************************************************************)
EXTENDS TtyScreen

Printed == {<<"a">>, <<Newline, "b">>, <<Newline, Newline>>}
=============================================================================

----------------------------- MODULE MCRtl8139 ------------------------------
(***************************************************************************)
(* A receive buffer of 32 bytes and packets that take 12 or 16 of them, so  *)
(* that two wait in it, most end off a multiple of 4 and some go past its  *)
(* end; and a list of two headers, which is soon full.                     *)
(***************************************************************************)
EXTENDS Rtl8139
=============================================================================

------------------------------ MODULE MCRandom ------------------------------
(***************************************************************************)
(* Model checking of rand.c alone, with the products of the time and a     *)
(* scan code that fit an int as seeds.                                     *)
(***************************************************************************)
EXTENDS Random

MainSeeds == 0 .. IntMax

=============================================================================

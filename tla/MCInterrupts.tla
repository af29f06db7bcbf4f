---------------------------- MODULE MCInterrupts ----------------------------
(***************************************************************************)
(* Two lines of the master, the timer and the keyboard, and two of the     *)
(* slave, of which one, the network card's, gets a driver.                 *)
(***************************************************************************)
EXTENDS Interrupts

DeviceLines == {0, 1, 11, 12}
NoisyLines == {1, 12}
InstallOrder == <<0, 1, 11>>
=============================================================================

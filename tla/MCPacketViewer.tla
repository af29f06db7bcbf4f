--------------------------- MODULE MCPacketViewer ---------------------------
(***************************************************************************)
(* A list of three headers of which two are drawn, one of them above the   *)
(* selection, and five packets, so that the list fills up and moves.       *)
(***************************************************************************)
EXTENDS PacketViewer
=============================================================================

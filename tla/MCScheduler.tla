---------------------------- MODULE MCScheduler -----------------------------
(***************************************************************************)
(* The kernel and two processes, as __spawn_dummy_processes creates them,  *)
(* nested critical sections, and a tick counter that wraps, stops the      *)
(* scheduler for good (last_ticks 4) and lets it run early (last_ticks 5). *)
(***************************************************************************)
EXTENDS Scheduler
=============================================================================

----------------------------- MODULE MCScheduler -----------------------------
(* Small instances of Scheduler for TLC. *)
EXTENDS Scheduler

CONSTANTS p1, p2, loop, web
MCLadder == <<1, 2>>
MCSlowLadder == <<2, 3>>
=============================================================================

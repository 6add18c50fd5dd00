---------------------------- MODULE MCCodexHome ----------------------------
(* A small instance of CodexHome for TLC. *)
EXTENDS CodexHome

CONSTANTS j1, j2, loop, web
=============================================================================

------------------------- MODULE MCAntigravityHome -------------------------
(* A small instance of AntigravityHome for TLC. *)
EXTENDS AntigravityHome

CONSTANTS j1, j2, loop, web
=============================================================================

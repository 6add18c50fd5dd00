--------------------------- MODULE MCClaudeTokens ---------------------------
(* A small instance of ClaudeTokens for TLC. *)
EXTENDS ClaudeTokens, TLC

CONSTANTS loop, web
FetchThreads == Permutations({loop, web})
=============================================================================

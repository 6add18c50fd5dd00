---------------------------- MODULE MCTokenStore ----------------------------
(* A small instance of TokenStore for TLC. *)
EXTENDS TokenStore, TLC

CONSTANTS server, cli, loop, web, enrol, pair, client, old, new

MCProcessOf == (loop :> server) @@ (web :> server) @@ (enrol :> cli)
\* A rotation; an enrolment with a client id, and one without.
MCChanges == {pair :> old, (pair :> new) @@ (client :> new)}
ServerThreads == Permutations({loop, web})
=============================================================================

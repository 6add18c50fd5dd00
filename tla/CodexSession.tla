---------------------------- MODULE CodexSession ----------------------------
(***************************************************************************)
(* The App Server session of a Codex enrolment (server/codex_app_server.py *)
(* as server/cli.py's login_codex uses it): one child at a time, JSON      *)
(* messages over its pipes, a reader thread that fills a queue, requests   *)
(* matched to their responses by number, and notifications kept for the    *)
(* call that waits for them. A first child runs the device-code login, a   *)
(* fresh one verifies it by reading the account and its limits.            *)
(*                                                                         *)
(* The App Server itself is external: it answers each request or refuses   *)
(* it, announces that a login it began is over, says things nobody asked   *)
(* for, and may die. What a message carries is left out, except whether a  *)
(* response is of use: a result without its fields, and an account that is *)
(* not signed in, count as a refusal.                                      *)
(***************************************************************************)
EXTENDS Naturals, Sequences

CONSTANT Chatter  \* how many notifications nobody waits for one child may send

ASSUME ChatterAssumption == Chatter \in Nat

VARIABLES
  server,      \* the child: "none", "up" or "dead"
  login,       \* what the child did about the login: "none", "open", "announced"
  unanswered,  \* the requests the child has yet to answer
  queue,       \* _stdout_queue
  responses,   \* _pending.responses: their numbers
  notes,       \* _pending.notifications
  nextId,      \* _next_id
  call,        \* the call of the ceremony, "off" outside of one
  blocked,     \* TRUE while the call sits in _read_message
  verifying,   \* TRUE once the second child is used
  failed,      \* TRUE once a call raised
  chatter      \* the notifications nobody waits for sent so far

wireVars == <<server, login, unanswered, queue, chatter>>
callVars == <<responses, notes, nextId, call, blocked>>
sessionVars == <<wireVars, callVars, verifying, failed>>

Requests == {"initialize", "start login", "cancel login", "read account", "read limits"}

\* A response carries the number of its request, a notification carries none.
Response(n, body) == [id |-> n, body |-> body]
Notification(body) == [id |-> 0, body |-> body]
Exited == [id |-> 0, body |-> "end of file"]

-----------------------------------------------------------------------------
(* The child, external *)

Say(message) == queue' = Append(queue, message)

Answer(n) ==
  /\ server = "up" /\ n \in unanswered
  /\ unanswered' = unanswered \ {n}
  /\ \E body \in {"result", "refusal"} : Say(Response(n, body))
  /\ UNCHANGED <<server, login, chatter, callVars, verifying, failed>>

\* A login that was begun is over, for better or worse: its notification may
\* overtake the response to the request that began it.
AnnounceLogin ==
  /\ server = "up" /\ login = "open"
  /\ login' = "announced"
  /\ Say(Notification("login completed"))
  /\ UNCHANGED <<server, unanswered, chatter, callVars, verifying, failed>>

SayUnasked ==
  /\ server = "up" /\ chatter < Chatter
  /\ chatter' = chatter + 1
  /\ Say(Notification("other"))
  /\ UNCHANGED <<server, login, unanswered, callVars, verifying, failed>>

\* The pump thread puts a sentinel after the last line.
ServerDies ==
  /\ server = "up"
  /\ server' = "dead" /\ unanswered' = {}
  /\ Say(Exited)
  /\ UNCHANGED <<login, chatter, callVars, verifying, failed>>

ServerStep == (\E n \in unanswered : Answer(n)) \/ AnnounceLogin \/ SayUnasked \/ ServerDies

-----------------------------------------------------------------------------
(* The ceremony's thread *)

\* The call that follows one that returned.
After(c) ==
  CASE c = "launch"       -> "initialize"
    [] c = "initialize"   -> IF verifying THEN "read account" ELSE "start login"
    [] c = "start login"  -> "present"
    [] c = "present"      -> "wait"
    [] c = "read account" -> "read limits"
    [] OTHER              -> "close"

Return == call' = After(call) /\ blocked' = FALSE /\ UNCHANGED failed

\* A login that was presented is cancelled, if the child named it; any other call
\* that raises leads to the close, and so does a cancel that fails.
Raise ==
  /\ call' \in IF call = "wait" THEN {"cancel login", "close"} ELSE {"close"}
  /\ blocked' = FALSE
  /\ failed' = TRUE

\* start: the child is spawned, or the binary cannot be run.
Launch ==
  /\ call = "launch"
  /\ \/ server' = "up" /\ Return
     \/ UNCHANGED server /\ Raise
  /\ UNCHANGED <<login, unanswered, queue, chatter, responses, notes, nextId, verifying>>

\* _write, then _await_response: nothing is buffered under a number just drawn. A
\* request to a child that died meets a broken pipe.
SendRequest ==
  /\ call \in Requests /\ ~ blocked
  /\ nextId' = nextId + 1
  /\ IF server = "up"
     THEN /\ unanswered' = unanswered \cup {nextId'}
          /\ login' = IF call = "start login" THEN "open" ELSE login
          /\ blocked' = TRUE
          /\ UNCHANGED <<call, failed>>
     ELSE Raise /\ UNCHANGED <<unanswered, login>>
  /\ UNCHANGED <<server, queue, chatter, responses, notes, verifying>>

\* A slip of WaitForLogin: what is buffered already is not looked at.
WaitForNews ==
  /\ call = "wait" /\ ~ blocked
  /\ blocked' = TRUE
  /\ UNCHANGED <<wireVars, responses, notes, nextId, call, verifying, failed>>

\* wait_for_notification looks among the buffered ones first.
WaitForLogin ==
  /\ call = "wait" /\ ~ blocked
  /\ LET heard == {i \in DOMAIN notes : notes[i] = "login completed"}
     IN  \/ /\ heard = {}
            /\ blocked' = TRUE
            /\ UNCHANGED <<notes, call, failed>>
         \/ \E i \in heard :
              /\ \A k \in heard : i <= k
              /\ notes' = SubSeq(notes, 1, i - 1) \o SubSeq(notes, i + 1, Len(notes))
              /\ Return
  /\ UNCHANGED <<wireVars, responses, nextId, verifying>>

Awaited(m) ==
  IF call = "wait" THEN m = Notification("login completed") ELSE m.id = nextId

\* _read_message and its caller: the end of the file raises, a refusal raises,
\* what the call awaits returns it, and the rest is buffered.
Receive ==
  /\ blocked /\ queue # <<>>
  /\ queue' = Tail(queue)
  /\ LET m == Head(queue)
     IN  \/ /\ m = Exited \/ (Awaited(m) /\ m.body = "refusal")
            /\ Raise
            /\ UNCHANGED <<responses, notes>>
         \/ /\ Awaited(m) /\ m.body # "refusal"
            /\ Return
            /\ UNCHANGED <<responses, notes>>
         \/ /\ m # Exited /\ ~ Awaited(m)
            /\ responses' = IF m.id # 0 THEN responses \cup {m.id} ELSE responses
            /\ notes' = IF m.id = 0 THEN Append(notes, m.body) ELSE notes
            /\ UNCHANGED <<call, blocked, failed>>
  /\ UNCHANGED <<server, login, unanswered, chatter, nextId, verifying>>

\* The deadline passes. It is looked at before the queue, so the message may be there.
Expire ==
  /\ blocked
  /\ Raise
  /\ UNCHANGED <<wireVars, responses, notes, nextId, verifying>>

Silent ==
  /\ server' = "none" /\ login' = "none" /\ unanswered' = {} /\ queue' = <<>>
  /\ chatter' = 0 /\ responses' = {} /\ notes' = <<>> /\ nextId' = 0

\* close: the child is reaped with all that is buffered. After a login that
\* returned comes the verification, over a client and a child of its own.
CloseSession ==
  /\ call = "close"
  /\ Silent
  /\ verifying' = ~ failed
  /\ call' = IF failed \/ verifying THEN "done" ELSE "launch"
  /\ UNCHANGED <<blocked, failed>>

SessionStep ==
  Launch \/ SendRequest \/ WaitForLogin \/ Receive \/ Expire \/ CloseSession

-----------------------------------------------------------------------------
SessionInit ==
  /\ server = "none" /\ login = "none" /\ unanswered = {} /\ queue = <<>>
  /\ chatter = 0 /\ responses = {} /\ notes = <<>> /\ nextId = 0
  /\ call = "off" /\ blocked = FALSE /\ verifying = FALSE /\ failed = FALSE

Bodies == {"login completed", "other"}
Messages ==
  [id : 1 .. 3, body : {"result", "refusal"}] \cup [id : {0}, body : Bodies \cup {"end of file"}]
SessionTypeOK ==
  /\ server \in {"none", "up", "dead"} /\ login \in {"none", "open", "announced"}
  /\ unanswered \in SUBSET (1 .. 3) /\ responses \in SUBSET (1 .. 3) /\ nextId \in 0 .. 3
  /\ queue \in Seq(Messages) /\ notes \in Seq(Bodies)
  /\ chatter \in 0 .. Chatter
  /\ call \in Requests \cup {"off", "launch", "present", "wait", "close", "done"}
  /\ blocked \in BOOLEAN /\ verifying \in BOOLEAN /\ failed \in BOOLEAN

\* A ceremony never sits waiting for what it already has: while a call reads from
\* the child, the message it waits for is not among those kept from before, even if
\* the login ended before anyone was waiting for it (wait_for_notification,
\* _await_response and _buffer of codex_app_server.py).
NothingMislaid ==
  blocked = TRUE =>
    IF call = "wait" THEN \A i \in DOMAIN notes : notes[i] # "login completed"
                     ELSE nextId \notin responses
=============================================================================

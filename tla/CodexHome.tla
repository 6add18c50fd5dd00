------------------------------ MODULE CodexHome ------------------------------
(***************************************************************************)
(* Who runs a Codex App Server on CODEX_HOME: the enrolment ceremonies of  *)
(* server/enrolment.py (start_codex, _run_codex_job), the pause and resume *)
(* of the runtime client by server/scheduler.py, and that client           *)
(* (server/codex_app_server.py), which keeps one child process alive and   *)
(* is shared by the threads that fetch.                                    *)
(*                                                                         *)
(* A client and the child it runs go by one name: First is the client the  *)
(* server starts with, j the one that job j built when it resumed.         *)
(***************************************************************************)
EXTENDS Naturals

CONSTANTS
  Jobs,      \* the Codex enrolments an operator may start
  Fetchers,  \* the threads that fetch: the scheduler's loop, fetch_now
  Main,      \* the thread that stops the scheduler at shutdown
  First,     \* the client of server/main.py
  Nobody

Clients == {First} \cup Jobs
Threads == Jobs \cup Fetchers \cup {Main}

ASSUME NamesAssumption ==
  /\ Jobs \cap Fetchers = {} /\ Main \notin Jobs \cup Fetchers
  /\ First \notin Jobs /\ Nobody \notin Clients \cup Threads

VARIABLES
  active,      \* _active_id
  state,       \* the state of each job
  bracket,     \* the jobs whose pause closed a client: the `paused` of _run_codex_job
  current,     \* _codex_client of the scheduler
  paused,      \* _codex_paused
  closed,      \* the clients with _closed set
  session,     \* the clients with a _session
  lock,        \* who holds each client's _lock
  runtime,     \* the clients whose child runs
  ceremonies,  \* the jobs whose own child runs
  taken,       \* the client each thread works with
  pc

jobVars == <<active, state, bracket>>
clientVars == <<closed, session, lock>>
vars == <<jobVars, current, paused, clientVars, runtime, ceremonies, taken, pc>>

Goto(t, step) == pc' = [pc EXCEPT ![t] = step]
Take(t, c) == taken' = [taken EXCEPT ![t] = c]

-----------------------------------------------------------------------------
(* A fetch: fetch_codex_usage over the client's _acquire *)

\* _get_fetch_tasks looks at the attribute, then reads it again.
SeeClient(t) ==
  /\ pc[t] = "idle" /\ t \in Fetchers
  /\ current # Nobody
  /\ Goto(t, "seen")
  /\ UNCHANGED <<jobVars, current, paused, clientVars, runtime, ceremonies, taken>>

\* A pause in between makes the fetch one of None, which fails and is recorded.
CaptureClient(t) ==
  /\ pc[t] = "seen"
  /\ Take(t, current)
  /\ Goto(t, IF current = Nobody THEN "idle" ELSE "captured")
  /\ UNCHANGED <<jobVars, current, paused, clientVars, runtime, ceremonies>>

EndFetch(t) == Take(t, Nobody) /\ Goto(t, "idle")

\* A slip of Acquire: the captured client is used whether closed or not.
AcquireUnlessHeld(t) ==
  LET c == taken[t]
  IN  /\ pc[t] = "captured" /\ lock[c] = Nobody
      /\ lock' = [lock EXCEPT ![c] = t]
      /\ session' = IF c \in runtime THEN session ELSE session \ {c}
      /\ Goto(t, IF c \in session \cap runtime THEN "serving" ELSE "spawning")
      /\ UNCHANGED <<jobVars, current, paused, closed, runtime, ceremonies, taken>>

\* The head of _acquire: a closed client raises, a session whose child died is
\* dropped, a live one is used.
Acquire(t) ==
  LET c == taken[t]
  IN  /\ pc[t] = "captured" /\ lock[c] = Nobody
      /\ IF c \in closed
         THEN EndFetch(t) /\ UNCHANGED <<lock, session>>
         ELSE /\ lock' = [lock EXCEPT ![c] = t]
              /\ session' = IF c \in runtime THEN session ELSE session \ {c}
              /\ Goto(t, IF c \in session \cap runtime THEN "serving" ELSE "spawning")
              /\ UNCHANGED taken
      /\ UNCHANGED <<jobVars, current, paused, closed, runtime, ceremonies>>

Release(t) == lock' = [lock EXCEPT ![taken[t]] = Nobody] /\ EndFetch(t)

\* start: the child is spawned, or the binary cannot be run.
SpawnChild(t) ==
  /\ pc[t] = "spawning"
  /\ \/ /\ runtime' = runtime \cup {taken[t]}
        /\ Goto(t, "handshake")
        /\ UNCHANGED <<lock, taken>>
     \/ Release(t) /\ UNCHANGED runtime
  /\ UNCHANGED <<jobVars, current, paused, closed, session, ceremonies>>

\* _handshake: a half-initialised child is closed.
Handshake(t) ==
  /\ pc[t] = "handshake"
  /\ \/ /\ session' = session \cup {taken[t]}
        /\ Goto(t, "serving")
        /\ UNCHANGED <<lock, taken, runtime>>
     \/ /\ runtime' = runtime \ {taken[t]}
        /\ Release(t)
        /\ UNCHANGED session
  /\ UNCHANGED <<jobVars, current, paused, closed, ceremonies>>

\* A slip of Serve: after an error the session is forgotten and not closed.
ServeAndForget(t) ==
  /\ pc[t] = "serving"
  /\ session' \in {session, session \ {taken[t]}}
  /\ Release(t)
  /\ UNCHANGED <<jobVars, current, paused, closed, runtime, ceremonies>>

\* The requests: answered, or a FetchError drops the session.
Serve(t) ==
  /\ pc[t] = "serving"
  /\ \/ Release(t) /\ UNCHANGED session
     \/ /\ session' = session \ {taken[t]}
        /\ Goto(t, "discarding")
        /\ UNCHANGED <<lock, taken>>
  /\ UNCHANGED <<jobVars, current, paused, closed, runtime, ceremonies>>

\* close of the broken session, still under the client's lock.
Discard(t) ==
  /\ pc[t] = "discarding"
  /\ runtime' = runtime \ {taken[t]}
  /\ Release(t)
  /\ UNCHANGED <<jobVars, current, paused, closed, session, ceremonies>>

\* The child dies by itself.
ChildDies(c) ==
  /\ c \in runtime
  /\ runtime' = runtime \ {c}
  /\ UNCHANGED <<jobVars, current, paused, clientVars, ceremonies, taken, pc>>

-----------------------------------------------------------------------------
(* Closing a client: from pause_codex, and from stop at shutdown *)

\* A slip of CloseClient: the fetch in flight is not waited for.
CloseWithoutLock(t) ==
  LET c == taken[t]
  IN  /\ pc[t] = "closing"
      /\ closed' = closed \cup {c} /\ session' = session \ {c}
      /\ Goto(t, IF c \in session THEN "reaping" ELSE "closed")
      /\ UNCHANGED <<jobVars, current, paused, lock, runtime, ceremonies, taken>>

\* close: the session is taken off under the lock, so after any fetch in flight.
CloseClient(t) ==
  LET c == taken[t]
  IN  /\ pc[t] = "closing" /\ lock[c] = Nobody
      /\ closed' = closed \cup {c} /\ session' = session \ {c}
      /\ Goto(t, IF c \in session THEN "reaping" ELSE "closed")
      /\ UNCHANGED <<jobVars, current, paused, lock, runtime, ceremonies, taken>>

\* The child is terminated and reaped after the lock is released.
ReapChild(t) ==
  /\ pc[t] = "reaping"
  /\ runtime' = runtime \ {taken[t]}
  /\ Goto(t, "closed")
  /\ UNCHANGED <<jobVars, current, paused, clientVars, ceremonies, taken>>

\* stop looks at the attribute, then reads it again: None raises. It has joined the
\* loop, but not the fetch_now of a request.
SeeClientAtStop ==
  /\ pc[Main] = "idle"
  /\ Goto(Main, IF current = Nobody THEN "stopped" ELSE "seen at stop")
  /\ UNCHANGED <<jobVars, current, paused, clientVars, runtime, ceremonies, taken>>

StopClient ==
  /\ pc[Main] = "seen at stop"
  /\ Take(Main, current)
  /\ Goto(Main, IF current = Nobody THEN "stopped" ELSE "closing")
  /\ UNCHANGED <<jobVars, current, paused, clientVars, runtime, ceremonies>>

-----------------------------------------------------------------------------
(* A ceremony: start_codex, then _run_codex_job in a thread of its own *)

\* _new_job: refused while the active job runs.
NewJob(j) ==
  /\ pc[j] = "idle" /\ j \in Jobs
  /\ active # Nobody => state[active] # "running"
  /\ active' = j
  /\ state' = [state EXCEPT ![j] = "running"]
  /\ Goto(j, "pausing")
  /\ UNCHANGED <<bracket, current, paused, clientVars, runtime, ceremonies, taken>>

\* pause_codex under _update_lock. Without a client nothing was paused.
PauseCodex(j) ==
  /\ pc[j] = "pausing"
  /\ Take(j, current)
  /\ current' = Nobody /\ paused' = TRUE
  /\ Goto(j, IF current = Nobody THEN "login" ELSE "closing")
  /\ UNCHANGED <<jobVars, clientVars, runtime, ceremonies>>

\* pause_codex returns True.
Paused(j) ==
  /\ pc[j] = "closed" /\ j \in Jobs
  /\ bracket' = bracket \cup {j}
  /\ Goto(j, "login")
  /\ UNCHANGED <<active, state, current, paused, clientVars, runtime, ceremonies, taken>>

\* login_codex runs a child for the device-code login and a fresh one to verify it.
StartChild(j) ==
  /\ pc[j] \in {"login", "verify"}
  /\ \/ /\ ceremonies' = ceremonies \cup {j}
        /\ Goto(j, IF pc[j] = "login" THEN "logging in" ELSE "verifying")
     \/ Goto(j, "failing") /\ UNCHANGED ceremonies
  /\ UNCHANGED <<jobVars, current, paused, clientVars, runtime, taken>>

\* The child is closed, whatever the outcome.
EndChild(j) ==
  /\ pc[j] \in {"logging in", "verifying"}
  /\ ceremonies' = ceremonies \ {j}
  /\ \/ Goto(j, IF pc[j] = "logging in" THEN "verify" ELSE "succeeding")
     \/ Goto(j, "failing")
  /\ UNCHANGED <<jobVars, current, paused, clientVars, runtime, taken>>

\* A slip of Finish: an outcome that neither status nor the login pane knows.
FinishAsCancelled(j) ==
  /\ pc[j] \in {"failing", "succeeding"}
  /\ state' = [state EXCEPT ![j] = "cancelled"]
  /\ Goto(j, "finished")
  /\ UNCHANGED <<active, bracket, current, paused, clientVars, runtime, ceremonies, taken>>

\* finish, before the bracket is undone.
Finish(j) ==
  /\ pc[j] \in {"failing", "succeeding"}
  /\ state' = [state EXCEPT ![j] = IF pc[j] = "failing" THEN "failed" ELSE "succeeded"]
  /\ Goto(j, "finished")
  /\ UNCHANGED <<active, bracket, current, paused, clientVars, runtime, ceremonies, taken>>

\* A slip of ResumeCodex: a failed ceremony does not resume.
ResumeAfterSuccess(j) ==
  /\ pc[j] = "finished"
  /\ IF j \in bracket /\ paused /\ state[j] = "succeeded"
     THEN current' = j /\ paused' = FALSE
     ELSE UNCHANGED <<current, paused>>
  /\ Goto(j, "resumed")
  /\ UNCHANGED <<jobVars, clientVars, runtime, ceremonies, taken>>

\* resume_codex: a new client, since a closed one cannot be reopened.
ResumeCodex(j) ==
  /\ pc[j] = "finished"
  /\ IF j \in bracket /\ paused
     THEN current' = j /\ paused' = FALSE
     ELSE UNCHANGED <<current, paused>>
  /\ Goto(j, "resumed")
  /\ UNCHANGED <<jobVars, clientVars, runtime, ceremonies, taken>>

FinishActive(j) ==
  /\ pc[j] = "resumed"
  /\ active' = IF active = j THEN Nobody ELSE active
  /\ Goto(j, "done")
  /\ UNCHANGED <<state, bracket, current, paused, clientVars, runtime, ceremonies, taken>>

-----------------------------------------------------------------------------
Init ==
  /\ active = Nobody /\ state = [j \in Jobs |-> "new"] /\ bracket = {}
  /\ current = First /\ paused = FALSE
  /\ closed = {} /\ session = {} /\ lock = [c \in Clients |-> Nobody]
  /\ runtime = {} /\ ceremonies = {}
  /\ taken = [t \in Threads |-> Nobody]
  /\ pc = [t \in Threads |-> "idle"]

FetchStep(t) ==
  \/ SeeClient(t) \/ CaptureClient(t) \/ Acquire(t) \/ SpawnChild(t) \/ Handshake(t)
  \/ Serve(t) \/ Discard(t)
CloseStep(t) == CloseClient(t) \/ ReapChild(t)
JobStep(j) ==
  \/ PauseCodex(j) \/ CloseStep(j) \/ Paused(j) \/ StartChild(j) \/ EndChild(j)
  \/ Finish(j) \/ ResumeCodex(j) \/ FinishActive(j)
StopStep == SeeClientAtStop \/ StopClient \/ CloseStep(Main)

Next ==
  \/ \E t \in Fetchers : FetchStep(t)
  \/ \E j \in Jobs : NewJob(j) \/ JobStep(j)
  \/ \E c \in Clients : ChildDies(c)
  \/ StopStep

Spec == Init /\ [][Next]_vars

\* A fetch and a ceremony end: requests, the login and the reaping have timeouts.
\* Nobody has to start a ceremony, or to stop the server.
Fairness == (\A t \in Fetchers : WF_vars(FetchStep(t))) /\ (\A j \in Jobs : WF_vars(JobStep(j)))
FairSpec == Spec /\ Fairness

-----------------------------------------------------------------------------
(* Properties *)

Steps == {"idle", "seen", "captured", "spawning", "handshake", "serving", "discarding",
          "closing", "reaping", "closed", "seen at stop", "stopped",
          "pausing", "login", "logging in", "verify", "verifying",
          "failing", "succeeding", "finished", "resumed", "done"}

\* The shape of every variable.
TypeOK ==
  /\ active \in Jobs \cup {Nobody}
  /\ state \in [Jobs -> {"new", "running", "failed", "succeeded"}]
  /\ bracket \in SUBSET Jobs
  /\ current \in Clients \cup {Nobody} /\ paused \in BOOLEAN
  /\ closed \in SUBSET Clients /\ session \in SUBSET Clients
  /\ lock \in [Clients -> Threads \cup {Nobody}]
  /\ runtime \in SUBSET Clients /\ ceremonies \in SUBSET Jobs
  /\ taken \in [Threads -> Clients \cup {Nobody}]
  /\ pc \in [Threads -> Steps]

\* While a ceremony that took the client away runs its own child, no runtime child
\* is left, no client is configured and no other ceremony is bracketed, whatever
\* the operator started before and whatever fetch was in flight. Only shutdown may
\* still be reaping a child: a second close does not wait for the first one's.
InCeremony(j) == pc[j] \in {"login", "logging in", "verify", "verifying", "failing", "succeeding"}
BracketExcludes ==
  \A j \in bracket : InCeremony(j) =>
    /\ runtime \subseteq {c \in Clients : pc[Main] = "reaping" /\ taken[Main] = c}
    /\ current = Nobody
    /\ \A k \in bracket \ {j} : pc[k] \in {"resumed", "done"}

\* A client that is closed and has no child never has one again, although threads
\* that captured it before still call it.
ClosedStaysDown ==
  [][\A c \in closed \ runtime : c \notin runtime']_vars

\* No child outlives its use: each is in its client's session, or some thread is
\* about to put it there or to close it.
NoOrphan ==
  \A c \in runtime :
    c \in session \/ \E t \in Threads : taken[t] = c /\ pc[t] \in {"handshake", "discarding", "reaping"}

\* The Codex tile comes back: a pause is followed by a resume, also when ceremonies
\* fail, overlap or find nothing to pause.
TileReturns == paused ~> ~ paused
=============================================================================

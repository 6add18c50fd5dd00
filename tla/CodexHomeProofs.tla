--------------------------- MODULE CodexHomeProofs ---------------------------
(***************************************************************************)
(* Theorems about CodexHome, for any number of enrolments and of fetching  *)
(* threads: what a ceremony that took the client away may rely on.         *)
(***************************************************************************)
EXTENDS CodexHome, TLAPS

-----------------------------------------------------------------------------
(* The inductive invariant *)

\* The steps of each kind of thread.
Fetching ==
  \A t \in Fetchers : pc[t] \in {"idle", "seen", "captured", "spawning", "handshake",
                                "serving", "discarding"}
Enrolling ==
  \A j \in Jobs : pc[j] \in {"idle", "pausing", "closing", "reaping", "closed", "login",
                            "logging in", "verify", "verifying", "failing", "succeeding",
                            "finished", "resumed", "done"}
Stopping == pc[Main] \in {"idle", "seen at stop", "closing", "reaping", "closed", "stopped"}
Equipped ==
  \A t \in Threads :
    pc[t] \in {"captured", "spawning", "handshake", "serving", "discarding", "closing", "reaping"}
      => taken[t] \in Clients
Placed == Fetching /\ Enrolling /\ Stopping /\ Equipped

\* A client's lock is held by the fetch that works with its session, and by nobody else.
Holding == {"spawning", "handshake", "serving", "discarding"}
Locking ==
  \A c \in Clients, t \in Threads :
    lock[c] = t <=> (t \in Fetchers /\ taken[t] = c /\ pc[t] \in Holding)

\* The job took the client and has not resumed yet.
Pending(j) == pc[j] \in {"closing", "reaping", "closed"} \/ (j \in bracket /\ (InCeremony(j) \/ pc[j] = "finished"))

\* A client is configured unless paused; at most one pause waits for its resume.
PausedIsNobody == paused <=> current = Nobody
Bracketed == \A j \in bracket : InCeremony(j) \/ pc[j] \in {"finished", "resumed", "done"}
PendingIsPaused == \A j \in Jobs : Pending(j) => current = Nobody
PendingAlone == \A j, k \in Jobs : Pending(j) /\ Pending(k) => j = k
OnePause == PausedIsNobody /\ Bracketed /\ PendingIsPaused /\ PendingAlone

\* A closed client has no session and nobody works with it.
ClosedIdle == \A c \in closed : c \notin session /\ lock[c] = Nobody

\* A client that no resume has built yet is nowhere; of the others, all but the
\* configured one are closed or about to be.
Unborn(c) == c \in Jobs /\ (pc[c] \notin {"resumed", "done"} \/ c \notin bracket)
UnbornIsNowhere ==
  \A c \in Clients : Unborn(c) =>
    /\ c \notin closed /\ c \notin session /\ c \notin runtime /\ current # c
    /\ \A t \in Threads : taken[t] # c
OthersClosed ==
  \A c \in Clients : ~ Unborn(c) =>
    c \in closed \/ current = c \/ \E j \in Jobs : pc[j] = "closing" /\ taken[j] = c
Accounted == UnbornIsNowhere /\ OthersClosed

Inv == TypeOK /\ Placed /\ Locking /\ OnePause /\ ClosedIdle /\ Accounted /\ NoOrphan

-----------------------------------------------------------------------------
-----------------------------------------------------------------------------
(* The kinds of step, each read point by point *)

\* No thread but t moves, and only the client c is locked or given back.
Alone(t) == \A u \in Threads : u # t => pc'[u] = pc[u] /\ taken'[u] = taken[u]
Only(c) == \A d \in Clients : d # c => lock'[d] = lock[d]

\* A fetch step that holds no lock before or after.
Walk(t) ==
  /\ Alone(t) /\ pc[t] \notin Holding /\ pc'[t] \in {"idle", "seen", "captured"}
  /\ taken'[t] \in {taken[t], current, Nobody} /\ (pc'[t] = "captured" => taken'[t] \in Clients)
  /\ UNCHANGED <<lock, session, runtime>>

\* A fetch takes its client's lock.
Enter(t) ==
  /\ Alone(t) /\ pc[t] = "captured" /\ pc'[t] \in {"serving", "spawning"} /\ taken'[t] = taken[t]
  /\ lock[taken[t]] = Nobody /\ lock'[taken[t]] = t /\ Only(taken[t])
  /\ taken[t] \notin closed
  /\ session' = session \/ (session' = session \ {taken[t]} /\ taken[t] \notin runtime)
  /\ UNCHANGED runtime

\* A fetch works with its client's session and child.
Work(t) ==
  /\ Alone(t) /\ taken'[t] = taken[t] /\ UNCHANGED lock
  /\ \/ /\ pc[t] = "spawning" /\ pc'[t] = "handshake"
        /\ runtime' = runtime \cup {taken[t]} /\ session' = session
     \/ /\ pc[t] = "handshake" /\ pc'[t] = "serving"
        /\ session' = session \cup {taken[t]} /\ runtime' = runtime
     \/ /\ pc[t] = "serving" /\ pc'[t] = "discarding"
        /\ session' = session \ {taken[t]} /\ runtime' = runtime

\* A fetch gives the lock back; a child that is in no session is closed first.
Leave(t) ==
  /\ Alone(t) /\ pc[t] \in Holding /\ pc'[t] = "idle" /\ taken'[t] = Nobody
  /\ lock'[taken[t]] = Nobody /\ Only(taken[t])
  /\ UNCHANGED session
  /\ \/ runtime' = runtime \ {taken[t]}
     \/ runtime' = runtime /\ pc[t] \in {"spawning", "serving"}

\* A client is closed, then its child.
Close(t) ==
  /\ Alone(t) /\ pc[t] = "closing" /\ taken'[t] = taken[t] /\ lock[taken[t]] = Nobody
  /\ closed' = closed \cup {taken[t]} /\ session' = session \ {taken[t]}
  /\ pc'[t] = IF taken[t] \in session THEN "reaping" ELSE "closed"
  /\ UNCHANGED <<bracket, current, paused, lock, runtime>>
Reap(t) ==
  /\ Alone(t) /\ pc[t] = "reaping" /\ pc'[t] = "closed" /\ taken'[t] = taken[t]
  /\ runtime' = runtime \ {taken[t]}
  /\ UNCHANGED <<bracket, current, paused, clientVars>>

\* A ceremony takes the configured client away, or finds none.
Pause(j) ==
  /\ Alone(j) /\ pc[j] = "pausing" /\ taken'[j] = current
  /\ pc'[j] = IF current = Nobody THEN "login" ELSE "closing"
  /\ current' = Nobody /\ paused' = TRUE
  /\ UNCHANGED <<bracket, clientVars, runtime>>
Bracket(j) ==
  /\ Alone(j) /\ pc[j] = "closed" /\ pc'[j] = "login" /\ taken'[j] = taken[j]
  /\ bracket' = bracket \cup {j}
  /\ UNCHANGED <<current, paused, clientVars, runtime>>
Resume(j) ==
  /\ Alone(j) /\ pc[j] = "finished" /\ pc'[j] = "resumed" /\ taken'[j] = taken[j]
  /\ j \in bracket /\ paused /\ current' = j /\ ~ paused'
  /\ UNCHANGED <<bracket, clientVars, runtime>>

\* A step of a ceremony that touches no client and no bracket.
Ceremony(j) ==
  /\ Alone(j) /\ taken'[j] = taken[j]
  /\ UNCHANGED <<bracket, current, paused, clientVars, runtime>>
  /\ \/ pc[j] = "idle" /\ pc'[j] = "pausing"
     \/ /\ pc[j] \in {"login", "logging in", "verify", "verifying", "failing", "succeeding"}
        /\ pc'[j] \in {"logging in", "verify", "verifying", "failing", "succeeding", "finished"}
     \/ pc[j] = "finished" /\ pc'[j] = "resumed" /\ ~ (j \in bracket /\ paused)
     \/ pc[j] = "resumed" /\ pc'[j] = "done"

\* A step of shutdown before it closes the client.
Approach ==
  /\ Alone(Main) /\ pc[Main] \in {"idle", "seen at stop"}
  /\ pc'[Main] \in {"stopped", "seen at stop", "closing"}
  /\ taken'[Main] \in {taken[Main], current}
  /\ pc'[Main] = "closing" => taken'[Main] \in Clients
  /\ UNCHANGED <<bracket, current, paused, clientVars, runtime>>

\* A child dies, or nothing happens.
Wane ==
  /\ runtime' \in SUBSET runtime
  /\ UNCHANGED <<bracket, current, paused, clientVars, taken, pc>>

FetchKind(t) ==
  /\ UNCHANGED <<bracket, current, paused, closed>>
  /\ Walk(t) \/ Enter(t) \/ Work(t) \/ Leave(t)
JobKind(j) == Pause(j) \/ Bracket(j) \/ Resume(j) \/ Ceremony(j)
Kinds ==
  \/ \E t \in Fetchers : FetchKind(t)
  \/ \E t \in Jobs \cup {Main} : Close(t) \/ Reap(t)
  \/ \E j \in Jobs : JobKind(j)
  \/ Approach
  \/ Wane

Shape == TypeOK /\ Placed

LEMMA FetchKinds ==
  ASSUME Shape, NEW t \in Fetchers, FetchStep(t)
  PROVE  FetchKind(t) /\ TypeOK'
<1> t \in Threads
  BY DEF Threads
<1> USE NamesAssumption DEF Shape, Placed, Equipped, TypeOK, Goto, Take, EndFetch, Release,
        jobVars, clientVars, Holding, FetchKind, Alone, Only, Steps
<1>1. CASE SeeClient(t)
  BY <1>1 DEF SeeClient, Walk
<1>2. CASE CaptureClient(t)
  BY <1>2 DEF CaptureClient, Walk
<1>3. CASE Acquire(t)
  <2>1. CASE taken[t] \in closed
    <3>1. /\ taken' = [taken EXCEPT ![t] = Nobody] /\ pc' = [pc EXCEPT ![t] = "idle"]
          /\ pc[t] = "captured"
          /\ UNCHANGED <<lock, session, jobVars, current, paused, closed, runtime, ceremonies>>
      BY <1>3, <2>1 DEF Acquire
    <3>2. Walk(t)
      BY <3>1 DEF Walk
    <3>3. TypeOK'
      BY <3>1
    <3> QED BY <3>1, <3>2, <3>3
  <2>2. CASE taken[t] \notin closed
    <3>1. taken[t] \in Clients
      BY <1>3 DEF Acquire
    <3>2. /\ lock' = [lock EXCEPT ![taken[t]] = t] /\ pc[t] = "captured" /\ lock[taken[t]] = Nobody
          /\ UNCHANGED <<taken, jobVars, current, paused, closed, runtime, ceremonies>>
      BY <1>3, <2>2 DEF Acquire
    <3>3. session' = session \/ (session' = session \ {taken[t]} /\ taken[t] \notin runtime)
      BY <1>3, <2>2 DEF Acquire
    <3>4. PICK step \in {"serving", "spawning"} : pc' = [pc EXCEPT ![t] = step]
      BY <1>3, <2>2 DEF Acquire
    <3>5. Enter(t)
      BY <2>2, <3>1, <3>2, <3>3, <3>4 DEF Enter
    <3>6. TypeOK'
      BY <3>1, <3>2, <3>3, <3>4
    <3> QED BY <3>2, <3>5, <3>6
  <2> QED BY <2>1, <2>2
<1>4. CASE SpawnChild(t)
  BY <1>4 DEF SpawnChild, Work, Leave
<1>5. CASE Handshake(t)
  BY <1>5 DEF Handshake, Work, Leave
<1>6. CASE Serve(t)
  BY <1>6 DEF Serve, Work, Leave
<1>7. CASE Discard(t)
  BY <1>7 DEF Discard, Leave
<1> QED BY <1>1, <1>2, <1>3, <1>4, <1>5, <1>6, <1>7 DEF FetchStep

LEMMA CloseKinds ==
  ASSUME Shape, NEW t \in Jobs \cup {Main}, CloseStep(t)
  PROVE  (Close(t) \/ Reap(t)) /\ TypeOK'
<1> t \in Threads
  BY DEF Threads
<1> USE DEF Shape, Placed, Equipped, TypeOK, Goto, jobVars, clientVars, Alone, Steps
<1>1. CASE CloseClient(t)
  BY <1>1 DEF CloseClient, Close
<1>2. CASE ReapChild(t)
  BY <1>2 DEF ReapChild, Reap
<1> QED BY <1>1, <1>2 DEF CloseStep

LEMMA JobKinds ==
  ASSUME Shape, NEW j \in Jobs, NewJob(j) \/ (JobStep(j) /\ ~ CloseStep(j))
  PROVE  JobKind(j) /\ TypeOK'
<1> j \in Threads /\ j \in Clients
  BY DEF Threads, Clients
<1> USE NamesAssumption DEF Shape, TypeOK, Goto, Take, jobVars, clientVars, JobKind, Alone, Steps
<1>1. CASE NewJob(j)
  BY <1>1 DEF NewJob, Ceremony
<1>2. CASE PauseCodex(j)
  BY <1>2 DEF PauseCodex, Pause
<1>3. CASE Paused(j)
  BY <1>3 DEF Paused, Bracket
<1>4. CASE StartChild(j)
  BY <1>4 DEF StartChild, Ceremony
<1>5. CASE EndChild(j)
  BY <1>5 DEF EndChild, Ceremony
<1>6. CASE Finish(j)
  BY <1>6 DEF Finish, Ceremony
<1>7. CASE ResumeCodex(j)
  <2>1. CASE j \in bracket /\ paused
    BY <1>7, <2>1 DEF ResumeCodex, Resume
  <2>2. CASE ~ (j \in bracket /\ paused)
    BY <1>7, <2>2 DEF ResumeCodex, Ceremony
  <2> QED BY <2>1, <2>2
<1>8. CASE FinishActive(j)
  BY <1>8 DEF FinishActive, Ceremony
<1> QED BY <1>1, <1>2, <1>3, <1>4, <1>5, <1>6, <1>7, <1>8 DEF JobStep

LEMMA OtherKinds ==
  /\ Shape /\ (SeeClientAtStop \/ StopClient) => Approach /\ TypeOK'
  /\ \A c \in Clients : Shape /\ ChildDies(c) => Wane /\ TypeOK'
  /\ Shape /\ UNCHANGED vars => Wane /\ TypeOK'
<1> Main \in Threads
  BY DEF Threads
<1> USE NamesAssumption DEF Shape, TypeOK, Goto, Take, jobVars, clientVars, Alone, Steps
<1>1. ASSUME Shape, SeeClientAtStop PROVE Approach /\ TypeOK'
  BY <1>1 DEF SeeClientAtStop, Approach
<1>2. ASSUME Shape, StopClient PROVE Approach /\ TypeOK'
  BY <1>2 DEF StopClient, Approach
<1>3. ASSUME Shape, NEW c \in Clients, ChildDies(c) PROVE Wane /\ TypeOK'
  BY <1>3 DEF ChildDies, Wane
<1>4. ASSUME Shape, UNCHANGED vars PROVE Wane /\ TypeOK'
  BY <1>4 DEF vars, Wane
<1> QED BY <1>1, <1>2, <1>3, <1>4

\* Every step is of one of these kinds and keeps the types.
LEMMA StepKinds == Shape /\ [Next]_vars => Kinds /\ TypeOK'
  BY FetchKinds, CloseKinds, JobKinds, OtherKinds DEF Next, JobStep, StopStep, Kinds

-----------------------------------------------------------------------------
(* What each kind of step does to each part of the invariant *)

\* Every thread stays on its own steps.
LEMMA PlacedStep == Shape /\ Kinds => Placed'
<1> SUFFICES ASSUME Shape, Kinds PROVE Placed'
  OBVIOUS
<1> USE NamesAssumption DEF Threads, Shape, Placed, Holding
<1>1. ASSUME NEW t \in Fetchers, Walk(t), UNCHANGED <<bracket, current, paused, closed>>
      PROVE Placed'
  <2>1. Fetching'
    BY <1>1 DEF Walk, Alone, Fetching
  <2>2. Enrolling'
    BY <1>1 DEF Walk, Alone, Enrolling
  <2>3. Stopping'
    BY <1>1 DEF Walk, Alone, Stopping
  <2>4. Equipped'
    BY <1>1 DEF Walk, Alone, Fetching, Enrolling, Stopping, Equipped, Clients, TypeOK
  <2> QED BY <2>1, <2>2, <2>3, <2>4 DEF Placed
<1>2. ASSUME NEW t \in Fetchers, Enter(t), UNCHANGED <<bracket, current, paused, closed>>
      PROVE Placed'
  <2>1. Fetching'
    BY <1>2 DEF Enter, Alone, Only, Fetching
  <2>2. Enrolling'
    BY <1>2 DEF Enter, Alone, Only, Enrolling
  <2>3. Stopping'
    BY <1>2 DEF Enter, Alone, Only, Stopping
  <2>4. Equipped'
    BY <1>2 DEF Enter, Alone, Only, Fetching, Enrolling, Stopping, Equipped, Clients, TypeOK
  <2> QED BY <2>1, <2>2, <2>3, <2>4 DEF Placed
<1>3. ASSUME NEW t \in Fetchers, Work(t), UNCHANGED <<bracket, current, paused, closed>>
      PROVE Placed'
  <2>1. Fetching'
    BY <1>3 DEF Work, Alone, Fetching
  <2>2. Enrolling'
    BY <1>3 DEF Work, Alone, Enrolling
  <2>3. Stopping'
    BY <1>3 DEF Work, Alone, Stopping
  <2>4. Equipped'
    BY <1>3 DEF Work, Alone, Fetching, Enrolling, Stopping, Equipped, Clients, TypeOK
  <2> QED BY <2>1, <2>2, <2>3, <2>4 DEF Placed
<1>4. ASSUME NEW t \in Fetchers, Leave(t), UNCHANGED <<bracket, current, paused, closed>>
      PROVE Placed'
  <2>1. Fetching'
    BY <1>4 DEF Leave, Alone, Only, Fetching
  <2>2. Enrolling'
    BY <1>4 DEF Leave, Alone, Only, Enrolling
  <2>3. Stopping'
    BY <1>4 DEF Leave, Alone, Only, Stopping
  <2>4. Equipped'
    BY <1>4 DEF Leave, Alone, Only, Fetching, Enrolling, Stopping, Equipped, Clients, TypeOK
  <2> QED BY <2>1, <2>2, <2>3, <2>4 DEF Placed
<1>5. ASSUME NEW t \in Jobs \cup {Main}, Close(t) PROVE Placed'
  <2>1. Fetching'
    BY <1>5 DEF Close, Alone, Fetching
  <2>2. Enrolling'
    BY <1>5 DEF Close, Alone, Enrolling
  <2>3. Stopping'
    BY <1>5 DEF Close, Alone, Stopping
  <2>4. Equipped'
    BY <1>5 DEF Close, Alone, Fetching, Enrolling, Stopping, Equipped, Clients, TypeOK
  <2> QED BY <2>1, <2>2, <2>3, <2>4 DEF Placed
<1>6. ASSUME NEW t \in Jobs \cup {Main}, Reap(t) PROVE Placed'
  <2>1. Fetching'
    BY <1>6 DEF Reap, Alone, clientVars, Fetching
  <2>2. Enrolling'
    BY <1>6 DEF Reap, Alone, clientVars, Enrolling
  <2>3. Stopping'
    BY <1>6 DEF Reap, Alone, clientVars, Stopping
  <2>4. Equipped'
    BY <1>6 DEF Reap, Alone, clientVars, Fetching, Enrolling, Stopping, Equipped, Clients, TypeOK
  <2> QED BY <2>1, <2>2, <2>3, <2>4 DEF Placed
<1>7. ASSUME NEW j \in Jobs, Pause(j) PROVE Placed'
  <2>1. Fetching'
    BY <1>7 DEF Pause, Alone, clientVars, Fetching
  <2>2. Enrolling'
    BY <1>7 DEF Pause, Alone, clientVars, Enrolling
  <2>3. Stopping'
    BY <1>7 DEF Pause, Alone, clientVars, Stopping
  <2>4. Equipped'
    BY <1>7 DEF Pause, Alone, clientVars, Fetching, Enrolling, Stopping, Equipped, Clients, TypeOK
  <2> QED BY <2>1, <2>2, <2>3, <2>4 DEF Placed
<1>8. ASSUME NEW j \in Jobs, Bracket(j) PROVE Placed'
  <2>1. Fetching'
    BY <1>8 DEF Bracket, Alone, clientVars, Fetching
  <2>2. Enrolling'
    BY <1>8 DEF Bracket, Alone, clientVars, Enrolling
  <2>3. Stopping'
    BY <1>8 DEF Bracket, Alone, clientVars, Stopping
  <2>4. Equipped'
    BY <1>8 DEF Bracket, Alone, clientVars, Fetching, Enrolling, Stopping, Equipped, Clients, TypeOK
  <2> QED BY <2>1, <2>2, <2>3, <2>4 DEF Placed
<1>9. ASSUME NEW j \in Jobs, Resume(j) PROVE Placed'
  <2>1. Fetching'
    BY <1>9 DEF Resume, Alone, clientVars, Fetching
  <2>2. Enrolling'
    BY <1>9 DEF Resume, Alone, clientVars, Enrolling
  <2>3. Stopping'
    BY <1>9 DEF Resume, Alone, clientVars, Stopping
  <2>4. Equipped'
    BY <1>9 DEF Resume, Alone, clientVars, Fetching, Enrolling, Stopping, Equipped, Clients, TypeOK
  <2> QED BY <2>1, <2>2, <2>3, <2>4 DEF Placed
<1>10. ASSUME NEW j \in Jobs, Ceremony(j) PROVE Placed'
  <2>1. Fetching'
    BY <1>10 DEF Ceremony, Alone, clientVars, Fetching
  <2>2. Enrolling'
    BY <1>10 DEF Ceremony, Alone, clientVars, Enrolling
  <2>3. Stopping'
    BY <1>10 DEF Ceremony, Alone, clientVars, Stopping
  <2>4. Equipped'
    BY <1>10 DEF Ceremony, Alone, clientVars, Fetching, Enrolling, Stopping, Equipped, Clients, TypeOK
  <2> QED BY <2>1, <2>2, <2>3, <2>4 DEF Placed
<1>11. ASSUME Approach PROVE Placed'
  <2>1. Fetching'
    BY <1>11 DEF Approach, Alone, clientVars, Fetching
  <2>2. Enrolling'
    BY <1>11 DEF Approach, Alone, clientVars, Enrolling
  <2>3. Stopping'
    BY <1>11 DEF Approach, Alone, clientVars, Stopping
  <2>4. Equipped'
    BY <1>11 DEF Approach, Alone, clientVars, Fetching, Enrolling, Stopping, Equipped, Clients, TypeOK
  <2> QED BY <2>1, <2>2, <2>3, <2>4 DEF Placed
<1>12. ASSUME Wane PROVE Placed'
  <2>1. Fetching'
    BY <1>12 DEF Wane, clientVars, Fetching
  <2>2. Enrolling'
    BY <1>12 DEF Wane, clientVars, Enrolling
  <2>3. Stopping'
    BY <1>12 DEF Wane, clientVars, Stopping
  <2>4. Equipped'
    BY <1>12 DEF Wane, clientVars, Fetching, Enrolling, Stopping, Equipped, Clients, TypeOK
  <2> QED BY <2>1, <2>2, <2>3, <2>4 DEF Placed
<1> QED BY <1>1, <1>2, <1>3, <1>4, <1>5, <1>6, <1>7, <1>8, <1>9, <1>10, <1>11, <1>12 DEF Kinds, FetchKind, JobKind

\* A lock is taken and given back by the fetch that works with the client.
LEMMA LockingStep == Shape /\ Locking /\ Kinds => Locking'
<1> SUFFICES ASSUME Shape, Locking, Kinds PROVE Locking'
  OBVIOUS
<1> USE NamesAssumption DEF Threads, Shape, Placed, Equipped, Holding, Locking
<1>1. ASSUME NEW t \in Fetchers, Walk(t), UNCHANGED <<bracket, current, paused, closed>>
      PROVE Locking'
  BY <1>1 DEF Walk, Alone
<1>2. ASSUME NEW t \in Fetchers, Enter(t), UNCHANGED <<bracket, current, paused, closed>>
      PROVE Locking'
  BY <1>2 DEF Enter, Alone, Only
<1>3. ASSUME NEW t \in Fetchers, Work(t), UNCHANGED <<bracket, current, paused, closed>>
      PROVE Locking'
  BY <1>3 DEF Work, Alone
<1>4. ASSUME NEW t \in Fetchers, Leave(t), UNCHANGED <<bracket, current, paused, closed>>
      PROVE Locking'
  BY <1>4 DEF Leave, Alone, Only
<1>5. ASSUME NEW t \in Jobs \cup {Main}, Close(t) PROVE Locking'
  BY <1>5 DEF Close, Alone
<1>6. ASSUME NEW t \in Jobs \cup {Main}, Reap(t) PROVE Locking'
  BY <1>6 DEF Reap, Alone, clientVars
<1>7. ASSUME NEW j \in Jobs, Pause(j) PROVE Locking'
  BY <1>7 DEF Pause, Alone, clientVars
<1>8. ASSUME NEW j \in Jobs, Bracket(j) PROVE Locking'
  BY <1>8 DEF Bracket, Alone, clientVars
<1>9. ASSUME NEW j \in Jobs, Resume(j) PROVE Locking'
  BY <1>9 DEF Resume, Alone, clientVars
<1>10. ASSUME NEW j \in Jobs, Ceremony(j) PROVE Locking'
  <2>1. lock' = lock /\ j \notin Fetchers
    BY <1>10 DEF Ceremony, clientVars
  <2>2. \A u \in Threads : u # j => pc'[u] = pc[u] /\ taken'[u] = taken[u]
    BY <1>10 DEF Ceremony, Alone
  <2> QED BY <2>1, <2>2
<1>11. ASSUME Approach PROVE Locking'
  <2>1. lock' = lock /\ Main \notin Fetchers
    BY <1>11 DEF Approach, clientVars
  <2>2. \A u \in Threads : u # Main => pc'[u] = pc[u] /\ taken'[u] = taken[u]
    BY <1>11 DEF Approach, Alone
  <2> QED BY <2>1, <2>2
<1>12. ASSUME Wane PROVE Locking'
  BY <1>12 DEF Wane, clientVars
<1> QED BY <1>1, <1>2, <1>3, <1>4, <1>5, <1>6, <1>7, <1>8, <1>9, <1>10, <1>11, <1>12 DEF Kinds, FetchKind, JobKind

\* Closing waits for the fetch in flight, and none starts afterwards.
LEMMA ClosedIdleStep == Shape /\ Locking /\ ClosedIdle /\ Kinds => ClosedIdle'
<1> SUFFICES ASSUME Shape, Locking, ClosedIdle, Kinds PROVE ClosedIdle'
  OBVIOUS
<1> USE NamesAssumption DEF Threads, Shape, Placed, Equipped, Holding, Locking, ClosedIdle, TypeOK
<1>1. ASSUME NEW t \in Fetchers, Walk(t), UNCHANGED <<bracket, current, paused, closed>>
      PROVE ClosedIdle'
  BY <1>1 DEF Walk, Alone
<1>2. ASSUME NEW t \in Fetchers, Enter(t), UNCHANGED <<bracket, current, paused, closed>>
      PROVE ClosedIdle'
  BY <1>2 DEF Enter, Alone, Only
<1>3. ASSUME NEW t \in Fetchers, Work(t), UNCHANGED <<bracket, current, paused, closed>>
      PROVE ClosedIdle'
  BY <1>3 DEF Work, Alone
<1>4. ASSUME NEW t \in Fetchers, Leave(t), UNCHANGED <<bracket, current, paused, closed>>
      PROVE ClosedIdle'
  BY <1>4 DEF Leave, Alone, Only
<1>5. ASSUME NEW t \in Jobs \cup {Main}, Close(t) PROVE ClosedIdle'
  BY <1>5 DEF Close, Alone
<1>6. ASSUME NEW t \in Jobs \cup {Main}, Reap(t) PROVE ClosedIdle'
  BY <1>6 DEF Reap, Alone, clientVars
<1>7. ASSUME NEW j \in Jobs, Pause(j) PROVE ClosedIdle'
  BY <1>7 DEF Pause, Alone, clientVars
<1>8. ASSUME NEW j \in Jobs, Bracket(j) PROVE ClosedIdle'
  BY <1>8 DEF Bracket, Alone, clientVars
<1>9. ASSUME NEW j \in Jobs, Resume(j) PROVE ClosedIdle'
  BY <1>9 DEF Resume, Alone, clientVars
<1>10. ASSUME NEW j \in Jobs, Ceremony(j) PROVE ClosedIdle'
  BY <1>10 DEF Ceremony, Alone, clientVars
<1>11. ASSUME Approach PROVE ClosedIdle'
  BY <1>11 DEF Approach, Alone, clientVars
<1>12. ASSUME Wane PROVE ClosedIdle'
  BY <1>12 DEF Wane, clientVars
<1> QED BY <1>1, <1>2, <1>3, <1>4, <1>5, <1>6, <1>7, <1>8, <1>9, <1>10, <1>11, <1>12 DEF Kinds, FetchKind, JobKind

\* Whoever takes a session off closes its child.
LEMMA NoOrphanStep == Shape /\ Locking /\ NoOrphan /\ Kinds => NoOrphan'
<1> SUFFICES ASSUME Shape, Locking, NoOrphan, Kinds PROVE NoOrphan'
  OBVIOUS
<1> USE NamesAssumption DEF Threads, Shape, Placed, Equipped, Holding, Locking, NoOrphan, TypeOK
<1>1. ASSUME NEW t \in Fetchers, Walk(t), UNCHANGED <<bracket, current, paused, closed>>
      PROVE NoOrphan'
  <2>1. \A u \in Threads : u # t => pc'[u] = pc[u] /\ taken'[u] = taken[u]
    BY <1>1 DEF Walk, Alone
  <2>2. pc[t] \notin {"handshake", "discarding", "reaping"}
    BY <1>1 DEF Walk, Fetching
  <2>3. UNCHANGED <<session, runtime>>
    BY <1>1 DEF Walk, clientVars
  <2> QED BY <2>1, <2>2, <2>3
<1>2. ASSUME NEW t \in Fetchers, Enter(t), UNCHANGED <<bracket, current, paused, closed>>
      PROVE NoOrphan'
  BY <1>2 DEF Enter, Alone, Only
<1>3. ASSUME NEW t \in Fetchers, Work(t), UNCHANGED <<bracket, current, paused, closed>>
      PROVE NoOrphan'
  BY <1>3 DEF Work, Alone
<1>4. ASSUME NEW t \in Fetchers, Leave(t), UNCHANGED <<bracket, current, paused, closed>>
      PROVE NoOrphan'
  BY <1>4 DEF Leave, Alone, Only
<1>5. ASSUME NEW t \in Jobs \cup {Main}, Close(t) PROVE NoOrphan'
  BY <1>5 DEF Close, Alone
<1>6. ASSUME NEW t \in Jobs \cup {Main}, Reap(t) PROVE NoOrphan'
  BY <1>6 DEF Reap, Alone, clientVars
<1>7. ASSUME NEW j \in Jobs, Pause(j) PROVE NoOrphan'
  BY <1>7 DEF Pause, Alone, clientVars
<1>8. ASSUME NEW j \in Jobs, Bracket(j) PROVE NoOrphan'
  BY <1>8 DEF Bracket, Alone, clientVars
<1>9. ASSUME NEW j \in Jobs, Resume(j) PROVE NoOrphan'
  BY <1>9 DEF Resume, Alone, clientVars
<1>10. ASSUME NEW j \in Jobs, Ceremony(j) PROVE NoOrphan'
  <2>1. \A u \in Threads : u # j => pc'[u] = pc[u] /\ taken'[u] = taken[u]
    BY <1>10 DEF Ceremony, Alone
  <2>2. pc[j] \notin {"handshake", "discarding", "reaping"}
    BY <1>10 DEF Ceremony
  <2>3. UNCHANGED <<session, runtime>>
    BY <1>10 DEF Ceremony, clientVars
  <2> QED BY <2>1, <2>2, <2>3
<1>11. ASSUME Approach PROVE NoOrphan'
  <2>1. \A u \in Threads : u # Main => pc'[u] = pc[u] /\ taken'[u] = taken[u]
    BY <1>11 DEF Approach, Alone
  <2>2. pc[Main] \notin {"handshake", "discarding", "reaping"}
    BY <1>11 DEF Approach
  <2>3. UNCHANGED <<session, runtime>>
    BY <1>11 DEF Approach, clientVars
  <2> QED BY <2>1, <2>2, <2>3
<1>12. ASSUME Wane PROVE NoOrphan'
  BY <1>12 DEF Wane, clientVars
<1> QED BY <1>1, <1>2, <1>3, <1>4, <1>5, <1>6, <1>7, <1>8, <1>9, <1>10, <1>11, <1>12 DEF Kinds, FetchKind, JobKind

\* What no ceremony can notice: its own thread and bracket stay, and so does the
\* configured client.
Quiet ==
  /\ \A k \in Jobs : pc'[k] = pc[k] /\ taken'[k] = taken[k]
  /\ UNCHANGED <<bracket, current, paused>> /\ closed \subseteq closed'

LEMMA QuietKinds ==
  /\ \A t \in Fetchers : FetchKind(t) => Quiet
  /\ Close(Main) \/ Reap(Main) \/ Approach \/ Wane => Quiet
<1>1. ASSUME NEW t \in Fetchers, FetchKind(t) PROVE Quiet
  BY <1>1, NamesAssumption
  DEF FetchKind, Quiet, Walk, Enter, Work, Leave, Alone, Threads
<1>2. CASE Close(Main) \/ Reap(Main)
  BY <1>2, NamesAssumption DEF Quiet, Close, Reap, Alone, Threads, clientVars
<1>3. CASE Approach \/ Wane
  BY <1>3, NamesAssumption DEF Quiet, Approach, Wane, Alone, Threads, clientVars
<1> QED BY <1>1, <1>2, <1>3

\* A second pause finds no client until the first has resumed.
LEMMA OnePauseStep == Shape /\ OnePause /\ Kinds => OnePause'
<1> SUFFICES ASSUME Shape, OnePause, Kinds PROVE OnePause'
  OBVIOUS
<1>1. CASE Quiet
  <2>1. \A k \in Jobs : Pending(k)' <=> Pending(k)
    BY <1>1 DEF Quiet, Pending, InCeremony
  <2>2. PausedIsNobody' /\ Bracketed'
    BY <1>1 DEF OnePause, PausedIsNobody, Bracketed, Quiet, InCeremony, Shape, TypeOK
  <2>3. PendingIsPaused' /\ PendingAlone'
    BY <1>1, <2>1 DEF OnePause, PendingIsPaused, PendingAlone, Quiet
  <2> QED BY <2>2, <2>3 DEF OnePause
<1>2. ASSUME NEW j \in Jobs, Close(j) \/ Reap(j) \/ JobKind(j) PROVE OnePause'
  <2>a. \A k \in Jobs : k # j => pc'[k] = pc[k]
    BY <1>2 DEF Close, Reap, JobKind, Pause, Bracket, Resume, Ceremony, Alone, Threads
  <2>b. bracket' = bracket \/ bracket' = bracket \cup {j}
    BY <1>2 DEF Close, Reap, JobKind, Pause, Bracket, Resume, Ceremony
  <2>1. \A k \in Jobs : k # j => pc'[k] = pc[k] /\ (k \in bracket' <=> k \in bracket)
    BY <2>a, <2>b
  <2>2. \A k \in Jobs : k # j => (Pending(k)' <=> Pending(k))
    BY <2>1 DEF Pending, InCeremony
  <2>3. \A k \in bracket : k # j => InCeremony(k)' \/ pc'[k] \in {"finished", "resumed", "done"}
    BY <2>1 DEF OnePause, Bracketed, InCeremony, Shape, TypeOK
  <2>4. j \in bracket => InCeremony(j) \/ pc[j] \in {"finished", "resumed", "done"}
    BY DEF OnePause, Bracketed
  <2>5. CASE Close(j)
    <3>1. Pending(j) /\ Pending(j)' /\ UNCHANGED <<bracket, current, paused>> /\ j \notin bracket
      BY <2>4, <2>5 DEF Close, Pending, InCeremony
    <3> QED BY <2>2, <2>3, <3>1
        DEF OnePause, PausedIsNobody, Bracketed, PendingIsPaused, PendingAlone
  <2>6. CASE Reap(j)
    <3>1. Pending(j) /\ Pending(j)' /\ UNCHANGED <<bracket, current, paused>> /\ j \notin bracket
      BY <2>4, <2>6 DEF Reap, Pending, InCeremony
    <3> QED BY <2>2, <2>3, <3>1
        DEF OnePause, PausedIsNobody, Bracketed, PendingIsPaused, PendingAlone
  <2>7. CASE Pause(j)
    <3>1. j \notin bracket /\ bracket' = bracket /\ current' = Nobody /\ paused' = TRUE
      BY <2>4, <2>7 DEF Pause, InCeremony
    <3>2. Pending(j)' => current # Nobody
      BY <2>7, <3>1 DEF Pause, Pending
    <3>3. current # Nobody => \A k \in Jobs : ~ Pending(k)
      BY DEF OnePause, PendingIsPaused
    <3> QED BY <2>2, <2>3, <3>1, <3>2, <3>3
        DEF OnePause, PausedIsNobody, Bracketed, PendingIsPaused, PendingAlone
  <2>8. CASE Bracket(j)
    <3>1. Pending(j) /\ bracket' = bracket \cup {j} /\ UNCHANGED <<current, paused>>
      BY <2>8 DEF Bracket, Pending
    <3>2. InCeremony(j)'
      BY <2>8 DEF Bracket, InCeremony
    <3> QED BY <2>2, <2>3, <3>1, <3>2
        DEF OnePause, PausedIsNobody, Bracketed, PendingIsPaused, PendingAlone
  <2>9. CASE Resume(j)
    <3>1. Pending(j) /\ ~ Pending(j)'
      BY <2>9 DEF Resume, Pending, InCeremony
    <3>2. \A k \in Jobs : ~ Pending(k)'
      BY <2>2, <3>1 DEF OnePause, PendingAlone
    <3>3. bracket' = bracket /\ pc'[j] = "resumed" /\ ~ paused' /\ current' # Nobody
      BY <2>9, NamesAssumption DEF Resume, Clients, Threads
    <3> QED BY <2>3, <3>2, <3>3
        DEF OnePause, PausedIsNobody, Bracketed, PendingIsPaused, PendingAlone
  <2>10. CASE Ceremony(j)
    <3>1. UNCHANGED <<bracket, current, paused>>
      BY <2>10 DEF Ceremony
    <3>2. Pending(j)' => Pending(j)
      BY <2>4, <2>10 DEF Ceremony, Pending, InCeremony
    <3>3. j \in bracket => InCeremony(j)' \/ pc'[j] \in {"finished", "resumed", "done"}
      BY <2>4, <2>10 DEF Ceremony, InCeremony
    <3> QED BY <2>2, <2>3, <3>1, <3>2, <3>3
        DEF OnePause, PausedIsNobody, Bracketed, PendingIsPaused, PendingAlone
  <2> QED BY <1>2, <2>5, <2>6, <2>7, <2>8, <2>9, <2>10 DEF JobKind
<1> QED BY <1>1, <1>2, QuietKinds DEF Kinds

\* A client is built by its resume, and by nothing else.
LEMMA UnbornStep ==
  ASSUME Shape, OnePause, Kinds
  PROVE  \A c \in Clients :
           \/ Unborn(c)' <=> Unborn(c)
           \/ c \in Jobs /\ Resume(c) /\ ~ Unborn(c)'
<1>1. CASE Quiet
  BY <1>1 DEF Quiet, Unborn
<1>2. ASSUME NEW j \in Jobs, Close(j) \/ Reap(j) \/ Pause(j)
      PROVE \A c \in Clients : Unborn(c)' <=> Unborn(c)
  BY <1>2 DEF Close, Reap, Pause, Alone, Threads, Unborn, clientVars
<1>3. ASSUME NEW j \in Jobs, Bracket(j) PROVE \A c \in Clients : Unborn(c)' <=> Unborn(c)
  BY <1>3 DEF Bracket, Alone, Threads, Unborn
<1>4. ASSUME NEW j \in Jobs, Resume(j)
      PROVE ~ Unborn(j)' /\ \A c \in Clients : c # j => (Unborn(c)' <=> Unborn(c))
  BY <1>4 DEF Resume, Alone, Threads, Unborn
<1>5. ASSUME NEW j \in Jobs, Ceremony(j) PROVE \A c \in Clients : Unborn(c)' <=> Unborn(c)
  <2>1. bracket' = bracket /\ \A k \in Jobs : k # j => pc'[k] = pc[k]
    BY <1>5 DEF Ceremony, Alone, Threads
  <2>2. j \in bracket /\ pc[j] = "finished" => paused
    BY DEF OnePause, PendingIsPaused, PausedIsNobody, Pending
  <2>3. j \in bracket => pc[j] # "idle"
    BY DEF OnePause, Bracketed, InCeremony
  <2>4. j \in bracket => (pc'[j] \in {"resumed", "done"} <=> pc[j] \in {"resumed", "done"})
    BY <1>5, <2>2, <2>3 DEF Ceremony
  <2> QED BY <2>1, <2>4 DEF Unborn
<1> QED BY <1>1, <1>2, <1>3, <1>4, <1>5, QuietKinds DEF Kinds, JobKind

\* What is not built yet is not used.
LEMMA UnbornIsNowhereStep == Shape /\ OnePause /\ UnbornIsNowhere /\ Kinds => UnbornIsNowhere'
<1> SUFFICES ASSUME Shape, OnePause, UnbornIsNowhere, Kinds, NEW c \in Clients, Unborn(c)'
             PROVE  /\ c \notin closed' /\ c \notin session' /\ c \notin runtime' /\ current' # c
                    /\ \A t \in Threads : taken'[t] # c
  BY DEF UnbornIsNowhere
<1>1. Unborn(c)
  BY UnbornStep
<1>2. /\ c \notin closed /\ c \notin session /\ c \notin runtime /\ current # c /\ c # Nobody
      /\ \A t \in Threads : taken[t] # c
  BY <1>1, NamesAssumption DEF UnbornIsNowhere
<1>3. ASSUME NEW t \in Fetchers, FetchKind(t)
      PROVE /\ c \notin closed' /\ c \notin session' /\ c \notin runtime' /\ current' # c
            /\ \A u \in Threads : taken'[u] # c
  BY <1>2, <1>3 DEF FetchKind, Walk, Enter, Work, Leave, Alone, Threads
<1>4. ASSUME NEW t \in Jobs \cup {Main}, Close(t) \/ Reap(t)
      PROVE /\ c \notin closed' /\ c \notin session' /\ c \notin runtime' /\ current' # c
            /\ \A u \in Threads : taken'[u] # c
  BY <1>2, <1>4 DEF Close, Reap, Alone, Threads, clientVars
<1>5. ASSUME NEW j \in Jobs, Pause(j) \/ Bracket(j) \/ Ceremony(j)
      PROVE /\ c \notin closed' /\ c \notin session' /\ c \notin runtime' /\ current' # c
            /\ \A u \in Threads : taken'[u] # c
  BY <1>2, <1>5 DEF Pause, Bracket, Ceremony, Alone, Threads, clientVars
<1>6. ASSUME NEW j \in Jobs, Resume(j)
      PROVE /\ c \notin closed' /\ c \notin session' /\ c \notin runtime' /\ current' # c
            /\ \A u \in Threads : taken'[u] # c
  <2>1. ~ Unborn(j)'
    BY <1>6 DEF Resume, Unborn
  <2> QED BY <1>2, <1>6, <2>1 DEF Resume, Alone, Threads, clientVars
<1>7. CASE Approach \/ Wane
  BY <1>2, <1>7 DEF Approach, Wane, Alone, Threads, clientVars
<1> QED BY <1>3, <1>4, <1>5, <1>6, <1>7 DEF Kinds, JobKind

\* A client that is neither configured nor being closed has been closed.
LEMMA OthersClosedStep == Shape /\ OnePause /\ OthersClosed /\ Kinds => OthersClosed'
<1> SUFFICES ASSUME Shape, OnePause, OthersClosed, Kinds, NEW c \in Clients, ~ Unborn(c)'
             PROVE  c \in closed' \/ current' = c \/ \E k \in Jobs : pc'[k] = "closing" /\ taken'[k] = c
  BY DEF OthersClosed
<1>1. CASE c \in Jobs /\ Resume(c)
  BY <1>1 DEF Resume
<1>2. CASE ~ Unborn(c)
  <2>1. c \in closed \/ current = c \/ \E k \in Jobs : pc[k] = "closing" /\ taken[k] = c
    BY <1>2 DEF OthersClosed
  <2>2. closed \subseteq closed'
    <3>1. ASSUME NEW t \in Jobs \cup {Main}, Close(t) \/ Reap(t) PROVE closed \subseteq closed'
      BY <3>1 DEF Close, Reap, clientVars
    <3>2. ASSUME NEW j \in Jobs, JobKind(j) PROVE closed \subseteq closed'
      BY <3>2 DEF JobKind, Pause, Bracket, Resume, Ceremony, clientVars
    <3> QED BY <3>1, <3>2, QuietKinds DEF Kinds, Quiet
  <2>3. CASE current = c
    <3>1. ASSUME NEW t \in Jobs \cup {Main}, Close(t) \/ Reap(t) PROVE current' = c
      BY <2>3, <3>1 DEF Close, Reap
    <3>2. ASSUME NEW j \in Jobs, Pause(j) PROVE pc'[j] = "closing" /\ taken'[j] = c
      BY <2>3, <3>2, NamesAssumption DEF Pause
    <3>3. ASSUME NEW j \in Jobs, Bracket(j) \/ Ceremony(j) PROVE current' = c
      BY <2>3, <3>3 DEF Bracket, Ceremony
    <3>4. ASSUME NEW j \in Jobs, Resume(j) PROVE FALSE
      BY <2>3, <3>4, NamesAssumption DEF Resume, OnePause, PausedIsNobody
    <3> QED BY <2>3, <3>1, <3>2, <3>3, <3>4, QuietKinds DEF Kinds, JobKind, Quiet
  <2>4. ASSUME NEW k \in Jobs, pc[k] = "closing", taken[k] = c
        PROVE  c \in closed' \/ \E i \in Jobs : pc'[i] = "closing" /\ taken'[i] = c
    <3>1. CASE Quiet
      BY <2>4, <3>1 DEF Quiet
    <3>2. ASSUME NEW j \in Jobs, Close(j) \/ Reap(j) PROVE c \in closed' \/ (pc'[k] = "closing" /\ taken'[k] = c)
      BY <2>4, <3>2 DEF Close, Reap, Alone, Threads
    <3>3. ASSUME NEW j \in Jobs, JobKind(j) PROVE pc'[k] = "closing" /\ taken'[k] = c
      BY <2>4, <3>3 DEF JobKind, Pause, Bracket, Resume, Ceremony, Alone, Threads
    <3> QED BY <3>1, <3>2, <3>3, QuietKinds DEF Kinds
  <2> QED BY <2>1, <2>2, <2>3, <2>4
<1> QED BY <1>1, <1>2, UnbornStep

-----------------------------------------------------------------------------
(* The theorems *)

LEMMA InvInit == Init => Inv
<1> SUFFICES ASSUME Init PROVE Inv
  OBVIOUS
<1> USE NamesAssumption DEF Init
<1>1. TypeOK
  BY DEF TypeOK, Steps, Clients
<1>2. Placed
  BY DEF Placed, Fetching, Enrolling, Stopping, Equipped, Threads
<1>3. Locking
  BY DEF Locking, Holding, Clients, Threads
<1>4. OnePause
  BY DEF OnePause, PausedIsNobody, Bracketed, PendingIsPaused, PendingAlone, Pending, InCeremony,
         Clients, Threads
<1>5. ClosedIdle /\ NoOrphan
  BY DEF ClosedIdle, NoOrphan
<1>6. Accounted
  BY DEF Accounted, UnbornIsNowhere, OthersClosed, Unborn, Clients, Threads
<1> QED BY <1>1, <1>2, <1>3, <1>4, <1>5, <1>6 DEF Inv

LEMMA InvStep == Inv /\ [Next]_vars => Inv'
<1> SUFFICES ASSUME Inv, [Next]_vars PROVE Inv'
  OBVIOUS
<1>1. Shape /\ Kinds /\ TypeOK'
  BY StepKinds DEF Inv, Shape
<1>2. Placed' /\ Locking' /\ OnePause'
  BY <1>1, PlacedStep, LockingStep, OnePauseStep DEF Inv
<1>3. ClosedIdle' /\ NoOrphan'
  BY <1>1, ClosedIdleStep, NoOrphanStep DEF Inv
<1>4. Accounted'
  BY <1>1, UnbornIsNowhereStep, OthersClosedStep DEF Inv, Accounted
<1> QED BY <1>1, <1>2, <1>3, <1>4 DEF Inv

LEMMA Invariance == Spec => []Inv
<1>1. Init => Inv
  BY InvInit
<1>2. Inv /\ [Next]_vars => Inv'
  BY InvStep
<1> QED BY <1>1, <1>2, PTL DEF Spec

\* The types hold in every reachable state (all of server/enrolment.py's Codex
\* path, the pause and resume, and the client).
THEOREM CodexTypeCorrect == Spec => []TypeOK
<1>1. Inv => TypeOK
  BY DEF Inv
<1> QED BY <1>1, Invariance, PTL

\* In a ceremony that took the client away every client is closed or not built
\* yet: the others would be configured or pending.
LEMMA InvExcludes == Inv => BracketExcludes
<1> SUFFICES ASSUME Inv, NEW j \in bracket, InCeremony(j)
             PROVE  /\ runtime \subseteq {c \in Clients : pc[Main] = "reaping" /\ taken[Main] = c}
                    /\ current = Nobody
                    /\ \A k \in bracket \ {j} : pc[k] \in {"resumed", "done"}
  BY DEF BracketExcludes
<1>1. j \in Jobs /\ Pending(j)
  BY DEF Inv, TypeOK, Pending
<1>2. current = Nobody
  BY <1>1 DEF Inv, OnePause, PendingIsPaused, PendingAlone
<1>3. \A k \in Jobs : Pending(k) => k = j
  BY <1>1 DEF Inv, OnePause, PendingIsPaused, PendingAlone
<1>4. \A k \in bracket \ {j} : pc[k] \in {"resumed", "done"}
  BY <1>3 DEF Inv, OnePause, Bracketed, TypeOK, Pending
<1>5. \A k \in Jobs : pc[k] \notin {"closing", "reaping"}
  BY <1>3 DEF Pending, InCeremony
<1>6. ASSUME NEW c \in runtime PROVE pc[Main] = "reaping" /\ taken[Main] = c
  <2>1. c \in Clients /\ ~ Unborn(c)
    BY DEF Inv, TypeOK, Accounted, UnbornIsNowhere
  <2>2. c \in closed
    BY <1>2, <1>5, <2>1, NamesAssumption DEF Inv, Accounted, OthersClosed
  <2>3. c \notin session /\ lock[c] = Nobody
    BY <2>2 DEF Inv, ClosedIdle
  <2>4. PICK t \in Threads : taken[t] = c /\ pc[t] \in {"handshake", "discarding", "reaping"}
    BY <2>3 DEF Inv, NoOrphan
  <2>5. pc[t] = "reaping"
    <3>1. t \notin Fetchers \/ pc[t] \notin Holding
      BY <2>1, <2>3, <2>4, NamesAssumption DEF Inv, Locking
    <3>2. t \notin Fetchers => pc[t] \notin {"handshake", "discarding"}
      BY NamesAssumption DEF Inv, Placed, Fetching, Enrolling, Stopping, Threads
    <3> QED BY <2>4, <3>1, <3>2 DEF Holding
  <2>6. t = Main
    BY <1>5, <2>4, <2>5, NamesAssumption DEF Inv, Placed, Fetching, Threads
  <2> QED BY <2>4, <2>5, <2>6
<1> QED BY <1>2, <1>4, <1>6 DEF Inv, TypeOK

\* While a ceremony whose pause closed the client is at work, up to its outcome, there
\* is no child of the runtime's clients but one that shutdown is reaping, no client is
\* configured and no other bracketed ceremony is at work, whatever other enrolments and
\* fetches there are. (Between its outcome and its resume another ceremony may begin.)
THEOREM BracketHolds == Spec => []BracketExcludes
<1>1. Inv => BracketExcludes
  BY InvExcludes
<1> QED BY <1>1, Invariance, PTL

\* Every child process is in its client's session or in the hands of a thread that
\* is about to put it there or to close it.
THEOREM NoChildOrphaned == Spec => []NoOrphan
<1>1. Inv => NoOrphan
  BY DEF Inv
<1> QED BY <1>1, Invariance, PTL

\* Only a fetch that found its client open spawns a child, so a closed client
\* without a child stays without one.
LEMMA StepKeepsDown ==
  Inv /\ [Next]_vars => [\A c \in closed \ runtime : c \notin runtime']_vars
<1> SUFFICES ASSUME Inv, Next, NEW c \in closed, c \notin runtime, c \in runtime' PROVE FALSE
  OBVIOUS
<1>1. Shape /\ Kinds
  BY StepKinds DEF Inv, Shape
<1>2. PICK t \in Fetchers : FetchKind(t) /\ pc[t] = "spawning" /\ taken[t] = c
  <2>1. ASSUME NEW t \in Jobs \cup {Main}, Close(t) \/ Reap(t) PROVE FALSE
    BY <2>1 DEF Close, Reap
  <2>2. ASSUME NEW j \in Jobs, JobKind(j) PROVE FALSE
    BY <2>2 DEF JobKind, Pause, Bracket, Resume, Ceremony
  <2>3. ASSUME Approach \/ Wane PROVE FALSE
    BY <2>3 DEF Approach, Wane
  <2>4. ASSUME NEW t \in Fetchers, FetchKind(t) PROVE pc[t] = "spawning" /\ taken[t] = c
    BY <2>4 DEF FetchKind, Walk, Enter, Work, Leave
  <2> QED BY <1>1, <2>1, <2>2, <2>3, <2>4 DEF Kinds
<1>3. c \in Clients /\ lock[c] = Nobody
  BY DEF Inv, TypeOK, ClosedIdle
<1> QED BY <1>2, <1>3, NamesAssumption DEF Inv, Locking, Holding, Threads

\* A closed client never runs a child again.
THEOREM ClosedClientStaysDown == Spec => ClosedStaysDown
<1>1. Inv /\ [Next]_vars => [\A c \in closed \ runtime : c \notin runtime']_vars
  BY StepKeepsDown
<1> QED BY <1>1, Invariance, PTL DEF Spec, ClosedStaysDown
=============================================================================

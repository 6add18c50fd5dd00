------------------------ MODULE AntigravityHomeProofs ------------------------
(***************************************************************************)
(* Theorems about AntigravityHome, for any number of ceremonies, fetching  *)
(* threads, kills and pod restarts: a login that was in place, or that was *)
(* installed since, is never lost, and every fetch runs on it.             *)
(***************************************************************************)
EXTENDS AntigravityHome, TLAPS

-----------------------------------------------------------------------------
(* The inductive invariant *)

\* Between home_lock's acquisition and its release.
Critical ==
  {"recover", "unmark", "sweep", "open", "running", "look", "mark", "move out", "move in",
   "clear", "drop", "leave"}
Exclusive == \A t \in Procs : pc[t] \in Critical => lock = t

\* Once the lock's holder has recovered, and until it moves the home, the login is there.
Sound == wanted # Absent => home = wanted
Settled ==
  \A t \in Procs :
    pc[t] \in {"unmark", "sweep", "open", "running", "look", "mark", "move out", "clear", "drop",
               "leave"}
      => Sound

\* Otherwise it is there or set aside, with the marker to say so.
SetAside == wanted # Absent => home = wanted \/ (home = Absent /\ marker /\ prev = wanted)
Marked ==
  \A j \in Jobs : pc[j] \in {"move out", "clear"} \/ (pc[j] = "move in" /\ hadHome) => marker

\* A ceremony's login is nowhere but in its staging directory until the swap.
Before == {"idle", "signing in", "verified", "recover", "unmark", "sweep", "look", "mark",
           "move out", "move in"}
Unused == \A j \in Jobs : pc[j] \in Before => home # j /\ prev # j /\ wanted # j
Staged ==
  \A j \in Jobs :
    /\ staging[j] \in {Absent, Blank, j}
    /\ pc[j] \in {"verified", "recover", "unmark", "sweep", "look", "mark", "move out", "move in"}
         => staging[j] = j

\* Swapped in, and not yet unmarked: the login installed is the ceremony's own, unless
\* the operator has signed out since.
Swapped ==
  \A j \in Jobs :
    pc[j] = "clear" => prev # j /\ (wanted = j \/ (wanted = Absent /\ home # j))

Inv ==
  /\ TypeOK /\ Exclusive /\ Settled /\ SetAside /\ Marked /\ Unused /\ Staged
  /\ Swapped

-----------------------------------------------------------------------------
(* Every action keeps it *)

LEMMA InvStep == Inv /\ [Next]_vars => Inv'
<1> SUFFICES ASSUME Inv, [Next]_vars PROVE Inv'
  OBVIOUS
<1> USE NamesAssumption DEF Inv, Procs, Goto, dirs
<1>1. ASSUME NEW t \in Procs, TakeLock(t) PROVE Inv'
  <2>1. TypeOK'
    <3>1. pc' \in [Procs -> FetchSteps \cup JobSteps]
      BY <1>1 DEF TakeLock, TypeOK, FetchSteps, JobSteps, Recovering
    <3>2. \A f \in Fetchers : pc'[f] \in FetchSteps
      BY <1>1 DEF TakeLock, TypeOK, FetchSteps, JobSteps, Recovering
    <3>3. \A j \in Jobs : pc'[j] \in JobSteps
      BY <1>1 DEF TakeLock, TypeOK, FetchSteps, JobSteps, Recovering
    <3>4. staging' \in [Jobs -> Dirs]
      BY <1>1 DEF TakeLock, TypeOK, Dirs, Logins
    <3> QED BY <1>1, <3>1, <3>2, <3>3, <3>4 DEF TakeLock, TypeOK, Dirs, Logins
  <2>2. Exclusive'
    BY <1>1 DEF TakeLock, Exclusive, Critical, TypeOK, Logins
  <2>3. Settled'
    BY <1>1 DEF TakeLock, Settled, Critical, Exclusive, Sound, SetAside, TypeOK, Logins
  <2>4. SetAside'
    BY <1>1 DEF TakeLock, SetAside, Settled, Sound, Marked, TypeOK, Logins
  <2>5. Marked'
    BY <1>1 DEF TakeLock, Marked, Exclusive, Critical, TypeOK, Logins
  <2>6. Unused'
    BY <1>1 DEF TakeLock, Unused, Before, Staged, TypeOK, Logins
  <2>7. Staged'
    BY <1>1 DEF TakeLock, Staged, TypeOK, Logins
  <2>8. Swapped'
    BY <1>1 DEF TakeLock, Swapped, Unused, Before, Staged, Exclusive, Critical, TypeOK, Logins
  <2> QED BY <2>1, <2>2, <2>3, <2>4, <2>5, <2>6, <2>7, <2>8
<1>2. ASSUME NEW t \in Procs, Recover(t) PROVE Inv'
  <2>1. TypeOK'
    <3>1. pc' \in [Procs -> FetchSteps \cup JobSteps]
      BY <1>2 DEF Recover, TypeOK, FetchSteps, JobSteps, Recovering
    <3>2. \A f \in Fetchers : pc'[f] \in FetchSteps
      BY <1>2 DEF Recover, TypeOK, FetchSteps, JobSteps, Recovering
    <3>3. \A j \in Jobs : pc'[j] \in JobSteps
      BY <1>2 DEF Recover, TypeOK, FetchSteps, JobSteps, Recovering
    <3>4. staging' \in [Jobs -> Dirs]
      BY <1>2 DEF Recover, TypeOK, Dirs, Logins
    <3> QED BY <1>2, <3>1, <3>2, <3>3, <3>4 DEF Recover, TypeOK, Dirs, Logins
  <2>2. Exclusive'
    BY <1>2 DEF Recover, Exclusive, Critical, TypeOK, Logins
  <2>3. Settled'
    <3>1. CASE wanted = Absent
      BY <1>2, <3>1 DEF Recover, Settled, Sound
    <3>2. CASE wanted # Absent
      <4>1. wanted \in Logins
        BY <3>2 DEF TypeOK
      <4>2. home' = wanted
        BY <1>2, <4>1 DEF Recover, SetAside, Logins
      <4> QED BY <1>2, <4>2 DEF Recover, Settled, Sound
    <3> QED BY <3>1, <3>2
  <2>4. SetAside'
    BY <1>2 DEF Recover, SetAside, Settled, Sound, Marked, TypeOK, Logins
  <2>5. Marked'
    BY <1>2 DEF Recover, Marked, Exclusive, Critical, TypeOK, Logins
  <2>6. Unused'
    BY <1>2 DEF Recover, Unused, Before, Staged, TypeOK, Logins
  <2>7. Staged'
    BY <1>2 DEF Recover, Staged, TypeOK, Logins
  <2>8. Swapped'
    BY <1>2 DEF Recover, Swapped, Unused, Before, Staged, Exclusive, Critical, TypeOK, Logins
  <2> QED BY <2>1, <2>2, <2>3, <2>4, <2>5, <2>6, <2>7, <2>8
<1>3. ASSUME NEW t \in Procs, Unmark(t) PROVE Inv'
  <2>1. TypeOK'
    <3>1. pc' \in [Procs -> FetchSteps \cup JobSteps]
      BY <1>3 DEF Unmark, TypeOK, FetchSteps, JobSteps, Recovering
    <3>2. \A f \in Fetchers : pc'[f] \in FetchSteps
      BY <1>3 DEF Unmark, TypeOK, FetchSteps, JobSteps, Recovering
    <3>3. \A j \in Jobs : pc'[j] \in JobSteps
      BY <1>3 DEF Unmark, TypeOK, FetchSteps, JobSteps, Recovering
    <3>4. staging' \in [Jobs -> Dirs]
      BY <1>3 DEF Unmark, TypeOK, Dirs, Logins
    <3> QED BY <1>3, <3>1, <3>2, <3>3, <3>4 DEF Unmark, TypeOK, Dirs, Logins
  <2>2. Exclusive'
    BY <1>3 DEF Unmark, Exclusive, Critical, TypeOK, Logins
  <2>3. Settled'
    BY <1>3 DEF Unmark, Settled, Critical, Exclusive, Sound, SetAside, TypeOK, Logins
  <2>4. SetAside'
    BY <1>3 DEF Unmark, SetAside, Settled, Sound, Marked, TypeOK, Logins
  <2>5. Marked'
    BY <1>3 DEF Unmark, Marked, Exclusive, Critical, TypeOK, Logins
  <2>6. Unused'
    BY <1>3 DEF Unmark, Unused, Before, Staged, TypeOK, Logins
  <2>7. Staged'
    BY <1>3 DEF Unmark, Staged, TypeOK, Logins
  <2>8. Swapped'
    BY <1>3 DEF Unmark, Swapped, Unused, Before, Staged, Exclusive, Critical, TypeOK, Logins
  <2> QED BY <2>1, <2>2, <2>3, <2>4, <2>5, <2>6, <2>7, <2>8
<1>4. ASSUME NEW t \in Procs, SweepPrev(t) PROVE Inv'
  <2>1. TypeOK'
    <3>1. pc' \in [Procs -> FetchSteps \cup JobSteps]
      BY <1>4 DEF SweepPrev, TypeOK, FetchSteps, JobSteps, Recovering
    <3>2. \A f \in Fetchers : pc'[f] \in FetchSteps
      BY <1>4 DEF SweepPrev, TypeOK, FetchSteps, JobSteps, Recovering
    <3>3. \A j \in Jobs : pc'[j] \in JobSteps
      BY <1>4 DEF SweepPrev, TypeOK, FetchSteps, JobSteps, Recovering
    <3>4. staging' \in [Jobs -> Dirs]
      BY <1>4 DEF SweepPrev, TypeOK, Dirs, Logins
    <3> QED BY <1>4, <3>1, <3>2, <3>3, <3>4 DEF SweepPrev, TypeOK, Dirs, Logins
  <2>2. Exclusive'
    BY <1>4 DEF SweepPrev, Exclusive, Critical, TypeOK, Logins
  <2>3. Settled'
    BY <1>4 DEF SweepPrev, Settled, Critical, Exclusive, Sound, SetAside, TypeOK, Logins
  <2>4. SetAside'
    BY <1>4 DEF SweepPrev, SetAside, Settled, Sound, Marked, TypeOK, Logins
  <2>5. Marked'
    BY <1>4 DEF SweepPrev, Marked, Exclusive, Critical, TypeOK, Logins
  <2>6. Unused'
    BY <1>4 DEF SweepPrev, Unused, Before, Staged, TypeOK, Logins
  <2>7. Staged'
    BY <1>4 DEF SweepPrev, Staged, TypeOK, Logins
  <2>8. Swapped'
    BY <1>4 DEF SweepPrev, Swapped, Unused, Before, Staged, Exclusive, Critical, TypeOK, Logins
  <2> QED BY <2>1, <2>2, <2>3, <2>4, <2>5, <2>6, <2>7, <2>8
<1>5. ASSUME NEW t \in Fetchers, OpenHome(t) PROVE Inv'
  <2>1. TypeOK'
    <3>1. pc' \in [Procs -> FetchSteps \cup JobSteps]
      BY <1>5 DEF OpenHome, TypeOK, FetchSteps, JobSteps, Recovering
    <3>2. \A f \in Fetchers : pc'[f] \in FetchSteps
      BY <1>5 DEF OpenHome, TypeOK, FetchSteps, JobSteps, Recovering
    <3>3. \A j \in Jobs : pc'[j] \in JobSteps
      BY <1>5 DEF OpenHome, TypeOK, FetchSteps, JobSteps, Recovering
    <3>4. staging' \in [Jobs -> Dirs]
      BY <1>5 DEF OpenHome, TypeOK, Dirs, Logins
    <3> QED BY <1>5, <3>1, <3>2, <3>3, <3>4 DEF OpenHome, TypeOK, Dirs, Logins
  <2>2. Exclusive'
    BY <1>5 DEF OpenHome, Exclusive, Critical, TypeOK, Logins
  <2>3. Settled'
    BY <1>5 DEF OpenHome, Settled, Critical, Exclusive, Sound, SetAside, TypeOK, Logins
  <2>4. SetAside'
    BY <1>5 DEF OpenHome, SetAside, Settled, Sound, Marked, TypeOK, Logins
  <2>5. Marked'
    BY <1>5 DEF OpenHome, Marked, Exclusive, Critical, TypeOK, Logins
  <2>6. Unused'
    BY <1>5 DEF OpenHome, Unused, Before, Staged, TypeOK, Logins
  <2>7. Staged'
    BY <1>5 DEF OpenHome, Staged, TypeOK, Logins
  <2>8. Swapped'
    BY <1>5 DEF OpenHome, Swapped, Unused, Before, Staged, Exclusive, Critical, TypeOK, Logins
  <2> QED BY <2>1, <2>2, <2>3, <2>4, <2>5, <2>6, <2>7, <2>8
<1>6. ASSUME NEW t \in Fetchers, RunCommand(t) PROVE Inv'
  <2>1. TypeOK'
    <3>1. pc' \in [Procs -> FetchSteps \cup JobSteps]
      BY <1>6 DEF RunCommand, Release, TypeOK, FetchSteps, JobSteps, Recovering
    <3>2. \A f \in Fetchers : pc'[f] \in FetchSteps
      BY <1>6 DEF RunCommand, Release, TypeOK, FetchSteps, JobSteps, Recovering
    <3>3. \A j \in Jobs : pc'[j] \in JobSteps
      BY <1>6 DEF RunCommand, Release, TypeOK, FetchSteps, JobSteps, Recovering
    <3>4. staging' \in [Jobs -> Dirs]
      BY <1>6 DEF RunCommand, Release, TypeOK, Dirs, Logins
    <3> QED BY <1>6, <3>1, <3>2, <3>3, <3>4 DEF RunCommand, Release, TypeOK, Dirs, Logins
  <2>2. Exclusive'
    BY <1>6 DEF RunCommand, Release, Exclusive, Critical, TypeOK, Logins
  <2>3. Settled'
    BY <1>6 DEF RunCommand, Release, Settled, Critical, Exclusive, Sound, SetAside, TypeOK, Logins
  <2>4. SetAside'
    BY <1>6 DEF RunCommand, Release, SetAside, Settled, Sound, Marked, TypeOK, Logins
  <2>5. Marked'
    BY <1>6 DEF RunCommand, Release, Marked, Exclusive, Critical, TypeOK, Logins
  <2>6. Unused'
    BY <1>6 DEF RunCommand, Release, Unused, Before, Staged, TypeOK, Logins
  <2>7. Staged'
    BY <1>6 DEF RunCommand, Release, Staged, TypeOK, Logins
  <2>8. Swapped'
    BY <1>6 DEF RunCommand, Release, Swapped, Unused, Before, Staged, Exclusive, Critical, TypeOK, Logins
  <2> QED BY <2>1, <2>2, <2>3, <2>4, <2>5, <2>6, <2>7, <2>8
<1>7. ASSUME NEW t \in Jobs, MakeStaging(t) PROVE Inv'
  <2>1. TypeOK'
    <3>1. pc' \in [Procs -> FetchSteps \cup JobSteps]
      BY <1>7 DEF MakeStaging, TypeOK, FetchSteps, JobSteps, Recovering
    <3>2. \A f \in Fetchers : pc'[f] \in FetchSteps
      BY <1>7 DEF MakeStaging, TypeOK, FetchSteps, JobSteps, Recovering
    <3>3. \A j \in Jobs : pc'[j] \in JobSteps
      BY <1>7 DEF MakeStaging, TypeOK, FetchSteps, JobSteps, Recovering
    <3>4. staging' \in [Jobs -> Dirs]
      <4>1. PICK stale \in SUBSET {k \in Jobs : pc[k] = "killed"} :
              staging' = [k \in Jobs |-> IF k = t THEN Blank ELSE IF k \in stale THEN Absent ELSE staging[k]]
        BY <1>7 DEF MakeStaging
      <4> QED BY <4>1 DEF TypeOK, Dirs
    <3> QED BY <1>7, <3>1, <3>2, <3>3, <3>4 DEF MakeStaging, TypeOK, Dirs, Logins
  <2>2. Exclusive'
    BY <1>7 DEF MakeStaging, Exclusive, Critical, TypeOK, Logins
  <2>3. Settled'
    BY <1>7 DEF MakeStaging, Settled, Critical, Exclusive, Sound, SetAside, TypeOK, Logins
  <2>4. SetAside'
    BY <1>7 DEF MakeStaging, SetAside, Settled, Sound, Marked, TypeOK, Logins
  <2>5. Marked'
    BY <1>7 DEF MakeStaging, Marked, Exclusive, Critical, TypeOK, Logins
  <2>6. Unused'
    BY <1>7 DEF MakeStaging, Unused, Before, Staged, TypeOK, Logins
  <2>7. Staged'
    BY <1>7 DEF MakeStaging, Staged, TypeOK, Logins
  <2>8. Swapped'
    BY <1>7 DEF MakeStaging, Swapped, Unused, Before, Staged, Exclusive, Critical, TypeOK, Logins
  <2> QED BY <2>1, <2>2, <2>3, <2>4, <2>5, <2>6, <2>7, <2>8
<1>8. ASSUME NEW t \in Jobs, SignIn(t) PROVE Inv'
  <2>1. TypeOK'
    <3>1. pc' \in [Procs -> FetchSteps \cup JobSteps]
      BY <1>8 DEF SignIn, TypeOK, FetchSteps, JobSteps, Recovering
    <3>2. \A f \in Fetchers : pc'[f] \in FetchSteps
      BY <1>8 DEF SignIn, TypeOK, FetchSteps, JobSteps, Recovering
    <3>3. \A j \in Jobs : pc'[j] \in JobSteps
      BY <1>8 DEF SignIn, TypeOK, FetchSteps, JobSteps, Recovering
    <3>4. staging' \in [Jobs -> Dirs]
      BY <1>8 DEF SignIn, TypeOK, Dirs, Logins
    <3> QED BY <1>8, <3>1, <3>2, <3>3, <3>4 DEF SignIn, TypeOK, Dirs, Logins
  <2>2. Exclusive'
    BY <1>8 DEF SignIn, Exclusive, Critical, TypeOK, Logins
  <2>3. Settled'
    BY <1>8 DEF SignIn, Settled, Critical, Exclusive, Sound, SetAside, TypeOK, Logins
  <2>4. SetAside'
    BY <1>8 DEF SignIn, SetAside, Settled, Sound, Marked, TypeOK, Logins
  <2>5. Marked'
    BY <1>8 DEF SignIn, Marked, Exclusive, Critical, TypeOK, Logins
  <2>6. Unused'
    BY <1>8 DEF SignIn, Unused, Before, Staged, TypeOK, Logins
  <2>7. Staged'
    BY <1>8 DEF SignIn, Staged, TypeOK, Logins
  <2>8. Swapped'
    BY <1>8 DEF SignIn, Swapped, Unused, Before, Staged, Exclusive, Critical, TypeOK, Logins
  <2> QED BY <2>1, <2>2, <2>3, <2>4, <2>5, <2>6, <2>7, <2>8
<1>9. ASSUME NEW t \in Jobs, GiveUp(t) PROVE Inv'
  <2>1. TypeOK'
    <3>1. pc' \in [Procs -> FetchSteps \cup JobSteps]
      BY <1>9 DEF GiveUp, TypeOK, FetchSteps, JobSteps, Recovering
    <3>2. \A f \in Fetchers : pc'[f] \in FetchSteps
      BY <1>9 DEF GiveUp, TypeOK, FetchSteps, JobSteps, Recovering
    <3>3. \A j \in Jobs : pc'[j] \in JobSteps
      BY <1>9 DEF GiveUp, TypeOK, FetchSteps, JobSteps, Recovering
    <3>4. staging' \in [Jobs -> Dirs]
      BY <1>9 DEF GiveUp, TypeOK, Dirs, Logins
    <3> QED BY <1>9, <3>1, <3>2, <3>3, <3>4 DEF GiveUp, TypeOK, Dirs, Logins
  <2>2. Exclusive'
    BY <1>9 DEF GiveUp, Exclusive, Critical, TypeOK, Logins
  <2>3. Settled'
    BY <1>9 DEF GiveUp, Settled, Critical, Exclusive, Sound, SetAside, TypeOK, Logins
  <2>4. SetAside'
    BY <1>9 DEF GiveUp, SetAside, Settled, Sound, Marked, TypeOK, Logins
  <2>5. Marked'
    BY <1>9 DEF GiveUp, Marked, Exclusive, Critical, TypeOK, Logins
  <2>6. Unused'
    BY <1>9 DEF GiveUp, Unused, Before, Staged, TypeOK, Logins
  <2>7. Staged'
    BY <1>9 DEF GiveUp, Staged, TypeOK, Logins
  <2>8. Swapped'
    BY <1>9 DEF GiveUp, Swapped, Unused, Before, Staged, Exclusive, Critical, TypeOK, Logins
  <2> QED BY <2>1, <2>2, <2>3, <2>4, <2>5, <2>6, <2>7, <2>8
<1>10. ASSUME NEW t \in Jobs, LookForHome(t) PROVE Inv'
  <2>1. TypeOK'
    <3>1. pc' \in [Procs -> FetchSteps \cup JobSteps]
      BY <1>10 DEF LookForHome, TypeOK, FetchSteps, JobSteps, Recovering
    <3>2. \A f \in Fetchers : pc'[f] \in FetchSteps
      BY <1>10 DEF LookForHome, TypeOK, FetchSteps, JobSteps, Recovering
    <3>3. \A j \in Jobs : pc'[j] \in JobSteps
      BY <1>10 DEF LookForHome, TypeOK, FetchSteps, JobSteps, Recovering
    <3>4. staging' \in [Jobs -> Dirs]
      BY <1>10 DEF LookForHome, TypeOK, Dirs, Logins
    <3> QED BY <1>10, <3>1, <3>2, <3>3, <3>4 DEF LookForHome, TypeOK, Dirs, Logins
  <2>2. Exclusive'
    BY <1>10 DEF LookForHome, Exclusive, Critical, TypeOK, Logins
  <2>3. Settled'
    BY <1>10 DEF LookForHome, Settled, Critical, Exclusive, Sound, SetAside, TypeOK, Logins
  <2>4. SetAside'
    BY <1>10 DEF LookForHome, SetAside, Settled, Sound, Marked, TypeOK, Logins
  <2>5. Marked'
    BY <1>10 DEF LookForHome, Marked, Exclusive, Critical, TypeOK, Logins
  <2>6. Unused'
    BY <1>10 DEF LookForHome, Unused, Before, Staged, TypeOK, Logins
  <2>7. Staged'
    BY <1>10 DEF LookForHome, Staged, TypeOK, Logins
  <2>8. Swapped'
    BY <1>10 DEF LookForHome, Swapped, Unused, Before, Staged, Exclusive, Critical, TypeOK, Logins
  <2> QED BY <2>1, <2>2, <2>3, <2>4, <2>5, <2>6, <2>7, <2>8
<1>11. ASSUME NEW t \in Jobs, Mark(t) PROVE Inv'
  <2>1. TypeOK'
    <3>1. pc' \in [Procs -> FetchSteps \cup JobSteps]
      BY <1>11 DEF Mark, TypeOK, FetchSteps, JobSteps, Recovering
    <3>2. \A f \in Fetchers : pc'[f] \in FetchSteps
      BY <1>11 DEF Mark, TypeOK, FetchSteps, JobSteps, Recovering
    <3>3. \A j \in Jobs : pc'[j] \in JobSteps
      BY <1>11 DEF Mark, TypeOK, FetchSteps, JobSteps, Recovering
    <3>4. staging' \in [Jobs -> Dirs]
      BY <1>11 DEF Mark, TypeOK, Dirs, Logins
    <3> QED BY <1>11, <3>1, <3>2, <3>3, <3>4 DEF Mark, TypeOK, Dirs, Logins
  <2>2. Exclusive'
    BY <1>11 DEF Mark, Exclusive, Critical, TypeOK, Logins
  <2>3. Settled'
    BY <1>11 DEF Mark, Settled, Critical, Exclusive, Sound, SetAside, TypeOK, Logins
  <2>4. SetAside'
    BY <1>11 DEF Mark, SetAside, Settled, Sound, Marked, TypeOK, Logins
  <2>5. Marked'
    BY <1>11 DEF Mark, Marked, Exclusive, Critical, TypeOK, Logins
  <2>6. Unused'
    BY <1>11 DEF Mark, Unused, Before, Staged, TypeOK, Logins
  <2>7. Staged'
    BY <1>11 DEF Mark, Staged, TypeOK, Logins
  <2>8. Swapped'
    BY <1>11 DEF Mark, Swapped, Unused, Before, Staged, Exclusive, Critical, TypeOK, Logins
  <2> QED BY <2>1, <2>2, <2>3, <2>4, <2>5, <2>6, <2>7, <2>8
<1>12. ASSUME NEW t \in Jobs, MoveOut(t) PROVE Inv'
  <2>1. TypeOK'
    <3>1. pc' \in [Procs -> FetchSteps \cup JobSteps]
      BY <1>12 DEF MoveOut, TypeOK, FetchSteps, JobSteps, Recovering
    <3>2. \A f \in Fetchers : pc'[f] \in FetchSteps
      BY <1>12 DEF MoveOut, TypeOK, FetchSteps, JobSteps, Recovering
    <3>3. \A j \in Jobs : pc'[j] \in JobSteps
      BY <1>12 DEF MoveOut, TypeOK, FetchSteps, JobSteps, Recovering
    <3>4. staging' \in [Jobs -> Dirs]
      BY <1>12 DEF MoveOut, TypeOK, Dirs, Logins
    <3> QED BY <1>12, <3>1, <3>2, <3>3, <3>4 DEF MoveOut, TypeOK, Dirs, Logins
  <2>2. Exclusive'
    BY <1>12 DEF MoveOut, Exclusive, Critical, TypeOK, Logins
  <2>3. Settled'
    BY <1>12 DEF MoveOut, Settled, Critical, Exclusive, Sound, SetAside, TypeOK, Logins
  <2>4. SetAside'
    BY <1>12 DEF MoveOut, SetAside, Settled, Sound, Marked, TypeOK, Logins
  <2>5. Marked'
    BY <1>12 DEF MoveOut, Marked, Exclusive, Critical, TypeOK, Logins
  <2>6. Unused'
    BY <1>12 DEF MoveOut, Unused, Before, Staged, TypeOK, Logins
  <2>7. Staged'
    BY <1>12 DEF MoveOut, Staged, TypeOK, Logins
  <2>8. Swapped'
    BY <1>12 DEF MoveOut, Swapped, Unused, Before, Staged, Exclusive, Critical, TypeOK, Logins
  <2> QED BY <2>1, <2>2, <2>3, <2>4, <2>5, <2>6, <2>7, <2>8
<1>13. ASSUME NEW t \in Jobs, MoveIn(t) PROVE Inv'
  <2>1. TypeOK'
    <3>1. pc' \in [Procs -> FetchSteps \cup JobSteps]
      BY <1>13 DEF MoveIn, TypeOK, FetchSteps, JobSteps, Recovering
    <3>2. \A f \in Fetchers : pc'[f] \in FetchSteps
      BY <1>13 DEF MoveIn, TypeOK, FetchSteps, JobSteps, Recovering
    <3>3. \A j \in Jobs : pc'[j] \in JobSteps
      BY <1>13 DEF MoveIn, TypeOK, FetchSteps, JobSteps, Recovering
    <3>4. staging' \in [Jobs -> Dirs]
      BY <1>13 DEF MoveIn, TypeOK, Dirs, Logins
    <3> QED BY <1>13, <3>1, <3>2, <3>3, <3>4 DEF MoveIn, TypeOK, Dirs, Logins
  <2>2. Exclusive'
    BY <1>13 DEF MoveIn, Exclusive, Critical, TypeOK, Logins
  <2>3. Settled'
    <3>1. home' = t /\ wanted' = t
      BY <1>13 DEF MoveIn, Staged
    <3> QED BY <3>1 DEF Settled, Sound
  <2>4. SetAside'
    <3>1. home' = t /\ wanted' = t
      BY <1>13 DEF MoveIn, Staged
    <3> QED BY <3>1 DEF SetAside
  <2>5. Marked'
    BY <1>13 DEF MoveIn, Marked, Exclusive, Critical, TypeOK, Logins
  <2>6. Unused'
    BY <1>13 DEF MoveIn, Unused, Before, Staged, TypeOK, Logins
  <2>7. Staged'
    BY <1>13 DEF MoveIn, Staged, TypeOK, Logins
  <2>8. Swapped'
    BY <1>13 DEF MoveIn, Swapped, Unused, Before, Staged, Exclusive, Critical, TypeOK, Logins
  <2> QED BY <2>1, <2>2, <2>3, <2>4, <2>5, <2>6, <2>7, <2>8
<1>14. ASSUME NEW t \in Jobs, FailInstall(t) PROVE Inv'
  <2>1. TypeOK'
    <3>1. pc' \in [Procs -> FetchSteps \cup JobSteps]
      BY <1>14 DEF FailInstall, MayRaise, Release, TypeOK, FetchSteps, JobSteps, Recovering
    <3>2. \A f \in Fetchers : pc'[f] \in FetchSteps
      BY <1>14 DEF FailInstall, MayRaise, Release, TypeOK, FetchSteps, JobSteps, Recovering
    <3>3. \A j \in Jobs : pc'[j] \in JobSteps
      BY <1>14 DEF FailInstall, MayRaise, Release, TypeOK, FetchSteps, JobSteps, Recovering
    <3>4. staging' \in [Jobs -> Dirs]
      BY <1>14 DEF FailInstall, MayRaise, Release, TypeOK, Dirs, Logins
    <3> QED BY <1>14, <3>1, <3>2, <3>3, <3>4 DEF FailInstall, MayRaise, Release, TypeOK, Dirs, Logins
  <2>2. Exclusive'
    BY <1>14 DEF FailInstall, MayRaise, Release, Exclusive, Critical, TypeOK, Logins
  <2>3. Settled'
    BY <1>14 DEF FailInstall, MayRaise, Release, Settled, Critical, Exclusive, Sound, SetAside, TypeOK, Logins
  <2>4. SetAside'
    BY <1>14 DEF FailInstall, MayRaise, Release, SetAside, Settled, Sound, Marked, TypeOK, Logins
  <2>5. Marked'
    BY <1>14 DEF FailInstall, MayRaise, Release, Marked, Exclusive, Critical, TypeOK, Logins
  <2>6. Unused'
    BY <1>14 DEF FailInstall, MayRaise, Release, Unused, Before, Staged, TypeOK, Logins
  <2>7. Staged'
    BY <1>14 DEF FailInstall, MayRaise, Release, Staged, TypeOK, Logins
  <2>8. Swapped'
    BY <1>14 DEF FailInstall, MayRaise, Release, Swapped, Unused, Before, Staged, Exclusive, Critical, TypeOK, Logins
  <2> QED BY <2>1, <2>2, <2>3, <2>4, <2>5, <2>6, <2>7, <2>8
<1>15. ASSUME NEW t \in Jobs, ClearMarker(t) PROVE Inv'
  <2>1. TypeOK'
    <3>1. pc' \in [Procs -> FetchSteps \cup JobSteps]
      BY <1>15 DEF ClearMarker, TypeOK, FetchSteps, JobSteps, Recovering
    <3>2. \A f \in Fetchers : pc'[f] \in FetchSteps
      BY <1>15 DEF ClearMarker, TypeOK, FetchSteps, JobSteps, Recovering
    <3>3. \A j \in Jobs : pc'[j] \in JobSteps
      BY <1>15 DEF ClearMarker, TypeOK, FetchSteps, JobSteps, Recovering
    <3>4. staging' \in [Jobs -> Dirs]
      BY <1>15 DEF ClearMarker, TypeOK, Dirs, Logins
    <3> QED BY <1>15, <3>1, <3>2, <3>3, <3>4 DEF ClearMarker, TypeOK, Dirs, Logins
  <2>2. Exclusive'
    BY <1>15 DEF ClearMarker, Exclusive, Critical, TypeOK, Logins
  <2>3. Settled'
    BY <1>15 DEF ClearMarker, Settled, Critical, Exclusive, Sound, SetAside, TypeOK, Logins
  <2>4. SetAside'
    BY <1>15 DEF ClearMarker, SetAside, Settled, Sound, Marked, TypeOK, Logins
  <2>5. Marked'
    BY <1>15 DEF ClearMarker, Marked, Exclusive, Critical, TypeOK, Logins
  <2>6. Unused'
    BY <1>15 DEF ClearMarker, Unused, Before, Staged, TypeOK, Logins
  <2>7. Staged'
    BY <1>15 DEF ClearMarker, Staged, TypeOK, Logins
  <2>8. Swapped'
    BY <1>15 DEF ClearMarker, Swapped, Unused, Before, Staged, Exclusive, Critical, TypeOK, Logins
  <2> QED BY <2>1, <2>2, <2>3, <2>4, <2>5, <2>6, <2>7, <2>8
<1>16. ASSUME NEW t \in Jobs, DropPrev(t) PROVE Inv'
  <2>1. TypeOK'
    <3>1. pc' \in [Procs -> FetchSteps \cup JobSteps]
      BY <1>16 DEF DropPrev, TypeOK, FetchSteps, JobSteps, Recovering
    <3>2. \A f \in Fetchers : pc'[f] \in FetchSteps
      BY <1>16 DEF DropPrev, TypeOK, FetchSteps, JobSteps, Recovering
    <3>3. \A j \in Jobs : pc'[j] \in JobSteps
      BY <1>16 DEF DropPrev, TypeOK, FetchSteps, JobSteps, Recovering
    <3>4. staging' \in [Jobs -> Dirs]
      BY <1>16 DEF DropPrev, TypeOK, Dirs, Logins
    <3> QED BY <1>16, <3>1, <3>2, <3>3, <3>4 DEF DropPrev, TypeOK, Dirs, Logins
  <2>2. Exclusive'
    BY <1>16 DEF DropPrev, Exclusive, Critical, TypeOK, Logins
  <2>3. Settled'
    BY <1>16 DEF DropPrev, Settled, Critical, Exclusive, Sound, SetAside, TypeOK, Logins
  <2>4. SetAside'
    BY <1>16 DEF DropPrev, SetAside, Settled, Sound, Marked, TypeOK, Logins
  <2>5. Marked'
    BY <1>16 DEF DropPrev, Marked, Exclusive, Critical, TypeOK, Logins
  <2>6. Unused'
    BY <1>16 DEF DropPrev, Unused, Before, Staged, TypeOK, Logins
  <2>7. Staged'
    BY <1>16 DEF DropPrev, Staged, TypeOK, Logins
  <2>8. Swapped'
    BY <1>16 DEF DropPrev, Swapped, Unused, Before, Staged, Exclusive, Critical, TypeOK, Logins
  <2> QED BY <2>1, <2>2, <2>3, <2>4, <2>5, <2>6, <2>7, <2>8
<1>17. ASSUME NEW t \in Jobs, Leave(t) PROVE Inv'
  <2>1. TypeOK'
    <3>1. pc' \in [Procs -> FetchSteps \cup JobSteps]
      BY <1>17 DEF Leave, Release, TypeOK, FetchSteps, JobSteps, Recovering
    <3>2. \A f \in Fetchers : pc'[f] \in FetchSteps
      BY <1>17 DEF Leave, Release, TypeOK, FetchSteps, JobSteps, Recovering
    <3>3. \A j \in Jobs : pc'[j] \in JobSteps
      BY <1>17 DEF Leave, Release, TypeOK, FetchSteps, JobSteps, Recovering
    <3>4. staging' \in [Jobs -> Dirs]
      BY <1>17 DEF Leave, Release, TypeOK, Dirs, Logins
    <3> QED BY <1>17, <3>1, <3>2, <3>3, <3>4 DEF Leave, Release, TypeOK, Dirs, Logins
  <2>2. Exclusive'
    BY <1>17 DEF Leave, Release, Exclusive, Critical, TypeOK, Logins
  <2>3. Settled'
    BY <1>17 DEF Leave, Release, Settled, Critical, Exclusive, Sound, SetAside, TypeOK, Logins
  <2>4. SetAside'
    BY <1>17 DEF Leave, Release, SetAside, Settled, Sound, Marked, TypeOK, Logins
  <2>5. Marked'
    BY <1>17 DEF Leave, Release, Marked, Exclusive, Critical, TypeOK, Logins
  <2>6. Unused'
    BY <1>17 DEF Leave, Release, Unused, Before, Staged, TypeOK, Logins
  <2>7. Staged'
    BY <1>17 DEF Leave, Release, Staged, TypeOK, Logins
  <2>8. Swapped'
    BY <1>17 DEF Leave, Release, Swapped, Unused, Before, Staged, Exclusive, Critical, TypeOK, Logins
  <2> QED BY <2>1, <2>2, <2>3, <2>4, <2>5, <2>6, <2>7, <2>8
<1>18. ASSUME NEW t \in Jobs, KillCeremony(t) PROVE Inv'
  <2>1. TypeOK'
    <3>1. pc' \in [Procs -> FetchSteps \cup JobSteps]
      BY <1>18 DEF KillCeremony, Dead, TypeOK, FetchSteps, JobSteps, Recovering
    <3>2. \A f \in Fetchers : pc'[f] \in FetchSteps
      BY <1>18 DEF KillCeremony, Dead, TypeOK, FetchSteps, JobSteps, Recovering
    <3>3. \A j \in Jobs : pc'[j] \in JobSteps
      BY <1>18 DEF KillCeremony, Dead, TypeOK, FetchSteps, JobSteps, Recovering
    <3>4. staging' \in [Jobs -> Dirs]
      BY <1>18 DEF KillCeremony, Dead, TypeOK, Dirs, Logins
    <3> QED BY <1>18, <3>1, <3>2, <3>3, <3>4 DEF KillCeremony, Dead, TypeOK, Dirs, Logins
  <2>2. Exclusive'
    BY <1>18 DEF KillCeremony, Dead, Exclusive, Critical, TypeOK, Logins
  <2>3. Settled'
    BY <1>18 DEF KillCeremony, Dead, Settled, Critical, Exclusive, Sound, SetAside, TypeOK, Logins
  <2>4. SetAside'
    BY <1>18 DEF KillCeremony, Dead, SetAside, Settled, Sound, Marked, TypeOK, Logins
  <2>5. Marked'
    BY <1>18 DEF KillCeremony, Dead, Marked, Exclusive, Critical, TypeOK, Logins
  <2>6. Unused'
    BY <1>18 DEF KillCeremony, Dead, Unused, Before, Staged, TypeOK, Logins
  <2>7. Staged'
    BY <1>18 DEF KillCeremony, Dead, Staged, TypeOK, Logins
  <2>8. Swapped'
    BY <1>18 DEF KillCeremony, Dead, Swapped, Unused, Before, Staged, Exclusive, Critical, TypeOK, Logins
  <2> QED BY <2>1, <2>2, <2>3, <2>4, <2>5, <2>6, <2>7, <2>8
<1>19. ASSUME SignOut PROVE Inv'
  <2>1. TypeOK'
    <3>1. pc' \in [Procs -> FetchSteps \cup JobSteps]
      BY <1>19 DEF SignOut, TypeOK, FetchSteps, JobSteps, Recovering
    <3>2. \A f \in Fetchers : pc'[f] \in FetchSteps
      BY <1>19 DEF SignOut, TypeOK, FetchSteps, JobSteps, Recovering
    <3>3. \A j \in Jobs : pc'[j] \in JobSteps
      BY <1>19 DEF SignOut, TypeOK, FetchSteps, JobSteps, Recovering
    <3>4. staging' \in [Jobs -> Dirs]
      BY <1>19 DEF SignOut, TypeOK, Dirs, Logins
    <3> QED BY <1>19, <3>1, <3>2, <3>3, <3>4 DEF SignOut, TypeOK, Dirs, Logins
  <2>2. Exclusive'
    BY <1>19 DEF SignOut, Exclusive, Critical, TypeOK, Logins
  <2>3. Settled'
    BY <1>19 DEF SignOut, Settled, Critical, Exclusive, Sound, SetAside, TypeOK, Logins
  <2>4. SetAside'
    BY <1>19 DEF SignOut, SetAside, Settled, Sound, Marked, TypeOK, Logins
  <2>5. Marked'
    BY <1>19 DEF SignOut, Marked, Exclusive, Critical, TypeOK, Logins
  <2>6. Unused'
    BY <1>19 DEF SignOut, Unused, Before, Staged, TypeOK, Logins
  <2>7. Staged'
    BY <1>19 DEF SignOut, Staged, TypeOK, Logins
  <2>8. Swapped'
    BY <1>19 DEF SignOut, Swapped, Unused, Before, Staged, Exclusive, Critical, TypeOK, Logins
  <2> QED BY <2>1, <2>2, <2>3, <2>4, <2>5, <2>6, <2>7, <2>8
<1>20. ASSUME RestartPod PROVE Inv'
  <2>1. TypeOK'
    <3>1. pc' \in [Procs -> FetchSteps \cup JobSteps]
      BY <1>20 DEF RestartPod, Dead, TypeOK, FetchSteps, JobSteps, Recovering
    <3>2. \A f \in Fetchers : pc'[f] \in FetchSteps
      BY <1>20 DEF RestartPod, Dead, TypeOK, FetchSteps, JobSteps, Recovering
    <3>3. \A j \in Jobs : pc'[j] \in JobSteps
      BY <1>20 DEF RestartPod, Dead, TypeOK, FetchSteps, JobSteps, Recovering
    <3>4. staging' \in [Jobs -> Dirs]
      BY <1>20 DEF RestartPod, Dead, TypeOK, Dirs, Logins
    <3> QED BY <1>20, <3>1, <3>2, <3>3, <3>4 DEF RestartPod, Dead, TypeOK, Dirs, Logins
  <2>2. Exclusive'
    BY <1>20 DEF RestartPod, Dead, Exclusive, Critical, TypeOK, Logins
  <2>3. Settled'
    BY <1>20 DEF RestartPod, Dead, Settled, Critical, Exclusive, Sound, SetAside, TypeOK, Logins
  <2>4. SetAside'
    BY <1>20 DEF RestartPod, Dead, SetAside, Settled, Sound, Marked, TypeOK, Logins
  <2>5. Marked'
    BY <1>20 DEF RestartPod, Dead, Marked, Exclusive, Critical, TypeOK, Logins
  <2>6. Unused'
    BY <1>20 DEF RestartPod, Dead, Unused, Before, Staged, TypeOK, Logins
  <2>7. Staged'
    BY <1>20 DEF RestartPod, Dead, Staged, TypeOK, Logins
  <2>8. Swapped'
    BY <1>20 DEF RestartPod, Dead, Swapped, Unused, Before, Staged, Exclusive, Critical, TypeOK, Logins
  <2> QED BY <2>1, <2>2, <2>3, <2>4, <2>5, <2>6, <2>7, <2>8
<1>21. ASSUME NEW t \in Fetchers, FailFetch(t) PROVE Inv'
  <2>1. TypeOK'
    <3>1. pc' \in [Procs -> FetchSteps \cup JobSteps]
      BY <1>21 DEF FailFetch, MayRaise, Release, TypeOK, FetchSteps, JobSteps, Recovering
    <3>2. \A f \in Fetchers : pc'[f] \in FetchSteps
      BY <1>21 DEF FailFetch, MayRaise, Release, TypeOK, FetchSteps, JobSteps, Recovering
    <3>3. \A j \in Jobs : pc'[j] \in JobSteps
      BY <1>21 DEF FailFetch, MayRaise, Release, TypeOK, FetchSteps, JobSteps, Recovering
    <3>4. staging' \in [Jobs -> Dirs]
      BY <1>21 DEF FailFetch, MayRaise, Release, TypeOK, Dirs, Logins
    <3> QED BY <1>21, <3>1, <3>2, <3>3, <3>4 DEF FailFetch, MayRaise, Release, TypeOK, Dirs, Logins
  <2>2. Exclusive'
    BY <1>21 DEF FailFetch, MayRaise, Release, Exclusive, Critical, TypeOK, Logins
  <2>3. Settled'
    BY <1>21 DEF FailFetch, MayRaise, Release, Settled, Critical, Exclusive, Sound, SetAside, TypeOK, Logins
  <2>4. SetAside'
    BY <1>21 DEF FailFetch, MayRaise, Release, SetAside, Settled, Sound, Marked, TypeOK, Logins
  <2>5. Marked'
    BY <1>21 DEF FailFetch, MayRaise, Release, Marked, Exclusive, Critical, TypeOK, Logins
  <2>6. Unused'
    BY <1>21 DEF FailFetch, MayRaise, Release, Unused, Before, Staged, TypeOK, Logins
  <2>7. Staged'
    BY <1>21 DEF FailFetch, MayRaise, Release, Staged, TypeOK, Logins
  <2>8. Swapped'
    BY <1>21 DEF FailFetch, MayRaise, Release, Swapped, Unused, Before, Staged, Exclusive, Critical, TypeOK, Logins
  <2> QED BY <2>1, <2>2, <2>3, <2>4, <2>5, <2>6, <2>7, <2>8
<1>22. CASE UNCHANGED vars
  BY <1>22 DEF vars, TypeOK, Exclusive, Settled, Sound, SetAside, Marked, Unused, Staged, Critical, Swapped
<1> QED BY <1>1, <1>2, <1>3, <1>4, <1>5, <1>6, <1>7, <1>8, <1>9, <1>10, <1>11, <1>12, <1>13, <1>14, <1>15, <1>16, <1>17, <1>18, <1>19, <1>20, <1>21, <1>22
  DEF Next, FetchStep, InstallStep

-----------------------------------------------------------------------------
(* The theorems *)

LEMMA InvInit == Init => Inv
<1> SUFFICES ASSUME Init PROVE Inv
  OBVIOUS
<1> USE NamesAssumption DEF Init
<1>1. pc \in [Procs -> FetchSteps \cup JobSteps] /\ \A t \in Procs : pc[t] = "idle"
  BY DEF FetchSteps
<1>2. TypeOK
  <2>1. (\A f \in Fetchers : pc[f] \in FetchSteps) /\ (\A j \in Jobs : pc[j] \in JobSteps)
    BY <1>1 DEF Procs, FetchSteps, JobSteps
  <2>2. home \in Dirs /\ prev \in Dirs /\ staging \in [Jobs -> Dirs] /\ wanted \in Logins \cup {Absent}
    BY DEF Dirs, Logins
  <2>3. deaths \in 0..MaxDeaths
    OBVIOUS
  <2> QED BY <1>1, <2>1, <2>2, <2>3 DEF TypeOK
<1>3. Exclusive /\ Settled /\ Marked /\ Swapped
  BY <1>1 DEF Exclusive, Critical, Settled, Marked, Swapped, Procs
<1>4. SetAside
  BY DEF SetAside
<1>5. Unused /\ Staged
  BY <1>1 DEF Unused, Staged, Logins, Procs
<1> QED BY <1>2, <1>3, <1>4, <1>5 DEF Inv

LEMMA Invariance == Spec => []Inv
<1>1. Init => Inv
  BY InvInit
<1>2. Inv /\ [Next]_vars => Inv'
  BY InvStep
<1> QED BY <1>1, <1>2, PTL DEF Spec

\* The types hold in every reachable state of the fetches, the ceremonies and the
\* directories, deaths included.
THEOREM HomeTypeCorrect == Spec => []TypeOK
<1>1. Inv => TypeOK
  BY DEF Inv
<1> QED BY <1>1, Invariance, PTL

\* Whatever is killed and whenever, the next process to take the lock finds the
\* login that was installed last, or was there before.
THEOREM LoginIsKept == Spec => []LoginKept
<1>1. Inv => LoginKept
  BY NamesAssumption DEF Inv, SetAside, TypeOK, LoginKept, Login, Logins
<1> QED BY <1>1, Invariance, PTL

\* The CLI of a fetch always runs on that login.
THEOREM FetchesSeeLogin == Spec => []FetchSeesLogin
<1>1. Inv => FetchSeesLogin
  BY DEF Inv, Settled, Sound, FetchSeesLogin, Procs
<1> QED BY <1>1, Invariance, PTL

LEMMA FailureStep ==
  ASSUME Inv, [Next]_vars, NEW j \in Jobs, pc[j] # "failed", pc'[j] = "failed"
  PROVE  \/ wanted' # j /\ Login' # j
         \/ wanted' = j /\ home' = j /\ marker'
<1> USE NamesAssumption DEF Inv, Procs, Goto, dirs
<1>1. CASE GiveUp(j)
  <2>1. home' # j /\ prev' # j /\ wanted' # j
    BY <1>1 DEF GiveUp, Unused, Before
  <2> QED BY <2>1 DEF Login, Logins
<1>2. CASE FailInstall(j)
  <2>1. CASE pc[j] = "clear"
    <3>1. UNCHANGED <<home, prev, marker, wanted>> /\ marker
      BY <1>2, <2>1 DEF FailInstall, Marked
    <3>2. CASE wanted = Absent
      BY <2>1, <3>1, <3>2 DEF Swapped, Login, Logins
    <3>3. CASE wanted = j
      BY <2>1, <3>1, <3>3 DEF Settled, Sound, Logins
    <3> QED BY <2>1, <3>2, <3>3 DEF Swapped
  <2>2. CASE pc[j] # "clear"
    <3>1. home' # j /\ prev' # j /\ wanted' # j
      BY <1>2, <2>2 DEF FailInstall, MayRaise, Unused, Before
    <3> QED BY <3>1 DEF Login, Logins
  <2> QED BY <2>1, <2>2
<1>3. GiveUp(j) \/ FailInstall(j)
  <2>1. pc \in [Procs -> FetchSteps \cup JobSteps]
    BY DEF TypeOK
  <2>2. ASSUME NEW t \in Procs, TakeLock(t) \/ Recover(t) \/ Unmark(t) \/ SweepPrev(t)
        PROVE  pc'[j] # "failed"
    BY <2>1, <2>2 DEF TakeLock, Recover, Unmark, SweepPrev
  <2>3. ASSUME NEW f \in Fetchers, OpenHome(f) \/ RunCommand(f) \/ FailFetch(f)
        PROVE  pc'[j] # "failed"
    BY <2>1, <2>3 DEF OpenHome, RunCommand, FailFetch
  <2>4. ASSUME NEW k \in Jobs, MakeStaging(k) \/ SignIn(k) \/ LookForHome(k) \/ Mark(k)
                                \/ MoveOut(k) \/ MoveIn(k) \/ ClearMarker(k) \/ DropPrev(k)
                                \/ Leave(k)
        PROVE  pc'[j] # "failed"
    BY <2>1, <2>4 DEF MakeStaging, SignIn, LookForHome, Mark, MoveOut, MoveIn, ClearMarker,
                      DropPrev, Leave
  <2>5. ASSUME NEW k \in Jobs, k # j, GiveUp(k) \/ FailInstall(k)
        PROVE  pc'[j] # "failed"
    BY <2>1, <2>5 DEF GiveUp, FailInstall
  <2>6. ASSUME NEW k \in Jobs, KillCeremony(k)
        PROVE  pc'[j] # "failed"
    BY <2>1, <2>6 DEF KillCeremony, Dead
  <2>7. ASSUME RestartPod \/ SignOut \/ UNCHANGED vars
        PROVE  pc'[j] # "failed"
    BY <2>1, <2>7 DEF RestartPod, Dead, SignOut, vars
  <2> QED BY <2>2, <2>3, <2>4, <2>5, <2>6, <2>7 DEF Next, FetchStep, InstallStep
<1> QED BY <1>1, <1>2, <1>3

\* A ceremony that reports a failure, at whichever step, has left the login alone, or
\* its own is in place and the marker is still there.
THEOREM FailuresAreMarked == Spec => FailedOrMarked
<1>1. Inv /\ [Next]_vars =>
        [\A j \in Jobs : pc[j] # "failed" /\ pc'[j] = "failed" =>
           \/ wanted' # j /\ Login' # j
           \/ wanted' = j /\ home' = j /\ marker']_vars
  BY FailureStep
<1> QED BY <1>1, Invariance, PTL DEF Spec, FailedOrMarked
=============================================================================

--------------------------- MODULE AntigravityHome ---------------------------
(***************************************************************************)
(* The Antigravity home directory: enrolment signs in inside a staging     *)
(* directory beside it (cli.py, login_antigravity) and swaps that into     *)
(* place; each fetch runs the agy CLI in the home (server/                 *)
(* fetch_antigravity.py). Both first settle a swap that died part-way,     *)
(* under one file lock. The operator signs out by deleting the home, and   *)
(* asks nobody for the lock.                                               *)
(*                                                                         *)
(* A directory is known by the login inside: Old, the job that signed in,  *)
(* or Blank.                                                               *)
(***************************************************************************)
EXTENDS Naturals

CONSTANTS
  Jobs,       \* the sign-in ceremonies, of the login pane or of kubectl exec
  Fetchers,   \* the server's threads that fetch
  Old,        \* the login of an earlier time
  Blank,      \* a directory without a login
  Absent,     \* no directory
  Nobody,
  MaxDeaths   \* bound: processes killed, pods restarted

Procs == Jobs \cup Fetchers
Logins == Jobs \cup {Old}
Dirs == Logins \cup {Blank, Absent}

ASSUME NamesAssumption ==
  /\ Jobs \cap Fetchers = {} /\ Nobody \notin Procs
  /\ Old \notin Jobs /\ {Blank, Absent} \cap Logins = {} /\ Blank # Absent
  /\ MaxDeaths \in Nat

VARIABLES
  home,     \* <home>
  prev,     \* <home>.prev
  marker,   \* whether <home>.swapping exists
  staging,  \* the staging directory of each ceremony
  lock,     \* who holds <home>.lock
  hadHome,  \* had_home of the install under way
  pc,
  deaths,
  wanted    \* history: the login last installed, Absent once the operator signed out

dirs == <<home, prev, marker, staging>>
vars == <<dirs, lock, hadHome, pc, deaths, wanted>>

Goto(t, step) == pc' = [pc EXCEPT ![t] = step]
Release == lock' = Nobody

-----------------------------------------------------------------------------
(* home_lock and _recover_interrupted_swap, for a fetch and for an install *)

TakeLock(t) ==
  /\ pc[t] = IF t \in Jobs THEN "verified" ELSE "idle"
  /\ lock = Nobody /\ lock' = t
  /\ Goto(t, "recover")
  /\ UNCHANGED <<dirs, hadHome, deaths, wanted>>

\* A slip of Recover: a marker beside a home in place is not looked at.
RecoverMissingHome(t) ==
  /\ pc[t] = "recover"
  /\ IF marker /\ home = Absent /\ prev # Absent
     THEN home' = prev /\ prev' = Absent
     ELSE UNCHANGED <<home, prev>>
  /\ Goto(t, IF marker /\ home = Absent THEN "unmark" ELSE "sweep")
  /\ UNCHANGED <<marker, staging, lock, hadHome, deaths, wanted>>

\* Died between the two renames: the old login is the only one.
Recover(t) ==
  /\ pc[t] = "recover"
  /\ IF marker /\ home = Absent /\ prev # Absent
     THEN home' = prev /\ prev' = Absent
     ELSE UNCHANGED <<home, prev>>
  /\ Goto(t, IF marker THEN "unmark" ELSE "sweep")
  /\ UNCHANGED <<marker, staging, lock, hadHome, deaths, wanted>>

Unmark(t) ==
  /\ pc[t] = "unmark"
  /\ marker' = FALSE
  /\ Goto(t, "sweep")
  /\ UNCHANGED <<home, prev, staging, lock, hadHome, deaths, wanted>>

\* A slip of SweepPrev: a fetch goes on as an install does.
SweepAndLook(t) ==
  /\ pc[t] = "sweep"
  /\ prev' \in {prev, Absent}
  /\ Goto(t, "look")
  /\ UNCHANGED <<home, marker, staging, lock, hadHome, deaths, wanted>>

\* Died after the swap: the old login goes, errors ignored.
SweepPrev(t) ==
  /\ pc[t] = "sweep"
  /\ prev' \in {prev, Absent}
  /\ Goto(t, IF t \in Jobs THEN "look" ELSE "open")
  /\ UNCHANGED <<home, marker, staging, lock, hadHome, deaths, wanted>>

\* Where an OSError leaves home_lock as things are: a rename, an unlink, a marker or
\* a directory to be made. A recovery moves the home back only when it is missing.
MayRaise(t, steps) ==
  /\ pc[t] \in steps
  /\ pc[t] = "recover" => marker /\ home = Absent /\ prev # Absent

-----------------------------------------------------------------------------
(* A fetch: run_usage_command *)

\* The fetch fails, and the scheduler tries again later.
FailFetch(f) ==
  /\ MayRaise(f, {"recover", "unmark", "open"})
  /\ Release /\ Goto(f, "idle")
  /\ UNCHANGED <<dirs, hadHome, deaths, wanted>>

\* makedirs, of the home and of the workspace in it.
OpenHome(f) ==
  /\ pc[f] = "open"
  /\ home' = IF home = Absent THEN Blank ELSE home
  /\ Goto(f, "running")
  /\ UNCHANGED <<prev, marker, staging, lock, hadHome, deaths, wanted>>

\* A slip of RunCommand: the lock is given back before the CLI is waited for.
RunUnlocked(f) ==
  /\ pc[f] = "running"
  /\ \/ lock = f /\ Release /\ UNCHANGED pc
     \/ lock # f /\ Goto(f, "idle") /\ UNCHANGED lock
  /\ UNCHANGED <<dirs, hadHome, deaths, wanted>>

\* The CLI answers, shows its sign-in prompt, times out or cannot start.
RunCommand(f) ==
  /\ pc[f] = "running"
  /\ Release /\ Goto(f, "idle")
  /\ UNCHANGED <<dirs, hadHome, deaths, wanted>>

-----------------------------------------------------------------------------
(* A ceremony: login_antigravity, then install_home *)

\* make_staging_home also sweeps the staging directories of ceremonies long dead.
MakeStaging(j) ==
  /\ pc[j] = "idle" /\ j \in Jobs
  /\ \E stale \in SUBSET {k \in Jobs : pc[k] = "killed"} :
       staging' = [k \in Jobs |-> IF k = j THEN Blank ELSE IF k \in stale THEN Absent ELSE staging[k]]
  /\ Goto(j, "signing in")
  /\ UNCHANGED <<home, prev, marker, lock, hadHome, deaths, wanted>>

\* The operator pastes the code and a usage read verifies the login.
SignIn(j) ==
  /\ pc[j] = "signing in"
  /\ staging' = [staging EXCEPT ![j] = j]
  /\ Goto(j, "verified")
  /\ UNCHANGED <<home, prev, marker, lock, hadHome, deaths, wanted>>

\* A slip of GiveUp: SIGTERM is not ignored once the login is verified.
GiveUpLate(j) ==
  /\ pc[j] \in {"signing in", "drop", "leave"}
  /\ staging' = [staging EXCEPT ![j] = Absent]
  /\ lock' = IF lock = j THEN Nobody ELSE lock
  /\ Goto(j, "failed")
  /\ UNCHANGED <<home, prev, marker, hadHome, deaths, wanted>>

\* A timeout, a wrong code, a cancel: the existing login is untouched.
GiveUp(j) ==
  /\ pc[j] = "signing in"
  /\ staging' = [staging EXCEPT ![j] = Absent]
  /\ Goto(j, "failed")
  /\ UNCHANGED <<home, prev, marker, lock, hadHome, deaths, wanted>>

LookForHome(j) ==
  /\ pc[j] = "look"
  /\ hadHome' = (home # Absent)
  /\ Goto(j, IF home # Absent THEN "mark" ELSE "move in")
  /\ UNCHANGED <<dirs, lock, deaths, wanted>>

\* A slip of Mark: the marker is not made.
MarkNothing(j) ==
  /\ pc[j] = "mark"
  /\ Goto(j, "move out")
  /\ UNCHANGED <<dirs, lock, hadHome, deaths, wanted>>

Mark(j) ==
  /\ pc[j] = "mark"
  /\ marker' = TRUE
  /\ Goto(j, "move out")
  /\ UNCHANGED <<home, prev, staging, lock, hadHome, deaths, wanted>>

\* rename(home, prev): the operator may have deleted the one, and the other may
\* have resisted its removal.
MoveOut(j) ==
  /\ pc[j] = "move out"
  /\ home # Absent /\ prev = Absent
  /\ prev' = home /\ home' = Absent
  /\ Goto(j, "move in")
  /\ UNCHANGED <<marker, staging, lock, hadHome, deaths, wanted>>

\* rename(staging, home): the new login is live.
MoveIn(j) ==
  /\ pc[j] = "move in"
  /\ home = Absent
  /\ home' = staging[j] /\ staging' = [staging EXCEPT ![j] = Absent]
  /\ wanted' = j
  /\ Goto(j, IF hadHome THEN "clear" ELSE "leave")
  /\ UNCHANGED <<prev, marker, lock, hadHome, deaths>>

\* The ceremony reports a failure, also of unlink(marker) after the swap, and removes
\* its staging directory.
FailInstall(j) ==
  /\ MayRaise(j, {"recover", "unmark", "mark", "move out", "move in", "clear"})
  /\ Release
  /\ staging' = [staging EXCEPT ![j] = Absent]
  /\ Goto(j, "failed")
  /\ UNCHANGED <<home, prev, marker, hadHome, deaths, wanted>>

ClearMarker(j) ==
  /\ pc[j] = "clear"
  /\ marker' = FALSE
  /\ Goto(j, "drop")
  /\ UNCHANGED <<home, prev, staging, lock, hadHome, deaths, wanted>>

\* rmtree(prev), errors ignored.
DropPrev(j) ==
  /\ pc[j] = "drop"
  /\ prev' \in {prev, Absent}
  /\ Goto(j, "leave")
  /\ UNCHANGED <<home, marker, staging, lock, hadHome, deaths, wanted>>

Leave(j) ==
  /\ pc[j] = "leave"
  /\ Release /\ Goto(j, "done")
  /\ UNCHANGED <<dirs, hadHome, deaths, wanted>>

-----------------------------------------------------------------------------
(* The rest of the world *)

\* The operator deletes the home.
SignOut ==
  /\ home # Absent
  /\ home' = Absent /\ wanted' = Absent
  /\ UNCHANGED <<prev, marker, staging, lock, hadHome, pc, deaths>>

\* A ceremony is killed, or the pod restarts. The lock is the kernel's to release.
Dead(victims) ==
  /\ deaths < MaxDeaths /\ deaths' = deaths + 1
  /\ pc' = [t \in Procs |-> IF t \notin victims THEN pc[t]
                            ELSE IF t \in Fetchers THEN "idle"
                            ELSE IF pc[t] \in {"idle", "done", "failed"} THEN pc[t] ELSE "killed"]
  /\ lock' = IF lock \in victims THEN Nobody ELSE lock
  /\ UNCHANGED <<dirs, hadHome, wanted>>

KillCeremony(j) == pc[j] \notin {"idle", "done", "failed", "killed"} /\ Dead({j})
RestartPod == Dead(Procs)

-----------------------------------------------------------------------------
Init ==
  /\ home \in {Old, Blank, Absent} /\ prev = Absent /\ marker = FALSE
  /\ staging = [j \in Jobs |-> Absent]
  /\ lock = Nobody /\ hadHome = FALSE
  /\ pc = [t \in Procs |-> "idle"]
  /\ deaths = 0
  /\ wanted = IF home = Old THEN Old ELSE Absent

FetchStep(f) ==
  \/ TakeLock(f) \/ Recover(f) \/ Unmark(f) \/ SweepPrev(f)
  \/ OpenHome(f) \/ RunCommand(f) \/ FailFetch(f)
InstallStep(j) ==
  \/ TakeLock(j) \/ Recover(j) \/ Unmark(j) \/ SweepPrev(j)
  \/ LookForHome(j) \/ Mark(j) \/ MoveOut(j) \/ MoveIn(j) \/ FailInstall(j)
  \/ ClearMarker(j) \/ DropPrev(j) \/ Leave(j)

Next ==
  \/ \E f \in Fetchers : FetchStep(f)
  \/ \E j \in Jobs : MakeStaging(j) \/ SignIn(j) \/ GiveUp(j) \/ InstallStep(j) \/ KillCeremony(j)
  \/ SignOut
  \/ RestartPod

Spec == Init /\ [][Next]_vars

\* The loop keeps polling, the CLI's run is bounded by a timeout, and an install
\* that has begun goes on. A rename or an unlink that is tried again and again succeeds
\* some time: the disk does not stay read-only. Nothing is assumed of which waiter the
\* lock goes to, and no operator has to act.
Fairness ==
  /\ \A f \in Fetchers : WF_vars(FetchStep(f))
  /\ \A j \in Jobs : WF_vars(InstallStep(j))
  /\ SF_vars(\E t \in Procs : Recover(t)) /\ SF_vars(\E t \in Procs : Unmark(t))
FairSpec == Spec /\ Fairness

-----------------------------------------------------------------------------
(* Properties *)

Recovering == {"recover", "unmark", "sweep"}
FetchSteps == Recovering \cup {"idle", "open", "running"}
JobSteps == Recovering \cup
  {"idle", "signing in", "verified", "look", "mark", "move out", "move in", "clear", "drop",
   "leave", "done", "failed", "killed"}

\* The shape of every variable.
TypeOK ==
  /\ home \in Dirs /\ prev \in Dirs /\ marker \in BOOLEAN
  /\ staging \in [Jobs -> Dirs]
  /\ lock \in Procs \cup {Nobody} /\ hadHome \in BOOLEAN
  /\ pc \in [Procs -> FetchSteps \cup JobSteps]
  /\ (\A f \in Fetchers : pc[f] \in FetchSteps) /\ (\A j \in Jobs : pc[j] \in JobSteps)
  /\ deaths \in 0..MaxDeaths /\ wanted \in Logins \cup {Absent}

\* The login that the next process to take the lock finds.
Login ==
  IF home \in Logins THEN home
  ELSE IF home = Absent /\ marker /\ prev \in Logins THEN prev
  ELSE Absent

\* No kill, pod restart or failed rename loses a login: the one installed last, or
\* the one from before until then, is in the home or is put back by the next process
\* that takes the lock.
LoginKept == wanted # Absent => Login = wanted

\* A fetch runs the CLI on the login there is, never on a half-moved or blank home
\* beside it: the tile does not ask an operator who is signed in to sign in again.
FetchSeesLogin ==
  \A f \in Fetchers : pc[f] = "running" /\ wanted # Absent => home = wanted

\* A ceremony that reports a failure ("your existing login is unchanged") has not
\* changed the login, but for one case: its own login is in place, whole, and all that
\* failed was to remove the marker, which is still there for the next process to settle.
FailedOrMarked ==
  [][\A j \in Jobs : pc[j] # "failed" /\ pc'[j] = "failed" =>
       \/ wanted' # j /\ Login' # j
       \/ wanted' = j /\ home' = j /\ marker']_vars

\* A crash mid-swap is undone by the next fetch: no swap stays half-made.
SwapSettles == marker ~> ~ marker
=============================================================================

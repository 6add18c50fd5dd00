------------------------------- MODULE Updater -------------------------------
(***************************************************************************)
(* The auto-updater of a panel (deploy/pi/update.sh), run by a timer: it   *)
(* fetches the tracked ref, resets the checkout, installs and imports the  *)
(* new code, rolls back when that fails, restarts the GUI when it works    *)
(* and leaves a breadcrumb for the diagnostics overlay. It then runs the   *)
(* redeploy of module Redeploy. Power may be lost at any step.             *)
(***************************************************************************)
EXTENDS Redeploy

CONSTANT NoRev   \* the tracked ref is gone from origin, or no revision

VARIABLES
  remote,     \* what the tracked ref names on origin
  localRev,   \* local_rev of the run
  remoteRev,  \* remote_rev of the run
  check,      \* update-last-check: its result and revision
  unwritten,  \* history: the last breadcrumb could not be written
  jammed,     \* power was lost inside a git reset, whose index.lock is still there
  failure,    \* what the rollback will report
  cut,        \* the last run was cut short
  worked,     \* the checkout was whole and its code worked when the run began
  warned      \* the run logged that a reset, or the install of its rollback, failed

run == <<localRev, remoteRev, failure, worked, warned>>
unit == <<files, gui, applying>>
crumb == <<check, unwritten>>
git == <<remote, jammed>>
vars == <<work, unit, faults, pc, git, crumb, cut, run>>

\* Best effort: a write that fails, after n other faults of the step, leaves the
\* breadcrumb before it, at worst.
Crumb(result, rev, n) ==
  \/ check' = [result |-> result, rev |-> rev] /\ unwritten' = FALSE /\ Faults(n)
  \/ unwritten' = TRUE /\ UNCHANGED check /\ Faults(n + 1)

\* A run that reports a result and still redeploys.
Report(result, rev, n) == Crumb(result, rev, n) /\ Goto("redeploy")

Texts(r) == [c \in Components |-> Content[c][r]]

\* git reset --hard: the working tree, files in the order of their paths (deploy/ before
\* src/) once it has removed what goes, then HEAD.
HeadTo(r) == checkout' = r /\ tree' = Texts(r) /\ code' = r
StopsHalfway(r) ==
  /\ tree' \in {t \in [Components -> Versions] : \A c \in Components : t[c] \in {tree[c], Content[c][r]}}
  /\ code' \in {code, Mixture} \cup (IF tree' = Texts(r) THEN {r} ELSE {})
  /\ UNCHANGED checkout
Whole == code = checkout /\ tree = Texts(checkout)

-----------------------------------------------------------------------------
(* One run of the script *)

\* The timer fires; a checkout that cannot be read is reported.
Tick ==
  /\ At("idle")
  /\ localRev' = checkout /\ remoteRev' = NoRev /\ failure' = "none"
  /\ worked' = (Whole /\ CodeWorks) /\ warned' = FALSE /\ cut' = FALSE
  /\ \/ Goto("fetch") /\ UNCHANGED <<crumb, faults>>
     \/ Report("no-checkout", NoRev, 1)
  /\ Fresh
  /\ UNCHANGED <<work, files, gui, git>>

\* A slip of Fetch: a run that finds nothing to update leaves at once.
FetchAndLeave ==
  /\ At("fetch")
  /\ \/ /\ remote # NoRev /\ remote # localRev
        /\ Goto("reset")
        /\ UNCHANGED <<crumb, faults>>
     \/ /\ remote = localRev
        /\ Crumb("up-to-date", localRev, 0) /\ Goto("idle")
     \/ /\ remote = NoRev
        /\ Report("bad-ref", localRev, 0)
  /\ remoteRev' = remote
  /\ UNCHANGED <<work, unit, git, cut, localRev, failure, worked, warned>>

\* git fetch and rev-parse FETCH_HEAD. A ref that origin does not have is told from
\* an outage by a second query.
Fetch ==
  /\ At("fetch")
  /\ \/ /\ remote # NoRev /\ remote # localRev
        /\ remoteRev' = remote
        /\ Goto("reset")
        /\ UNCHANGED <<crumb, faults>>
     \/ /\ remote = localRev
        /\ remoteRev' = remote
        /\ Report("up-to-date", localRev, 0)
     \/ /\ remote = NoRev
        /\ Report("bad-ref", localRev, 0)
        /\ UNCHANGED remoteRev
     \/ /\ Report("fetch-failed", localRev, 1)
        /\ UNCHANGED remoteRev
  /\ UNCHANGED <<work, unit, git, cut, localRev, failure, worked, warned>>

\* A failing reset may have changed part of the working tree; one that finds the lock
\* of another git does not begin.
Reset ==
  /\ At("reset")
  /\ \/ /\ ~ jammed /\ HeadTo(remoteRev)
        /\ Goto("pip")
        /\ UNCHANGED <<crumb, faults, warned>>
     \/ /\ jammed /\ UNCHANGED <<checkout, tree, code>>
        /\ warned' = TRUE /\ Report("reset-failed", localRev, 0)
     \/ /\ ~ jammed /\ StopsHalfway(remoteRev)
        /\ warned' = TRUE /\ Report("reset-failed", localRev, 1)
  /\ UNCHANGED <<venv, unit, git, cut, localRev, remoteRev, failure, worked>>

\* pip takes its time over the venv.
Pip ==
  /\ At("pip")
  /\ venv' = Partial
  /\ Goto("installing")
  /\ UNCHANGED <<checkout, tree, code, unit, faults, git, crumb, cut, run>>

EndPip ==
  /\ At("installing")
  /\ \/ /\ venv' = Deps[checkout]
        /\ Goto("smoke check")
        /\ UNCHANGED <<faults, failure>>
     \/ /\ Fault
        /\ failure' = "pip-failed"
        /\ Goto("roll back")
        /\ UNCHANGED venv
  /\ UNCHANGED <<checkout, tree, code, unit, git, crumb, cut, localRev, remoteRev, worked, warned>>

SmokeCheck ==
  /\ At("smoke check")
  /\ IF CodeWorks
     THEN Goto("restart") /\ UNCHANGED failure
     ELSE Goto("roll back") /\ failure' = "import-failed"
  /\ UNCHANGED <<work, unit, faults, git, crumb, cut, localRev, remoteRev, worked, warned>>

\* rollback: under set -e a failing reset ends the script.
RollBack ==
  /\ At("roll back")
  /\ \/ /\ ~ jammed /\ HeadTo(localRev) /\ venv' = Partial
        /\ Goto("reinstalling")
        /\ UNCHANGED <<faults, cut>>
     \/ /\ \/ jammed /\ UNCHANGED <<checkout, tree, code, faults>>
           \/ ~ jammed /\ Fault /\ StopsHalfway(localRev)
        /\ cut' = TRUE
        /\ Goto("idle")
        /\ UNCHANGED venv
  /\ UNCHANGED <<unit, git, crumb, run>>

\* A slip of Reinstall: the rollback stops at the checkout.
ResetOnly ==
  /\ At("reinstalling")
  /\ Crumb(failure, localRev, 0)
  /\ Goto("idle")
  /\ UNCHANGED <<work, unit, git, cut, run>>

\* The failure is reported and the script ends without a redeploy.
Reinstall ==
  /\ At("reinstalling")
  /\ \/ venv' = Deps[checkout] /\ UNCHANGED warned /\ Crumb(failure, localRev, 0)
     \/ UNCHANGED venv /\ warned' = TRUE /\ Crumb(failure, localRev, 1)
  /\ Goto("idle")
  /\ UNCHANGED <<checkout, tree, code, unit, git, cut, localRev, remoteRev, failure, worked>>

\* systemctl restart, which also starts a stopped panel; its failure ends the script.
RestartApp ==
  /\ At("restart")
  /\ \/ /\ gui' = Started
        /\ Report("updated", remoteRev, 0)
        /\ UNCHANGED cut
     \/ /\ Fault
        /\ cut' = TRUE
        /\ Goto("idle")
        /\ UNCHANGED <<gui, crumb>>
  /\ UNCHANGED <<work, files, applying, git, run>>

ScriptNext ==
  \/ Tick \/ Fetch \/ Reset \/ Pip \/ EndPip \/ SmokeCheck
  \/ RollBack \/ Reinstall \/ RestartApp

-----------------------------------------------------------------------------
(* The world around it *)

\* A push, a new pin, or a branch deleted after its merge. Only Fetch reads what the
\* ref names, so a push at any other step is one just before a fetch.
Push(r) ==
  /\ At("fetch")
  /\ remote' = r /\ r # remote
  /\ UNCHANGED <<work, unit, faults, pc, jammed, crumb, cut, run>>

\* After a power loss systemd reads the units anew and starts the GUI. A git reset that
\* it stopped leaves a lock that only an operator removes.
PowerLoss ==
  /\ Fault
  /\ cut' = (cut \/ ~ At("idle"))
  /\ \/ UNCHANGED <<checkout, tree, code, jammed>>
     \/ /\ pc \in {"reset", "roll back"} /\ ~ jammed /\ jammed' = TRUE
        /\ StopsHalfway(IF At("reset") THEN remoteRev ELSE localRev)
  /\ Reloaded /\ service' = [c \in Serves |-> installed[c]]
  /\ gui' = "waiting"
  /\ Goto("idle")
  /\ UNCHANGED <<venv, installed, applying, remote, crumb, run>>

Init ==
  /\ checkout \in Imports /\ remote = checkout /\ venv = Deps[checkout]
  /\ tree = Texts(checkout) /\ code = checkout /\ jammed = FALSE
  /\ installed = [c \in Components |-> Content[c][checkout]]
  /\ loaded = [c \in Units |-> installed[c]]
  /\ service = [c \in Serves |-> installed[c]]
  /\ gui = Started
  /\ next = 1 /\ backups = NoBackups /\ before = installed /\ lost = {}
  /\ unread = FALSE
  /\ faults = 0 /\ pc = "idle"
  /\ localRev = checkout /\ remoteRev = NoRev
  /\ check = [result |-> "none", rev |-> checkout] /\ unwritten = FALSE
  /\ failure = "none" /\ cut = FALSE /\ worked = TRUE /\ warned = FALSE

Redeploying == ApplyNext /\ UNCHANGED <<git, crumb, cut, run>>
Next ==
  \/ ScriptNext \/ Redeploying
  \/ GuiNext /\ UNCHANGED <<git, crumb, cut, run>>
  \/ \E r \in Revs \cup {NoRev} : Push(r)
  \/ PowerLoss

Spec == Init /\ [][Next]_vars

\* The timer fires again and a run that has begun goes on; systemd restarts the GUI.
Fairness == WF_vars(ScriptNext \/ Redeploying)
FairSpec == Spec /\ Fairness

-----------------------------------------------------------------------------
(* Properties *)

Places == {"idle", "fetch", "reset", "pip", "installing", "smoke check", "roll back",
           "reinstalling", "restart", "redeploy", "examine", "reload", "serve", "bounce",
           "restart gui", "look again", "restore", "reload again", "restart again"}
Results == {"none", "no-checkout", "fetch-failed", "bad-ref", "up-to-date", "reset-failed",
            "pip-failed", "import-failed", "updated"}
Statuses == {"active", "doomed", "waiting", "stopped"}

Crumbs == [result : Results, rev : Revs \cup {NoRev}]

\* The shape of every variable.
TypeOK ==
  /\ checkout \in Revs /\ tree \in [Components -> Versions] /\ code \in Revs \cup {Mixture}
  /\ venv \in {Deps[r] : r \in Revs} \cup {Partial}
  /\ installed \in [Components -> Versions] /\ loaded \in [Units -> Versions]
  /\ service \in [Serves -> Versions]
  /\ gui \in Statuses
  /\ next \in 1..(Len(Order) + 1)
  /\ backups \in [Components -> Versions \cup {NoVersion}]
  /\ before \in [Components -> Versions] /\ lost \subseteq Components
  /\ unread \in BOOLEAN /\ unwritten \in BOOLEAN /\ jammed \in BOOLEAN
  /\ faults \in 0..MaxFaults /\ pc \in Places
  /\ remote \in Revs \cup {NoRev} /\ localRev \in Revs /\ remoteRev \in Revs \cup {NoRev}
  /\ check \in Crumbs
  /\ failure \in {"none", "pip-failed", "import-failed"}
  /\ cut \in BOOLEAN /\ worked \in BOOLEAN /\ warned \in BOOLEAN

\* A run that was not cut short, however it ended, leaves a breadcrumb that names the
\* revision HEAD is at, or none it could write; and it never turns a whole checkout that
\* would boot the panel into one that would not, except when it has logged that a reset
\* or the install of its rollback failed.
EndsSound ==
  At("idle") /\ ~ cut =>
    /\ check.rev = checkout \/ check.result = "no-checkout" \/ unwritten
    /\ worked => CodeWorks \/ warned

\* Once the tracked ref stays at a revision that installs, the checkout gets there,
\* whatever failed or was cut short before (an outage, a bad pin, a power loss), unless
\* power was lost inside git. And if the checkout is whole and its code works, every
\* component the verifier accepts follows. (With a venv left broken, each redeploy takes
\* the GUI's death for the fault of the files it has just installed and puts the old ones
\* back. A tree that a reset left halfway is not noticed while HEAD is where the ref is.)
Harmless(r) == r \in Imports /\ \A c \in Bounces : <<c, Content[c][r]>> \notin Fatal
InSync(r) ==
  \A c \in Components : <<c, Content[c][r]>> \notin Unverifiable => installed[c] = Content[c][r]
InfraFollows ==
  \A r \in Revs : Harmless(r) =>
    /\ <>[](remote = r /\ ~ jammed) => <>[](checkout = r)
    /\ <>[](checkout = r /\ Whole /\ CodeWorks) => <>[]InSync(r)
=============================================================================

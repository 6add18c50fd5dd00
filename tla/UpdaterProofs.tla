---------------------------- MODULE UpdaterProofs ----------------------------
(***************************************************************************)
(* Theorems about Updater and Redeploy, for any revisions, components and  *)
(* number of faults: a rollback restores what it changed, and a run that   *)
(* was not cut short ends sound.                                           *)
(***************************************************************************)
EXTENDS Updater, TLAPS

-----------------------------------------------------------------------------
(* The inductive invariant *)

\* Where apply has not put anything back, a component is the one that was installed when
\* it began, or has its backup in the report and the working tree's text in its place.
Backing == {"examine", "reload", "serve", "bounce", "restart gui", "look again", "restore"}
BackedUp(c) ==
  IF backups[c] = NoVersion THEN installed[c] = before[c]
  ELSE backups[c] = before[c] /\ installed[c] = tree[c]
BackupsHold == pc \in Backing => \A c \in Components : BackedUp(c)

\* Once it has, the GUI's files are those of the beginning, and then systemd reads them,
\* unless its reload fails.
RestoredHold ==
  /\ pc \in {"reload again", "restart again"} =>
       \A c \in Bounces \ lost : installed[c] = before[c]
  /\ pc = "restart again" => unread \/ \A c \in Units : loaded[c] = installed[c]

\* Until it resets the checkout, a run leaves the code as it found it; then it knows a
\* revision that works to go back to, and one it has moved to.
UntouchedHold ==
  pc \in {"fetch", "reset"} => localRev = checkout /\ (worked => Whole /\ CodeWorks)
NamedHold == pc = "reset" => remoteRev \in Revs
ReturnHold ==
  pc \in {"pip", "installing", "smoke check", "roll back", "reinstalling"} =>
    (worked => localRev \in Imports)
MovedHold == pc \in {"pip", "installing", "smoke check", "restart"} => remoteRev = checkout
RolledHold == pc = "reinstalling" => localRev = checkout /\ code = checkout
RestartHold == pc = "restart" => CodeWorks

\* From its report on, what a run leaves behind stands.
Told == check.rev = checkout \/ check.result = "no-checkout" \/ unwritten
Works == worked => CodeWorks \/ warned
ReportHold == pc \in Backing \cup {"redeploy", "reload again", "restart again"} => Told /\ Works

ScriptHold ==
  /\ UntouchedHold /\ NamedHold /\ ReturnHold /\ MovedHold /\ RolledHold /\ RestartHold
  /\ ReportHold /\ EndsSound
Inv == TypeOK /\ BackupsHold /\ RestoredHold /\ ScriptHold

-----------------------------------------------------------------------------
(* The shape of the variables *)

LEMMA StartedShape == Started \in Statuses
  BY DEF Started, Statuses

LEMMA TextIsVersion ==
  ASSUME NEW c \in Components, NEW r \in Revs
  PROVE  Content[c][r] \in Versions /\ Content[c][r] # NoVersion
  BY PanelAssumption DEF Versions

LEMMA FaultShape ==
  ASSUME faults \in 0 .. MaxFaults, Fault \/ UNCHANGED faults
  PROVE  faults' \in 0 .. MaxFaults
  BY PanelAssumption DEF Fault, Faults

LEMMA CrumbShape ==
  ASSUME TypeOK, NEW result \in Results, NEW rev \in Revs \cup {NoRev}, NEW n \in Nat,
         Crumb(result, rev, n)
  PROVE  check' \in Crumbs /\ unwritten' \in BOOLEAN /\ faults' \in 0 .. MaxFaults
<1>1. check \in Crumbs /\ faults \in 0 .. MaxFaults
  BY DEF TypeOK
<1>2. [result |-> result, rev |-> rev] \in Crumbs
  BY DEF Crumbs
<1>3. check' \in Crumbs /\ unwritten' \in BOOLEAN
  BY <1>1, <1>2 DEF Crumb
<1>4. faults' \in 0 .. MaxFaults
  BY <1>1, PanelAssumption DEF Crumb, Faults
<1> QED BY <1>3, <1>4

LEMMA TextsShape ==
  ASSUME NEW r \in Revs
  PROVE  Texts(r) \in [Components -> Versions]
  BY TextIsVersion DEF Texts

\* What a step of the script does to the working tree and to the breadcrumb.
LEMMA TreeShape ==
  ASSUME TypeOK, NamedHold, ScriptNext
  PROVE  checkout' \in Revs /\ tree' \in [Components -> Versions] /\ code' \in Revs \cup {Mixture}
<1>1. /\ checkout \in Revs /\ localRev \in Revs /\ tree \in [Components -> Versions]
      /\ code \in Revs \cup {Mixture}
  BY DEF TypeOK
<1>2. ASSUME NEW r \in Revs, HeadTo(r) \/ StopsHalfway(r)
      PROVE  checkout' \in Revs /\ tree' \in [Components -> Versions] /\ code' \in Revs \cup {Mixture}
  BY <1>1, <1>2, TextsShape DEF HeadTo, StopsHalfway
<1>3. CASE Reset
  <2>1. remoteRev \in Revs
    BY <1>3 DEF Reset, NamedHold, At
  <2> QED BY <1>1, <1>2, <1>3, <2>1 DEF Reset
<1>4. CASE RollBack
  BY <1>1, <1>2, <1>4 DEF RollBack
<1>5. CASE Tick \/ Fetch \/ Pip \/ EndPip \/ SmokeCheck \/ Reinstall \/ RestartApp
  BY <1>1, <1>5 DEF Tick, Fetch, Pip, EndPip, SmokeCheck, Reinstall, RestartApp, work
<1> QED BY <1>3, <1>4, <1>5 DEF ScriptNext

LEMMA ReportShape ==
  ASSUME TypeOK, ScriptNext
  PROVE  check' \in Crumbs /\ unwritten' \in BOOLEAN /\ faults' \in 0 .. MaxFaults
<1>1. /\ localRev \in Revs /\ remoteRev \in Revs \cup {NoRev} /\ check \in Crumbs
      /\ unwritten \in BOOLEAN /\ faults \in 0 .. MaxFaults
      /\ failure \in {"none", "pip-failed", "import-failed"}
  BY DEF TypeOK
<1>2. \/ UNCHANGED crumb /\ (Fault \/ UNCHANGED faults)
      \/ \E result \in Results : \E rev \in Revs \cup {NoRev} : \E n \in {0, 1} : Crumb(result, rev, n)
  <2>1. CASE Tick
    BY <2>1 DEF Tick, Report, Results
  <2>2. CASE Fetch
    BY <1>1, <2>2 DEF Fetch, Report, Results
  <2>3. CASE Reset
    BY <1>1, <2>3 DEF Reset, Report, Results
  <2>4. CASE Reinstall
    BY <1>1, <2>4 DEF Reinstall, Results
  <2>5. CASE RestartApp
    BY <1>1, <2>5 DEF RestartApp, Report, Results
  <2>6. CASE Pip \/ EndPip \/ SmokeCheck \/ RollBack
    BY <2>6 DEF Pip, EndPip, SmokeCheck, RollBack
  <2> QED BY <2>1, <2>2, <2>3, <2>4, <2>5, <2>6 DEF ScriptNext
<1>3. CASE UNCHANGED crumb /\ (Fault \/ UNCHANGED faults)
  BY <1>1, <1>3, FaultShape DEF crumb
<1>4. CASE \E result \in Results : \E rev \in Revs \cup {NoRev} : \E n \in {0, 1} : Crumb(result, rev, n)
  BY <1>4, CrumbShape
<1> QED BY <1>2, <1>3, <1>4

\* A run of the script.
LEMMA ScriptShape ==
  ASSUME TypeOK, NamedHold, ScriptNext
  PROVE  TypeOK'
<1>1. /\ checkout \in Revs /\ localRev \in Revs /\ remoteRev \in Revs \cup {NoRev}
      /\ remote \in Revs \cup {NoRev}
  BY DEF TypeOK
<1>2. UNCHANGED <<installed, loaded, service, remote, jammed>>
  BY DEF ScriptNext, Tick, Fetch, Reset, Pip, EndPip, SmokeCheck, RollBack, Reinstall, RestartApp,
         unit, files, git
<1>3. /\ next' \in 1 .. (Len(Order) + 1) /\ backups' \in [Components -> Versions \cup {NoVersion}]
      /\ before' \in [Components -> Versions] /\ lost' \subseteq Components /\ unread' \in BOOLEAN
  <2>1. Fresh \/ UNCHANGED applying
    BY DEF ScriptNext, Tick, Fetch, Reset, Pip, EndPip, SmokeCheck, RollBack, Reinstall, RestartApp, unit
  <2>2. CASE Fresh
    <3>1. NoBackups \in [Components -> Versions \cup {NoVersion}]
      BY DEF NoBackups
    <3>2. next' = 1 /\ 1 \in 1 .. (Len(Order) + 1)
      BY <2>2, PanelAssumption DEF Fresh
    <3>3. before' \in [Components -> Versions] /\ lost' = {} /\ unread' = FALSE
      BY <2>2 DEF Fresh, TypeOK
    <3> QED BY <2>2, <3>1, <3>2, <3>3 DEF Fresh
  <2> QED BY <2>1, <2>2 DEF TypeOK, applying
<1>4. venv' \in {Deps[r] : r \in Revs} \cup {Partial}
  <2>1. venv' \in {venv, Partial, Deps[checkout]}
    BY DEF ScriptNext, Tick, Fetch, Reset, Pip, EndPip, SmokeCheck, RollBack, Reinstall, RestartApp, work
  <2> QED BY <1>1, <2>1 DEF TypeOK
<1>5. gui' \in Statuses
  <2>1. gui' \in {gui, Started}
    BY DEF ScriptNext, Tick, Fetch, Reset, Pip, EndPip, SmokeCheck, RollBack, Reinstall, RestartApp, unit
  <2> QED BY <2>1, StartedShape DEF TypeOK
<1>6. pc' \in Places
  BY DEF ScriptNext, Tick, Fetch, Reset, Pip, EndPip, SmokeCheck, RollBack, Reinstall, RestartApp,
         Goto, Report, Places
<1>7. localRev' \in Revs /\ remoteRev' \in Revs \cup {NoRev}
  BY <1>1 DEF ScriptNext, Tick, Fetch, Reset, Pip, EndPip, SmokeCheck, RollBack, Reinstall, RestartApp, run
<1>8. failure' \in {"none", "pip-failed", "import-failed"}
  BY DEF TypeOK, ScriptNext, Tick, Fetch, Reset, Pip, EndPip, SmokeCheck, RollBack, Reinstall, RestartApp, run
<1>9. cut' \in BOOLEAN /\ worked' \in BOOLEAN /\ warned' \in BOOLEAN
  BY DEF TypeOK, ScriptNext, Tick, Fetch, Reset, Pip, EndPip, SmokeCheck, RollBack, Reinstall, RestartApp, run,
         CodeWorks, Whole
<1> QED BY <1>2, <1>3, <1>4, <1>5, <1>6, <1>7, <1>8, <1>9, TreeShape, ReportShape DEF TypeOK

\* A redeploy.
LEMMA ApplyShape ==
  ASSUME TypeOK, Redeploying
  PROVE  TypeOK'
<1>1. UNCHANGED <<checkout, tree, code, venv, remote, jammed, check, unwritten, cut, localRev, remoteRev,
                  failure, worked, warned>>
  BY DEF Redeploying, ApplyNext, BeginApply, Examine, EndExamine, DaemonReload, RestartServices, LookAtGui, RestartGui,
         LookAgain, Restore, ReloadAgain, RestartAgain, run, work, git, crumb
<1>2. /\ tree \in [Components -> Versions] /\ unread \in BOOLEAN
      /\ installed \in [Components -> Versions] /\ loaded \in [Units -> Versions]
      /\ service \in [Serves -> Versions] /\ backups \in [Components -> Versions \cup {NoVersion}]
      /\ next \in 1 .. (Len(Order) + 1) /\ before \in [Components -> Versions]
      /\ lost \subseteq Components /\ faults \in 0 .. MaxFaults /\ gui \in Statuses
  BY DEF TypeOK
<1>3. Units \subseteq Components /\ Bounces \subseteq Components /\ Serves \subseteq Components
  BY PanelAssumption
<1>4. gui' \in Statuses
  <2>1. gui' \in {gui, Started}
    BY DEF Redeploying, ApplyNext, BeginApply, Examine, EndExamine, DaemonReload, RestartServices, LookAtGui, RestartGui,
         LookAgain, Restore, ReloadAgain, RestartAgain, files
  <2> QED BY <1>2, <2>1, StartedShape
<1>5. faults' \in 0 .. MaxFaults
  <2>1. Fault \/ UNCHANGED faults
    BY DEF Redeploying, ApplyNext, BeginApply, Examine, EndExamine, DaemonReload, RestartServices, LookAtGui, RestartGui,
         LookAgain, Restore, ReloadAgain, RestartAgain, Reload
  <2> QED BY <1>2, <2>1, FaultShape
<1>6. pc' \in Places
  BY DEF TypeOK, Redeploying, ApplyNext, BeginApply, Examine, EndExamine, DaemonReload, RestartServices, LookAtGui, RestartGui,
         LookAgain, Restore, ReloadAgain, RestartAgain, Goto, Places
<1>7. CASE BeginApply
  <2>1. UNCHANGED <<installed, loaded, service>> /\ next' = 1 /\ backups' = NoBackups
        /\ lost' = {} /\ before' = installed /\ unread' = FALSE
    BY <1>7 DEF BeginApply, Fresh, files
  <2>2. 1 \in 1 .. (Len(Order) + 1)
    BY PanelAssumption
  <2>3. backups' \in [Components -> Versions \cup {NoVersion}]
    BY <2>1 DEF NoBackups
  <2> QED BY <1>1, <1>2, <1>4, <1>5, <1>6, <2>1, <2>2, <2>3 DEF TypeOK
<1>8. CASE Examine
  <2>1. next \in DOMAIN Order /\ next' = next + 1 /\ UNCHANGED <<loaded, service, before, lost, unread>>
    BY <1>8 DEF Examine
  <2>2. next' \in 1 .. (Len(Order) + 1)
    BY <2>1, PanelAssumption
  <2>3. Order[next] \in Components /\ tree[Order[next]] \in Versions
    BY <1>2, <2>1 DEF Components
  <2>4. UNCHANGED <<installed, backups>> \/ Installs(Order[next], tree[Order[next]])
    BY <1>8 DEF Examine
  <2>5. installed' \in [Components -> Versions] /\ backups' \in [Components -> Versions \cup {NoVersion}]
    BY <1>2, <2>3, <2>4 DEF Installs
  <2> QED BY <1>1, <1>2, <1>4, <1>5, <1>6, <2>1, <2>2, <2>5 DEF TypeOK
<1>9. CASE DaemonReload \/ ReloadAgain
  <2>1. UNCHANGED <<installed, service, next, backups, before, lost>>
        /\ (UNCHANGED loaded \/ loaded' = [c \in Units |-> installed[c]]) /\ unread' \in BOOLEAN
    BY <1>9 DEF DaemonReload, ReloadAgain, Reload, Reloaded
  <2>2. loaded' \in [Units -> Versions]
    BY <1>2, <1>3, <2>1
  <2> QED BY <1>1, <1>2, <1>4, <1>5, <1>6, <2>1, <2>2 DEF TypeOK
<1>10. CASE RestartServices
  <2>1. UNCHANGED <<installed, loaded, next, backups, before, lost, unread>>
    BY <1>10 DEF RestartServices, applying
  <2>2. service' \in [Serves -> Versions]
    BY <1>2, <1>3, <1>10 DEF RestartServices
  <2> QED BY <1>1, <1>2, <1>4, <1>5, <1>6, <2>1, <2>2 DEF TypeOK
<1>11. CASE Restore
  <2>1. UNCHANGED <<loaded, service, next, backups, before, unread>>
    BY <1>11 DEF Restore
  <2>2. lost' \subseteq Components
    BY <1>3, <1>11 DEF Restore
  <2>3. ASSUME NEW c \in Changed
        PROVE  backups[c] \in Versions
    BY <1>2 DEF Changed
  <2>4. installed' \in [Components -> Versions]
    BY <1>2, <1>11, <2>3 DEF Restore
  <2> QED BY <1>1, <1>2, <1>4, <1>5, <1>6, <2>1, <2>2, <2>4 DEF TypeOK
<1>12. CASE EndExamine \/ LookAtGui \/ RestartGui \/ LookAgain \/ RestartAgain
  <2>1. UNCHANGED <<installed, loaded, service, next, backups, before, lost, unread>>
    BY <1>12 DEF EndExamine, LookAtGui, RestartGui, LookAgain, RestartAgain, files, applying
  <2> QED BY <1>1, <1>2, <1>4, <1>5, <1>6, <2>1 DEF TypeOK
<1> QED BY <1>7, <1>8, <1>9, <1>10, <1>11, <1>12 DEF Redeploying, ApplyNext

\* The GUI service, a push and a loss of power.
LEMMA WorldShape ==
  ASSUME TypeOK, NamedHold,
         \/ GuiNext /\ UNCHANGED <<git, crumb, cut, run>>
         \/ \E r \in Revs \cup {NoRev} : Push(r)
         \/ PowerLoss
  PROVE  TypeOK'
<1>1. UNCHANGED <<venv, installed, next, backups, before, lost, unread, check, unwritten, localRev,
                  remoteRev, failure, worked, warned>>
  BY DEF GuiNext, GuiDies, GuiRespawns, OperatorStops, OperatorStarts, Push, PowerLoss, unit, files,
         applying, run, work, crumb
<1>2. loaded' \in [Units -> Versions] /\ service' \in [Serves -> Versions]
  BY PanelAssumption
     DEF TypeOK, GuiNext, GuiDies, GuiRespawns, OperatorStops, OperatorStarts, Push, PowerLoss, unit,
         files, Reloaded
<1>3. gui' \in Statuses
  <2>1. gui' \in {gui, Started, "waiting", "stopped"}
    BY DEF GuiNext, GuiDies, GuiRespawns, OperatorStops, OperatorStarts, Push, PowerLoss, unit
  <2> QED BY <2>1, StartedShape DEF TypeOK, Statuses
<1>4. faults' \in 0 .. MaxFaults
  <2>1. Fault \/ UNCHANGED faults
    BY DEF GuiNext, GuiDies, GuiRespawns, OperatorStops, OperatorStarts, Push, PowerLoss
  <2> QED BY <2>1, FaultShape DEF TypeOK
<1>5. pc' \in Places /\ remote' \in Revs \cup {NoRev} /\ cut' \in BOOLEAN /\ jammed' \in BOOLEAN
  BY DEF TypeOK, GuiNext, GuiDies, GuiRespawns, OperatorStops, OperatorStarts, Push, PowerLoss, Goto,
         Places, At, git
<1>6. checkout' \in Revs /\ tree' \in [Components -> Versions] /\ code' \in Revs \cup {Mixture}
  <2>1. \/ UNCHANGED <<checkout, tree, code>>
        \/ pc = "reset" /\ StopsHalfway(remoteRev)
        \/ StopsHalfway(localRev)
    BY DEF GuiNext, GuiDies, GuiRespawns, OperatorStops, OperatorStarts, Push, PowerLoss, work, At
  <2> QED BY <2>1 DEF StopsHalfway, NamedHold, TypeOK
<1> QED BY <1>1, <1>2, <1>3, <1>4, <1>5, <1>6 DEF TypeOK

-----------------------------------------------------------------------------
(* What apply changed, it can put back *)

\* No step of a redeploy moves the code or what the run knows of it.
LEMMA ApplyLeaves ==
  ASSUME Redeploying
  PROVE  UNCHANGED <<checkout, tree, code, venv, remote, jammed, check, unwritten, cut, localRev, remoteRev,
                  failure, worked, warned>>
  BY DEF Redeploying, ApplyNext, BeginApply, Examine, EndExamine, DaemonReload, RestartServices, LookAtGui, RestartGui,
         LookAgain, Restore, ReloadAgain, RestartAgain, run, work, git, crumb

LEMMA ApplyBacks ==
  ASSUME TypeOK, BackupsHold, RestoredHold, Redeploying
  PROVE  BackupsHold' /\ RestoredHold'
<1>1. /\ tree' = tree /\ tree \in [Components -> Versions]
      /\ installed \in [Components -> Versions] /\ before \in [Components -> Versions]
      /\ backups \in [Components -> Versions \cup {NoVersion}]
  BY ApplyLeaves DEF TypeOK
<1>2. Bounces \subseteq Components /\ Units \subseteq Components
  BY PanelAssumption
<1>3. CASE BeginApply
  <2>1. /\ pc' \in {"examine", "idle"} /\ backups' = NoBackups /\ before' = installed
        /\ UNCHANGED installed
    BY <1>3 DEF BeginApply, Fresh, Goto, files
  <2> QED BY <2>1 DEF BackupsHold, BackedUp, RestoredHold, NoBackups, Backing
<1>4. CASE Examine
  <2>1. /\ pc = "examine" /\ pc' = pc /\ UNCHANGED before /\ Order[next] \in Components
        /\ \/ UNCHANGED <<installed, backups>>
           \/ /\ Installs(Order[next], tree[Order[next]])
              /\ installed[Order[next]] # tree[Order[next]]
    BY <1>4 DEF Examine, At, Components
  <2>2. \A c \in Components : BackedUp(c)
    BY <2>1 DEF BackupsHold, Backing
  <2>3. ASSUME NEW c \in Components
        PROVE  BackedUp(c)'
    <3>1. BackedUp(c)
      BY <2>2
    <3>2. CASE UNCHANGED <<installed, backups>>
      BY <1>1, <2>1, <3>1, <3>2 DEF BackedUp
    <3>3. CASE /\ Installs(Order[next], tree[Order[next]])
               /\ installed[Order[next]] # tree[Order[next]]
      <4>1. CASE c = Order[next]
        <5>1. backups[c] = NoVersion /\ installed[c] = before[c]
          BY <3>1, <3>3, <4>1 DEF BackedUp
        <5>2. installed'[c] = tree[c] /\ backups'[c] = installed[c]
          BY <1>1, <3>3, <4>1 DEF Installs
        <5>3. backups'[c] # NoVersion
          BY <1>1, <5>2, PanelAssumption
        <5> QED BY <1>1, <2>1, <5>1, <5>2, <5>3 DEF BackedUp
      <4>2. CASE c # Order[next]
        <5>1. installed'[c] = installed[c] /\ backups'[c] = backups[c]
          BY <1>1, <3>3, <4>2 DEF Installs
        <5> QED BY <1>1, <2>1, <3>1, <5>1 DEF BackedUp
      <4> QED BY <4>1, <4>2
    <3> QED BY <2>1, <3>2, <3>3
  <2> QED BY <2>1, <2>3 DEF BackupsHold, RestoredHold
<1>5. CASE EndExamine \/ DaemonReload \/ RestartServices \/ LookAtGui \/ RestartGui \/ LookAgain
  <2>1. pc \in Backing /\ pc' \in Backing \cup {"idle"} /\ UNCHANGED <<installed, backups, before>>
    BY <1>5 DEF EndExamine, DaemonReload, RestartServices, LookAtGui, RestartGui, LookAgain, At, Goto,
                files, applying, Backing
  <2>2. pc' \notin {"reload again", "restart again"}
    BY <2>1 DEF Backing
  <2> QED BY <1>1, <2>1, <2>2 DEF BackupsHold, BackedUp, RestoredHold
<1>6. CASE Restore
  <2>1. /\ pc = "restore" /\ pc' \in {"reload again", "idle"} /\ UNCHANGED <<backups, before>>
        /\ installed' = [c \in Components |->
                           IF c \in (Changed \cap Bounces) \ lost' THEN backups[c] ELSE installed[c]]
    BY <1>6 DEF Restore, At, Goto
  <2>2. ASSUME NEW c \in Bounces \ lost'
        PROVE  installed'[c] = before[c]
    <3>1. BackedUp(c) /\ c \in Components
      BY <1>2, <2>1 DEF BackupsHold, Backing
    <3>2. CASE c \in Changed
      BY <2>1, <3>1, <3>2 DEF BackedUp, Changed
    <3>3. CASE c \notin Changed
      BY <2>1, <3>1, <3>3 DEF BackedUp, Changed
    <3> QED BY <3>2, <3>3
  <2> QED BY <2>1, <2>2 DEF BackupsHold, RestoredHold, Backing
<1>7. CASE ReloadAgain
  <2>1. /\ pc = "reload again" /\ pc' = "restart again" /\ UNCHANGED <<installed, before, lost>>
        /\ unread' \/ loaded' = [c \in Units |-> installed[c]]
    BY <1>7 DEF ReloadAgain, Reload, Reloaded, At, Goto
  <2> QED BY <2>1 DEF BackupsHold, RestoredHold, Backing
<1>8. CASE RestartAgain
  BY <1>8 DEF RestartAgain, Goto, BackupsHold, RestoredHold, Backing
<1> QED BY <1>3, <1>4, <1>5, <1>6, <1>7, <1>8 DEF Redeploying, ApplyNext

\* Nothing else touches what a redeploy is at work on.
LEMMA ScriptBacks ==
  ASSUME ScriptNext
  PROVE  BackupsHold' /\ RestoredHold'
<1>1. pc' \in {"idle", "fetch", "reset", "pip", "installing", "smoke check", "roll back",
               "reinstalling", "restart", "redeploy"}
  BY DEF ScriptNext, Tick, Fetch, Reset, Pip, EndPip, SmokeCheck, RollBack, Reinstall, RestartApp, Goto, Report
<1> QED BY <1>1 DEF BackupsHold, RestoredHold, Backing

LEMMA WorldBacks ==
  ASSUME BackupsHold, RestoredHold,
         \/ GuiNext /\ UNCHANGED <<git, crumb, cut, run>>
         \/ \E r \in Revs \cup {NoRev} : Push(r)
         \/ PowerLoss
  PROVE  BackupsHold' /\ RestoredHold'
<1>1. CASE PowerLoss
  BY <1>1 DEF PowerLoss, Goto, BackupsHold, RestoredHold, Backing
<1>2. CASE GuiNext \/ \E r \in Revs \cup {NoRev} : Push(r)
  <2>1. UNCHANGED <<tree, installed, loaded, backups, before, lost, unread, pc>>
    BY <1>2 DEF GuiNext, GuiDies, GuiRespawns, OperatorStops, OperatorStarts, Push, unit, files, applying,
                work
  <2> QED BY <2>1 DEF BackupsHold, BackedUp, RestoredHold
<1> QED BY <1>1, <1>2

-----------------------------------------------------------------------------
(* A run leaves the panel as it reports it *)

\* The code in the checkout works as long as neither it nor the venv changes.
LEMMA CodeStays ==
  ASSUME UNCHANGED <<code, venv>>
  PROVE  CodeWorks' <=> CodeWorks
  BY DEF CodeWorks

LEMMA CrumbTells ==
  ASSUME NEW result, NEW rev, NEW n, Crumb(result, rev, n)
  PROVE  (check'.result = result /\ check'.rev = rev) \/ unwritten'
  BY DEF Crumb

LEMMA ApplyEnds ==
  ASSUME ScriptHold, Redeploying
  PROVE  ScriptHold'
<1>1. UNCHANGED <<checkout, code, venv, check, unwritten, cut, worked, warned>>
  BY ApplyLeaves
<1>2. pc \in Backing \cup {"redeploy", "reload again", "restart again"}
  BY DEF Redeploying, ApplyNext, BeginApply, Examine, EndExamine, DaemonReload, RestartServices, LookAtGui, RestartGui,
         LookAgain, Restore, ReloadAgain, RestartAgain, At, Backing
<1>3. pc' \in Backing \cup {"reload again", "restart again", "idle"}
  BY DEF Redeploying, ApplyNext, BeginApply, Examine, EndExamine, DaemonReload, RestartServices, LookAtGui, RestartGui,
         LookAgain, Restore, ReloadAgain, RestartAgain, At, Goto, Backing
<1>4. Told /\ Works
  BY <1>2 DEF ScriptHold, ReportHold
<1>5. Told' /\ Works'
  BY <1>1, <1>4, CodeStays DEF Told, Works
<1>6. ReportHold' /\ EndsSound'
  BY <1>5 DEF ReportHold, EndsSound, Told, Works
<1> QED BY <1>3, <1>6 DEF ScriptHold, UntouchedHold, NamedHold, ReturnHold, MovedHold, RolledHold,
                         RestartHold, Backing

LEMMA WorldEnds ==
  ASSUME ScriptHold,
         \/ GuiNext /\ UNCHANGED <<git, crumb, cut, run>>
         \/ \E r \in Revs \cup {NoRev} : Push(r)
         \/ PowerLoss
  PROVE  ScriptHold'
<1>1. UNCHANGED <<venv, check, unwritten, localRev, remoteRev, worked, warned>>
  BY DEF GuiNext, GuiDies, GuiRespawns, OperatorStops, OperatorStarts, Push, PowerLoss, run, work, crumb
<1>2. CASE PowerLoss
  <2>1. pc' = "idle" /\ (~ cut' => pc = "idle" /\ ~ cut)
    BY <1>2 DEF PowerLoss, Goto, At
  <2>2. ~ cut' => UNCHANGED <<checkout, tree, code>>
    BY <1>2, <2>1 DEF PowerLoss
  <2>3. EndsSound'
    BY <1>1, <2>1, <2>2, CodeStays DEF ScriptHold, EndsSound, At
  <2> QED BY <2>1, <2>3 DEF ScriptHold, UntouchedHold, NamedHold, ReturnHold, MovedHold, RolledHold,
                           RestartHold, ReportHold, Backing
<1>3. CASE (GuiNext /\ UNCHANGED <<git, crumb, cut, run>>) \/ \E r \in Revs \cup {NoRev} : Push(r)
  <2>1. UNCHANGED <<pc, cut, checkout, tree, code>>
    BY <1>3 DEF GuiNext, GuiDies, GuiRespawns, OperatorStops, OperatorStarts, Push, work
  <2>2. (CodeWorks' <=> CodeWorks) /\ (Whole' <=> Whole)
    BY <1>1, <2>1, CodeStays DEF Whole, Texts
  <2>3. UntouchedHold' /\ NamedHold' /\ ReturnHold' /\ MovedHold' /\ RolledHold' /\ RestartHold'
    BY <1>1, <2>1, <2>2 DEF ScriptHold, UntouchedHold, NamedHold, ReturnHold, MovedHold, RolledHold,
                            RestartHold
  <2>4. ReportHold' /\ EndsSound'
    BY <1>1, <2>1, <2>2 DEF ScriptHold, ReportHold, EndsSound, Told, Works, At
  <2> QED BY <2>3, <2>4 DEF ScriptHold
<1> QED BY <1>2, <1>3

LEMMA ScriptEnds ==
  ASSUME TypeOK, ScriptHold, ScriptNext
  PROVE  ScriptHold'
<1> USE DEF UntouchedHold, NamedHold, ReturnHold, MovedHold, RolledHold, RestartHold, ReportHold,
            EndsSound, At, Goto, Backing
<1>1. CASE Tick
  <2>1. /\ localRev' = checkout /\ UNCHANGED <<checkout, tree, code, venv>> /\ cut' = FALSE
        /\ (worked' <=> Whole /\ CodeWorks)
        /\ pc' = "fetch" \/ (pc' = "redeploy" /\ Crumb("no-checkout", NoRev, 1))
    BY <1>1 DEF Tick, Report, work
  <2>2. (CodeWorks' <=> CodeWorks) /\ (Whole' <=> Whole)
    BY <2>1, CodeStays DEF Whole, Texts
  <2>3. pc' = "redeploy" => Told' /\ Works'
    BY <2>1, <2>2, CrumbTells DEF Told, Works
  <2> QED BY <2>1, <2>2, <2>3 DEF ScriptHold
<1>2. CASE Fetch
  <2>1. /\ pc = "fetch" /\ UNCHANGED <<checkout, tree, code, venv, localRev, worked, warned>>
        /\ \/ pc' = "reset" /\ remoteRev' = remote /\ remote # NoRev
           \/ pc' = "redeploy" /\ \E result \in Results, n \in {0, 1} : Crumb(result, localRev, n)
    BY <1>2 DEF Fetch, Report, Results, work
  <2>2. localRev = checkout /\ (worked => Whole /\ CodeWorks)
    BY <2>1 DEF ScriptHold
  <2>3. (CodeWorks' <=> CodeWorks) /\ (Whole' <=> Whole)
    BY <2>1, CodeStays DEF Whole, Texts
  <2>4. remote \in Revs \cup {NoRev}
    BY DEF TypeOK
  <2>5. pc' = "redeploy" => Told' /\ Works'
    BY <2>1, <2>2, <2>3, CrumbTells DEF Told, Works
  <2> QED BY <2>1, <2>2, <2>3, <2>4, <2>5 DEF ScriptHold
<1>3. CASE Reset
  <2>1. /\ pc = "reset" /\ UNCHANGED <<venv, localRev, remoteRev, worked>>
        /\ \/ pc' = "pip" /\ checkout' = remoteRev
           \/ /\ pc' = "redeploy" /\ UNCHANGED checkout /\ warned' = TRUE
              /\ \E n \in {0, 1} : Crumb("reset-failed", localRev, n)
    BY <1>3 DEF Reset, Report, HeadTo, StopsHalfway
  <2>2. localRev = checkout /\ (worked => Whole /\ CodeWorks)
    BY <2>1 DEF ScriptHold
  <2>3. CASE pc' = "pip" /\ checkout' = remoteRev
    <3>1. worked => localRev \in Imports
      BY <2>2 DEF CodeWorks, Whole
    <3> QED BY <2>1, <2>3, <3>1 DEF ScriptHold
  <2>4. CASE /\ pc' = "redeploy" /\ UNCHANGED checkout /\ warned' = TRUE
             /\ \E n \in {0, 1} : Crumb("reset-failed", localRev, n)
    <3>1. Told' /\ Works'
      BY <2>2, <2>4, CrumbTells DEF Told, Works
    <3> QED BY <2>1, <2>4, <3>1 DEF ScriptHold
  <2> QED BY <2>1, <2>3, <2>4
<1>4. CASE Pip
  <2>1. pc = "pip" /\ pc' = "installing" /\ UNCHANGED <<checkout, localRev, remoteRev, worked>>
    BY <1>4 DEF Pip, run
  <2> QED BY <2>1 DEF ScriptHold
<1>5. CASE EndPip
  <2>1. /\ pc = "installing" /\ pc' \in {"smoke check", "roll back"}
        /\ UNCHANGED <<checkout, localRev, remoteRev, worked>>
    BY <1>5 DEF EndPip
  <2> QED BY <2>1 DEF ScriptHold
<1>6. CASE SmokeCheck
  <2>1. /\ pc = "smoke check" /\ UNCHANGED <<checkout, code, venv, localRev, remoteRev, worked>>
        /\ (pc' = "restart" /\ CodeWorks) \/ pc' = "roll back"
    BY <1>6 DEF SmokeCheck, work
  <2>2. CodeWorks' <=> CodeWorks
    BY <2>1, CodeStays
  <2> QED BY <2>1, <2>2 DEF ScriptHold
<1>7. CASE RollBack
  <2>1. /\ pc = "roll back" /\ UNCHANGED <<localRev, worked>>
        /\ \/ pc' = "reinstalling" /\ checkout' = localRev /\ code' = localRev
           \/ pc' = "idle" /\ cut' = TRUE
    BY <1>7 DEF RollBack, HeadTo, run
  <2> QED BY <2>1 DEF ScriptHold
<1>8. CASE Reinstall
  <2>1. /\ pc = "reinstalling" /\ pc' = "idle" /\ \E n \in {0, 1} : Crumb(failure, localRev, n)
        /\ UNCHANGED <<checkout, code, localRev, worked>>
        /\ venv' = Deps[checkout] \/ warned' = TRUE
    BY <1>8 DEF Reinstall
  <2>2. localRev = checkout /\ code = checkout /\ (worked => localRev \in Imports)
    BY <2>1 DEF ScriptHold
  <2>3. worked' => CodeWorks' \/ warned'
    BY <2>1, <2>2 DEF CodeWorks
  <2>4. check'.rev = checkout' \/ unwritten'
    BY <2>1, <2>2, CrumbTells
  <2> QED BY <2>1, <2>2, <2>3, <2>4 DEF ScriptHold
<1>9. CASE RestartApp
  <2>1. /\ pc = "restart" /\ UNCHANGED <<checkout, code, venv, remoteRev>>
        /\ (pc' = "redeploy" /\ Crumb("updated", remoteRev, 0)) \/ (pc' = "idle" /\ cut' = TRUE)
    BY <1>9 DEF RestartApp, Report, run, work
  <2>2. CodeWorks' /\ remoteRev = checkout
    BY <2>1, CodeStays DEF ScriptHold
  <2>3. pc' = "redeploy" => Told' /\ Works'
    BY <2>1, <2>2, CrumbTells DEF Told, Works
  <2> QED BY <2>1, <2>2, <2>3 DEF ScriptHold
<1> QED BY <1>1, <1>2, <1>3, <1>4, <1>5, <1>6, <1>7, <1>8, <1>9 DEF ScriptNext

-----------------------------------------------------------------------------
(* The theorems *)

LEMMA InvInit == Init => Inv
<1> SUFFICES ASSUME Init
             PROVE  Inv
  OBVIOUS
<1>1. checkout \in Revs /\ CodeWorks /\ pc = "idle"
  BY PanelAssumption DEF Init, CodeWorks
<1>2. /\ installed \in [Components -> Versions] /\ before \in [Components -> Versions]
      /\ loaded \in [Units -> Versions] /\ service \in [Serves -> Versions]
  <2>1. installed \in [Components -> Versions]
    BY <1>1, TextIsVersion DEF Init
  <2> QED BY <2>1, PanelAssumption DEF Init
<1>3. gui \in Statuses
  BY StartedShape DEF Init
<1>4. check \in Crumbs /\ check.rev = checkout
  BY <1>1 DEF Init, Crumbs, Results
<1>5. next \in 1 .. (Len(Order) + 1) /\ faults \in 0 .. MaxFaults
  BY PanelAssumption DEF Init
<1>6. /\ backups \in [Components -> Versions \cup {NoVersion}] /\ lost \subseteq Components
      /\ venv \in {Deps[r] : r \in Revs} \cup {Partial} /\ pc \in Places
      /\ remote \in Revs \cup {NoRev} /\ localRev \in Revs /\ remoteRev \in Revs \cup {NoRev}
      /\ failure \in {"none", "pip-failed", "import-failed"}
      /\ cut \in BOOLEAN /\ worked \in BOOLEAN /\ warned \in BOOLEAN
      /\ unread \in BOOLEAN /\ unwritten \in BOOLEAN /\ jammed \in BOOLEAN
      /\ tree \in [Components -> Versions] /\ code \in Revs \cup {Mixture}
  BY <1>1, TextsShape DEF Init, NoBackups, Places
<1>7. TypeOK
  BY <1>1, <1>2, <1>3, <1>4, <1>5, <1>6 DEF TypeOK
<1>8. BackupsHold /\ RestoredHold
  BY <1>1 DEF BackupsHold, RestoredHold, Backing
<1>9. ScriptHold
  BY <1>1, <1>4 DEF ScriptHold, UntouchedHold, NamedHold, ReturnHold, MovedHold, RolledHold, RestartHold,
                    ReportHold, Told, Works, EndsSound, Backing
<1> QED BY <1>7, <1>8, <1>9 DEF Inv

LEMMA InvStep == Inv /\ [Next]_vars => Inv'
<1> SUFFICES ASSUME Inv, [Next]_vars
             PROVE  Inv'
  OBVIOUS
<1>1. CASE ScriptNext
  BY <1>1, ScriptShape, ScriptBacks, ScriptEnds DEF Inv, ScriptHold
<1>2. CASE Redeploying
  BY <1>2, ApplyShape, ApplyBacks, ApplyEnds DEF Inv
<1>3. CASE GuiNext /\ UNCHANGED <<git, crumb, cut, run>>
  BY <1>3, WorldShape, WorldBacks, WorldEnds DEF Inv, ScriptHold
<1>4. CASE (\E r \in Revs \cup {NoRev} : Push(r)) \/ PowerLoss
  BY <1>4, WorldShape, WorldBacks, WorldEnds DEF Inv, ScriptHold
<1>5. CASE UNCHANGED vars
  <2>1. /\ UNCHANGED <<checkout, tree, code, venv, installed, loaded, service, gui>>
        /\ UNCHANGED <<next, backups, before, lost, unread, faults, pc, remote, jammed, check, unwritten>>
        /\ UNCHANGED <<cut, localRev, remoteRev, failure, worked, warned>>
    BY <1>5 DEF vars, unit, files, applying, run, work, git, crumb
  <2>2. TypeOK'
    BY <2>1 DEF Inv, TypeOK
  <2>3. BackupsHold' /\ RestoredHold'
    BY <2>1 DEF Inv, BackupsHold, BackedUp, RestoredHold
  <2>4. CodeWorks' <=> CodeWorks
    BY <2>1, CodeStays
  <2>5. ScriptHold'
    BY <2>1, <2>4 DEF Inv, ScriptHold, UntouchedHold, NamedHold, ReturnHold, MovedHold, RolledHold,
                      RestartHold, ReportHold, EndsSound, Told, Works, Whole, Texts, At
  <2> QED BY <2>2, <2>3, <2>5 DEF Inv
<1> QED BY <1>1, <1>2, <1>3, <1>4, <1>5 DEF Next

THEOREM Invariance == Spec => []Inv
  BY InvInit, InvStep, PTL DEF Spec

\* Every variable keeps its shape; a reset only ever moves the checkout to a revision.
THEOREM TypeCorrect == Spec => []TypeOK
<1>1. Inv => TypeOK
  BY DEF Inv
<1> QED BY <1>1, Invariance, PTL

\* A rollback of the GUI puts back what was installed when the run began, whichever of
\* its files had changed and whatever failed, but for a backup that could not be written:
\* a backup is never taken of a text that this run has already written. The GUI is then
\* started with it, but for a daemon-reload that failed.
THEOREM RollbackIsTrue == Spec => []RollbackRestores
<1>1. Inv => RollbackRestores
  <2> SUFFICES ASSUME Inv, pc = "restart again", NEW c \in Bounces \ lost
               PROVE  installed[c] = before[c] /\ (unread \/ InUse[c] = before[c])
    BY DEF RollbackRestores, At
  <2>1. installed[c] = before[c] /\ (unread \/ (c \in Units => loaded[c] = installed[c]))
    BY DEF Inv, RestoredHold
  <2> QED BY <2>1 DEF InUse
<1> QED BY <1>1, Invariance, PTL

\* A run that was not cut short names the revision HEAD is at, unless its breadcrumb could
\* not be written, and leaves a whole checkout that boots as it found it, or has logged
\* that a reset or the install of its rollback failed.
THEOREM RunsEndSound == Spec => []EndsSound
<1>1. Inv => EndsSound
  BY DEF Inv, ScriptHold
<1> QED BY <1>1, Invariance, PTL
=============================================================================

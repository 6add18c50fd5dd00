------------------------------ MODULE Redeploy ------------------------------
(***************************************************************************)
(* How a panel re-applies what its installer laid down as root             *)
(* (deploy/redeploy.py): every component that differs from the checkout is *)
(* installed, systemd reloads, what changed is restarted, and the GUI      *)
(* service is rolled back when it does not come up again.                  *)
(*                                                                         *)
(* A file's text is the version of it that a revision carries. The other   *)
(* module of the panel's updates is Updater, which runs this one.          *)
(***************************************************************************)
EXTENDS Naturals, Sequences, FiniteSets

CONSTANTS
  Revs,         \* the commits the tracked ref may name
  Order,        \* COMPONENTS, in install order
  Units,        \* those of kind "unit"
  Bounces,      \* those whose restart is GUI_SERVICE
  Serves,       \* those whose restart is another service
  Content,      \* Content[c][r]: the text of component c rendered from revision r
  Unverifiable, \* the <<component, text>> that systemd-analyze verify refuses
  Fatal,        \* the <<component, text>> the GUI does not survive
  Imports,      \* the revisions whose client.gui can be imported
  Deps,         \* Deps[r]: what pip installs for revision r
  Partial,      \* a venv that pip left halfway
  Mixture,      \* the package of a working tree that git left halfway
  NoVersion,
  MaxFaults     \* bounds the failing calls, power losses, crashes of a working GUI
                \* and stops by the operator in a behaviour

Components == {Order[i] : i \in DOMAIN Order}
Versions == {Content[c][r] : c \in Components, r \in Revs}

ASSUME PanelAssumption ==
  /\ Order \in Seq(Components) /\ Imports \subseteq Revs /\ MaxFaults \in Nat
  /\ Units \subseteq Components /\ Bounces \subseteq Components /\ Serves \subseteq Components
  /\ Bounces \cap Serves = {}
  /\ NoVersion \notin Versions /\ Mixture \notin Revs /\ Partial \notin {Deps[r] : r \in Revs}

VARIABLES
  checkout,   \* HEAD of the checkout
  tree,       \* the text of each component in the working tree
  code,       \* and the revision of the package there
  venv,       \* the dependencies in the venv
  installed,  \* the files under /usr/local/bin and /etc/systemd/system
  loaded,     \* the units as systemd has read them
  service,    \* what each other service was last started with
  gui,        \* the status of the GUI service
  next,       \* apply: the component to look at
  backups,    \* apply: report.backups
  before,     \* what was installed when apply began
  lost,       \* the components whose backup could not be put back
  unread,     \* history: the daemon-reload of the run that came last failed
  faults,
  pc          \* where the updater or apply is

work == <<checkout, tree, code, venv>>
files == <<installed, loaded, service>>
applying == <<next, backups, before, lost, unread>>

Goto(step) == pc' = step
At(step) == pc = step
Faults(n) == faults + n <= MaxFaults /\ faults' = faults + n
Fault == Faults(1)

-----------------------------------------------------------------------------
(* The GUI service. The unit says Restart=always. *)

\* The editable install runs the working tree, with whatever the venv holds. A package
\* of old and new files is not counted on.
CodeWorks == code \in Imports /\ venv = Deps[code]

\* A unit is used as systemd loaded it, the launcher as it is on disk.
InUse == [c \in Bounces |-> IF c \in Units THEN loaded[c] ELSE installed[c]]

\* A service of Type=simple is active as soon as it is started, also when it is
\* about to die.
Started ==
  IF CodeWorks /\ \A c \in Bounces : <<c, InUse[c]>> \notin Fatal
  THEN "active" ELSE "doomed"

IsActive == gui \in {"active", "doomed"}

GuiDies ==
  /\ \/ gui = "doomed" /\ UNCHANGED faults
     \/ gui = "active" /\ Fault
  /\ gui' = "waiting"
  /\ UNCHANGED <<work, files, applying, pc>>

GuiRespawns ==
  /\ gui = "waiting"
  /\ gui' = Started
  /\ UNCHANGED <<work, files, applying, faults, pc>>

OperatorStops ==
  /\ gui # "stopped" /\ Fault
  /\ gui' = "stopped"
  /\ UNCHANGED <<work, files, applying, pc>>

OperatorStarts ==
  /\ gui = "stopped"
  /\ gui' = Started
  /\ UNCHANGED <<work, files, applying, faults, pc>>

GuiNext == GuiDies \/ GuiRespawns \/ OperatorStops \/ OperatorStarts

-----------------------------------------------------------------------------
(* apply: look at each component, then reload and restart what changed *)

NoBackups == [c \in Components |-> NoVersion]
Changed == {c \in Components : backups[c] # NoVersion}

\* What a process starts with.
Fresh ==
  next' = 1 /\ backups' = NoBackups /\ lost' = {} /\ unread' = FALSE /\ before' = installed

\* The helper may not start at all; the updater only logs that.
BeginApply ==
  /\ At("redeploy")
  /\ \/ Goto("examine") /\ UNCHANGED faults
     \/ Fault /\ Goto("idle")
  /\ Fresh
  /\ UNCHANGED <<work, files, gui>>

Installs(c, v) ==
  /\ installed' = [installed EXCEPT ![c] = v]
  /\ backups' = [backups EXCEPT ![c] = installed[c]]

\* A component in sync, or a unit that fails the verifier, is left alone; one that
\* cannot be read or written is reported, and the next one is looked at.
Examine ==
  /\ At("examine") /\ next \in DOMAIN Order
  /\ next' = next + 1
  /\ LET c == Order[next]
         v == tree[c]
     IN  IF installed[c] = v \/ (c \in Units /\ <<c, v>> \in Unverifiable)
         THEN UNCHANGED <<installed, backups, faults>>
         ELSE \/ Installs(c, v) /\ UNCHANGED faults
              \/ Fault /\ UNCHANGED <<installed, backups>>
  /\ UNCHANGED <<work, loaded, service, gui, before, lost, unread, pc>>

EndExamine ==
  /\ At("examine") /\ next \notin DOMAIN Order
  /\ Goto(IF Changed \cap Units # {} THEN "reload" ELSE "serve")
  /\ UNCHANGED <<work, files, gui, applying, faults>>

Reloaded == loaded' = [c \in Units |-> installed[c]]

\* Nobody looks at the result of systemctl daemon-reload.
Reload ==
  \/ Reloaded /\ unread' = FALSE /\ UNCHANGED faults
  \/ Fault /\ unread' = TRUE /\ UNCHANGED loaded

DaemonReload ==
  /\ At("reload")
  /\ Reload
  /\ Goto("serve")
  /\ UNCHANGED <<work, installed, service, gui, next, backups, before, lost>>

\* The other services are restarted before the GUI: their names sort first, but for
\* the timer's, which depends on nothing here. A failed restart is only reported.
RestartServices ==
  /\ At("serve")
  /\ \/ /\ service' = [c \in Serves |->
                         IF c \notin Changed THEN service[c]
                         ELSE IF c \in Units THEN loaded[c] ELSE installed[c]]
        /\ UNCHANGED faults
     \/ /\ Changed \cap Serves # {}
        /\ Fault /\ UNCHANGED service
  /\ Goto(IF Changed \cap Bounces # {} THEN "bounce" ELSE "idle")
  /\ UNCHANGED <<work, installed, loaded, gui, applying>>

\* _bounce_gui: a stopped panel is not started.
LookAtGui ==
  /\ At("bounce")
  /\ Goto(IF IsActive THEN "restart gui" ELSE "idle")
  /\ UNCHANGED <<work, files, gui, applying, faults>>

RestartGui ==
  /\ At("restart gui")
  /\ gui' = Started
  /\ Goto("look again")
  /\ UNCHANGED <<work, files, applying, faults>>

LookAgain ==
  /\ At("look again")
  /\ Goto(IF IsActive THEN "idle" ELSE "restore")
  /\ UNCHANGED <<work, files, gui, applying, faults>>

\* A slip of Restore: only the units are put back.
RestoreUnits ==
  /\ At("restore")
  /\ lost' = {} /\ UNCHANGED faults
  /\ installed' = [c \in Components |->
                     IF c \in Changed \cap Bounces \cap Units THEN backups[c] ELSE installed[c]]
  /\ Goto(IF Changed \cap Bounces \cap Units # {} THEN "reload again" ELSE "idle")
  /\ UNCHANGED <<work, loaded, service, gui, next, backups, before, unread>>

\* _restore_for: the backups of what this run changed, but for those that cannot be
\* written.
Restore ==
  /\ At("restore")
  /\ \/ lost' = {} /\ UNCHANGED faults
     \/ Fault /\ lost' \in (SUBSET (Changed \cap Bounces)) \ {{}}
  /\ installed' = [c \in Components |->
                     IF c \in (Changed \cap Bounces) \ lost' THEN backups[c] ELSE installed[c]]
  /\ Goto(IF (Changed \cap Bounces) \ lost' # {} THEN "reload again" ELSE "idle")
  /\ UNCHANGED <<work, loaded, service, gui, next, backups, before, unread>>

ReloadAgain ==
  /\ At("reload again")
  /\ Reload
  /\ Goto("restart again")
  /\ UNCHANGED <<work, installed, service, gui, next, backups, before, lost>>

RestartAgain ==
  /\ At("restart again")
  /\ gui' = Started
  /\ Goto("idle")
  /\ UNCHANGED <<work, files, applying, faults>>

ApplyNext ==
  \/ BeginApply \/ Examine \/ EndExamine \/ DaemonReload \/ RestartServices
  \/ LookAtGui \/ RestartGui \/ LookAgain \/ Restore \/ ReloadAgain \/ RestartAgain

-----------------------------------------------------------------------------
(* Properties of a redeploy *)

\* A rollback puts back the launcher and the unit that were installed when the run
\* began, whichever of the two had changed, whichever of them could not be installed and
\* whatever the GUI did meanwhile: all but a backup that could not be written back. It
\* starts the panel with them, unless systemd could not be made to read them.
RollbackRestores ==
  At("restart again") =>
    \A c \in Bounces \ lost : installed[c] = before[c] /\ (unread \/ InUse[c] = before[c])
=============================================================================

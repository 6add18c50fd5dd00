---------------------------- MODULE EnrolmentJobs ----------------------------
(***************************************************************************)
(* The enrolment service of server/enrolment.py: jobs that run one at a    *)
(* time, each by the thread of the request that starts it, then by a       *)
(* watcher and a pump over the PTY of its CLI (claude, antigravity) or by  *)
(* a thread that runs the Codex ceremony (module CodexSession). Operators  *)
(* cancel a job and type into it from threads of their own.                *)
(*                                                                         *)
(* File descriptors are the process's: a number that is closed may be      *)
(* given out again, to a later job or to another part of the server. Of a  *)
(* transcript only the sign-in link matters that emit lifts out of it and  *)
(* set_device_code stores; wording, redaction and times are left out. What *)
(* pausing Codex does to the runtime client is module CodexHome's.         *)
(***************************************************************************)
EXTENDS CodexSession, FiniteSets

CONSTANTS
  Offers,   \* the providers each job may be for: "claude", "antigravity", "codex"
  MaxJobs,  \* the jobs ever started
  MaxFd,    \* the descriptors a PTY may get
  History   \* _JOB_HISTORY

Jobs == 1 .. MaxJobs

ASSUME JobsAssumption ==
  /\ MaxJobs \in Nat \ {0} /\ MaxFd \in Nat /\ History \in Nat \ {0}
  /\ Offers \in [Jobs -> SUBSET {"claude", "antigravity", "codex"}]

Fds == 1 .. MaxFd
None == 0
Other == MaxJobs + 1  \* a file or socket of the server that is not a job's PTY

VARIABLES
  known,      \* _jobs; its order is that of the numbers, which are given out in order
  active,     \* _active_id, or None
  provider,   \* of each job
  state,      \* state of each job, "new" before it is registered
  fd,         \* _master_fd of each job, or None
  link,       \* the jobs with a verification_url
  at,         \* where the thread is that takes each job forward
  master,     \* the descriptor its threads were handed
  process,    \* its CLI: "none", "live", "signalled" or its exit "ok", "bad"
  pump,       \* the jobs whose pump reads
  owner,      \* whose each descriptor is: a job's PTY, Other's, or None's
  sending,    \* the input that holds its job's _lock: [job, fd]
  notified    \* the jobs for which on_success was called

serviceVars == <<known, active>>
jobVars == <<provider, state, fd, link>>
threadVars == <<at, master, pump>>
osVars == <<process, owner>>
vars ==
  <<serviceVars, jobVars, threadVars, osVars, sending, notified, sessionVars>>

NoInput == [job |-> None, fd |-> None]

\* A writer keeps the job's _lock for as long as its write takes.
Locked(j) == sending.job = j

Goto(j, step) == at' = [at EXCEPT ![j] = step]
IsKnown(j) == j \in known

-----------------------------------------------------------------------------
(* Registering a job *)

\* A slip of KeepRecent: one too many goes.
KeepFewer(jobs) ==
  LET finished == {j \in jobs : state[j] # "running"}
  IN  jobs \ {j \in finished : Cardinality({k \in finished : k >= j}) >= History}

\* The oldest finished jobs beyond the history go; running ones stay.
KeepRecent(jobs) ==
  LET finished == {j \in jobs : state[j] # "running"}
  IN  jobs \ {j \in finished : Cardinality({k \in finished : k >= j}) > History}

\* _new_job: refused while the active job runs.
NewJob(j, p) ==
  /\ state[j] = "new" /\ \A k \in 1 .. (j - 1) : state[k] # "new"
  /\ active # None => state[active] # "running"
  /\ known' = KeepRecent(known) \cup {j} /\ active' = j
  /\ provider' = [provider EXCEPT ![j] = p]
  /\ state' = [state EXCEPT ![j] = "running"]
  /\ Goto(j, IF p = "codex" THEN "pause" ELSE "open pty")
  /\ UNCHANGED <<fd, link, master, pump, osVars, sending, notified, sessionVars>>

\* A slip of ClearActive: whatever job is active is forgotten.
ClearAnyActive(j) ==
  /\ at[j] \in {"clear", "give up"}
  /\ active' = None
  /\ Goto(j, IF at[j] = "clear" /\ state[j] = "succeeded" THEN "notify" ELSE "done")
  /\ UNCHANGED <<known, jobVars, master, pump, osVars, sending, notified, sessionVars>>

\* A slip of ClearActive: it is the last step, whatever the outcome.
ClearAndReturn(j) ==
  /\ at[j] \in {"clear", "give up"}
  /\ active' = IF active = j THEN None ELSE active
  /\ Goto(j, "done")
  /\ UNCHANGED <<known, jobVars, master, pump, osVars, sending, notified, sessionVars>>

\* _finish_active, the last step of a job that failed.
ClearActive(j) ==
  /\ at[j] \in {"clear", "give up"}
  /\ active' = IF active = j THEN None ELSE active
  /\ Goto(j, IF at[j] = "clear" /\ state[j] = "succeeded" THEN "notify" ELSE "done")
  /\ UNCHANGED <<known, jobVars, master, pump, osVars, sending, notified, sessionVars>>

\* _notify_success: the credentials are reloaded and a fetch is forced.
Notify(j) ==
  /\ at[j] = "notify"
  /\ notified' = notified \cup {j}
  /\ Goto(j, "done")
  /\ UNCHANGED <<serviceVars, jobVars, master, pump, osVars, sending, sessionVars>>

-----------------------------------------------------------------------------
(* _spawn_pty_job, in the thread of the request *)

\* The lowest descriptor that is free, as the system gives them out.
OpenPty(j) ==
  /\ at[j] = "open pty"
  /\ \/ \E f \in Fds :
          /\ owner[f] = None /\ \A g \in 1 .. (f - 1) : owner[g] # None
          /\ owner' = [owner EXCEPT ![f] = j]
          /\ master' = [master EXCEPT ![j] = f]
          /\ Goto(j, "spawn")
          /\ UNCHANGED state
     \/ /\ state' = [state EXCEPT ![j] = "failed"]
        /\ Goto(j, "give up")
        /\ UNCHANGED <<owner, master>>
  /\ UNCHANGED <<serviceVars, provider, fd, link, pump, process, sending, notified, sessionVars>>

\* Popen runs the CLI, or raises and the PTY is closed.
SpawnCli(j) ==
  /\ at[j] = "spawn"
  /\ \/ /\ process' = [process EXCEPT ![j] = "live"]
        /\ Goto(j, "attach")
        /\ UNCHANGED <<owner, state>>
     \/ /\ owner' = [owner EXCEPT ![master[j]] = None]
        /\ state' = [state EXCEPT ![j] = "failed"]
        /\ Goto(j, "give up")
        /\ UNCHANGED process
  /\ UNCHANGED <<serviceVars, provider, fd, link, master, pump, sending, notified, sessionVars>>

\* attach_pty; the pump and the watcher start.
AttachPty(j) ==
  /\ at[j] = "attach"
  /\ fd' = [fd EXCEPT ![j] = master[j]]
  /\ pump' = pump \cup {j}
  /\ Goto(j, "wait")
  /\ UNCHANGED <<serviceVars, provider, state, link, master, osVars, sending, notified, sessionVars>>

-----------------------------------------------------------------------------
(* The pump, which reads the number it was handed *)

\* A line of output, some of it left by a CLI that exited. The descriptor may by now be
\* another's, whose bytes it takes.
\* emit waits for the job's lock and lifts Antigravity's link from what it is given.
PumpLine(j) ==
  LET source == owner[master[j]]
  IN  /\ j \in pump /\ ~ Locked(j)
      /\ source \in Jobs /\ process[source] # "none"
      /\ provider[j] = "antigravity" /\ provider[source] = "antigravity"
      /\ link' = link \cup {j}
      /\ UNCHANGED <<serviceVars, provider, state, fd, threadVars, osVars, sending, notified, sessionVars>>

\* The read fails: the child side is gone, the number is closed, or what it now
\* names is at its end.
PumpEnds(j) ==
  LET source == owner[master[j]]
  IN  /\ j \in pump /\ ~ Locked(j)
      /\ source \in Jobs => process[source] \in {"ok", "bad"}
      /\ pump' = pump \ {j}
      /\ UNCHANGED <<serviceVars, jobVars, at, master, osVars, sending, notified, sessionVars>>

-----------------------------------------------------------------------------
(* _watch_process *)

\* process.wait returns.
AwaitCli(j) ==
  /\ at[j] = "wait" /\ process[j] \in {"ok", "bad"}
  /\ Goto(j, "detach")
  /\ UNCHANGED <<serviceVars, jobVars, master, pump, osVars, sending, notified, sessionVars>>

\* A slip of DetachPty: it does not wait for the lock.
DetachUnlocked(j) ==
  /\ at[j] = "detach"
  /\ fd' = [fd EXCEPT ![j] = None]
  /\ Goto(j, "close")
  /\ UNCHANGED <<serviceVars, provider, state, link, master, pump, osVars, sending, notified, sessionVars>>

\* detach_pty waits for an input that is being written.
DetachPty(j) ==
  /\ at[j] = "detach" /\ ~ Locked(j)
  /\ fd' = [fd EXCEPT ![j] = None]
  /\ Goto(j, "close")
  /\ UNCHANGED <<serviceVars, provider, state, link, master, pump, osVars, sending, notified, sessionVars>>

\* os.close: from here on the number may be given out again.
CloseMaster(j) ==
  /\ at[j] = "close"
  /\ owner' = [owner EXCEPT ![master[j]] = None]
  /\ Goto(j, "finish")
  /\ UNCHANGED <<serviceVars, jobVars, master, pump, process, sending, notified, sessionVars>>

\* A slip of Finish: an outcome the pane does not know.
FinishAsCancelled(j) ==
  /\ at[j] = "finish"
  /\ state' = [state EXCEPT ![j] = IF process[j] = "ok" THEN "succeeded" ELSE "cancelled"]
  /\ Goto(j, "clear")
  /\ UNCHANGED <<serviceVars, provider, fd, link, master, pump, osVars, sending, notified, sessionVars>>

\* finish, by the exit of the CLI.
Finish(j) ==
  /\ at[j] = "finish"
  /\ state' = [state EXCEPT ![j] = IF process[j] = "ok" THEN "succeeded" ELSE "failed"]
  /\ Goto(j, "clear")
  /\ UNCHANGED <<serviceVars, provider, fd, link, master, pump, osVars, sending, notified, sessionVars>>

-----------------------------------------------------------------------------
(* start_codex and _run_codex_job *)

\* The pause is over, whatever came of it; the ceremony's thread starts.
BeginCeremony(j) ==
  /\ at[j] = "pause"
  /\ Goto(j, "ceremony")
  /\ call' = "launch"
  /\ UNCHANGED <<serviceVars, jobVars, master, pump, osVars, sending, notified,
                 wireVars, responses, notes, nextId, blocked, verifying, failed>>

\* present: set_device_code gives the pane a link and a code.
Present(j) ==
  /\ at[j] = "ceremony" /\ call = "present"
  /\ link' = link \cup {j}
  /\ Return
  /\ UNCHANGED <<serviceVars, provider, state, fd, threadVars, osVars, sending, notified,
                 wireVars, responses, notes, nextId, verifying>>

\* finish, then resume_codex, before the job stops being the active one.
EndCeremony(j) ==
  /\ at[j] = "ceremony" /\ call = "done"
  /\ state' = [state EXCEPT ![j] = IF failed THEN "failed" ELSE "succeeded"]
  /\ Goto(j, "clear")
  /\ call' = "off" /\ failed' = FALSE /\ verifying' = FALSE
  /\ UNCHANGED <<serviceVars, provider, fd, link, master, pump, osVars, sending, notified,
                 wireVars, responses, notes, nextId, blocked>>

-----------------------------------------------------------------------------
(* Requests of operators, each in a thread of its own *)

HasCli(j) == at[j] \notin {"idle", "open pty", "spawn", "attach", "give up"}

\* cancel and terminate: refused for Codex, without a process and after its exit.
Cancel(j) ==
  /\ IsKnown(j) /\ provider[j] # "codex"
  /\ ~ Locked(j) /\ HasCli(j) /\ process[j] = "live"
  /\ process' = [process EXCEPT ![j] = "signalled"]
  /\ UNCHANGED <<serviceVars, jobVars, threadVars, owner, sending, notified, sessionVars>>

\* send_input and write_input: the lock is taken and the descriptor read.
TakeInput(j) ==
  /\ IsKnown(j) /\ state[j] = "running" /\ fd[j] # None
  /\ sending = NoInput
  /\ sending' = [job |-> j, fd |-> fd[j]]
  /\ UNCHANGED <<serviceVars, jobVars, threadVars, osVars, notified, sessionVars>>

\* os.write, or its error, and the lock is released.
WriteInput ==
  /\ sending # NoInput
  /\ sending' = NoInput
  /\ UNCHANGED <<serviceVars, jobVars, threadVars, osVars, notified, sessionVars>>

-----------------------------------------------------------------------------
(* External: the CLIs, and the other files and sockets of the server *)

CliExits(j) ==
  /\ process[j] \in {"live", "signalled"}
  /\ \E code \in {"ok", "bad"} : process' = [process EXCEPT ![j] = code]
  /\ UNCHANGED <<serviceVars, jobVars, threadVars, owner, sending, notified, sessionVars>>

OtherOpens(f) ==
  /\ owner[f] = None /\ \A g \in 1 .. (f - 1) : owner[g] # None
  /\ owner' = [owner EXCEPT ![f] = Other]
  /\ UNCHANGED <<serviceVars, jobVars, threadVars, process, sending, notified, sessionVars>>

OtherCloses(f) ==
  /\ owner[f] = Other
  /\ owner' = [owner EXCEPT ![f] = None]
  /\ UNCHANGED <<serviceVars, jobVars, threadVars, process, sending, notified, sessionVars>>

-----------------------------------------------------------------------------
InSession(step) ==
  /\ step
  /\ UNCHANGED <<serviceVars, jobVars, threadVars, osVars, sending, notified>>

JobStep(j) ==
  \/ OpenPty(j) \/ SpawnCli(j) \/ AttachPty(j)
  \/ AwaitCli(j) \/ DetachPty(j) \/ CloseMaster(j) \/ Finish(j)
  \/ BeginCeremony(j) \/ Present(j) \/ EndCeremony(j)
  \/ ClearActive(j) \/ Notify(j)
OperatorStep(j) == Cancel(j) \/ TakeInput(j)
OutsideStep ==
  \/ \E j \in Jobs : CliExits(j)
  \/ \E f \in Fds : OtherOpens(f) \/ OtherCloses(f)
  \/ InSession(ServerStep)

Next ==
  \/ \E j \in Jobs : \E p \in Offers[j] : NewJob(j, p)
  \/ \E j \in Jobs : JobStep(j) \/ PumpLine(j) \/ PumpEnds(j) \/ OperatorStep(j)
  \/ WriteInput
  \/ InSession(SessionStep)
  \/ OutsideStep

Init ==
  /\ known = {} /\ active = None
  /\ provider = [j \in Jobs |-> "none"] /\ state = [j \in Jobs |-> "new"]
  /\ fd = [j \in Jobs |-> None] /\ link = {}
  /\ at = [j \in Jobs |-> "idle"] /\ master = [j \in Jobs |-> None]
  /\ process = [j \in Jobs |-> "none"] /\ pump = {}
  /\ owner = [f \in Fds |-> None]
  /\ sending = NoInput /\ notified = {}
  /\ SessionInit

\* The job's own threads and the Codex ceremony go on; a write of input returns, and
\* typing, which goes on at an operator's pace, does not keep the lock from the
\* watcher for ever; a CLI that was signalled exits. One that was not may wait for its
\* operator for ever.
Fairness ==
  /\ \A j \in Jobs : WF_vars(JobStep(j))
  /\ \A j \in Jobs : WF_vars(process[j] = "signalled" /\ CliExits(j))
  /\ WF_vars(WriteInput) /\ \A j \in Jobs : SF_vars(DetachPty(j))
  /\ WF_vars(InSession(SessionStep))

Spec == Init /\ [][Next]_vars
FairSpec == Spec /\ Fairness

-----------------------------------------------------------------------------
(* Properties *)

Steps == {"idle", "open pty", "spawn", "attach", "wait", "detach", "close", "finish",
          "pause", "ceremony", "clear", "give up", "notify", "done"}

JobsTypeOK ==
  /\ known \in SUBSET Jobs /\ active \in Jobs \cup {None}
  /\ provider \in [Jobs -> {"none", "claude", "antigravity", "codex"}]
  /\ state \in [Jobs -> {"new", "running", "succeeded", "failed"}]
  /\ fd \in [Jobs -> Fds \cup {None}] /\ link \in SUBSET Jobs
  /\ at \in [Jobs -> Steps] /\ master \in [Jobs -> Fds \cup {None}]
  /\ process \in [Jobs -> {"none", "live", "signalled", "ok", "bad"}]
  /\ pump \in SUBSET Jobs
  /\ owner \in [Fds -> Jobs \cup {None, Other}]
  /\ sending \in [job : Jobs \cup {None}, fd : Fds \cup {None}]
  /\ notified \in SUBSET Jobs

\* The shape of every variable, the session's too.
TypeOK == JobsTypeOK /\ SessionTypeOK

\* Ceremonies run one at a time: the job that runs is the active one and the service
\* knows it, so that a second is refused and the first can be polled, typed into and
\* cancelled; and no other job has a CLI or a Codex child at work.
OneCeremony ==
  \A j \in Jobs :
    state[j] = "running" \/ process[j] \in {"live", "signalled"} \/ at[j] = "ceremony" =>
      active = j /\ IsKnown(j)

\* Input never lands on a descriptor that was closed and then reused by the OS
\* for something else: for as long as a line is being written, the descriptor is the
\* PTY of the job it was typed for (write_input, detach_pty).
InputLandsHome ==
  sending # NoInput => owner[sending.fd] = sending.job

\* A job ends with its ceremony: once its CLI was cancelled or has exited, or the
\* Codex ceremony began, the job gets an outcome, and one that succeeded is reported to
\* the server, which reloads the credentials.
JobsSettle ==
  \A j \in Jobs :
    (process[j] \in {"signalled", "ok", "bad"} \/ at[j] = "ceremony")
      ~> (state[j] = "failed" \/ (state[j] = "succeeded" /\ j \in notified))

\* What the pane is promised: jobs one at a time, one outcome each that stands, and
\* the latest of those that ended kept (JobService).
Promise == INSTANCE JobService
KeepsPromise == Promise!ServiceSpec
=============================================================================

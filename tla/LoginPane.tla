------------------------------ MODULE LoginPane ------------------------------
(***************************************************************************)
(* The login pane (the script of server/login_page.py) over the login      *)
(* routes of server/api.py: the pane starts a job, keeps a copy of it, and *)
(* polls the job while the copy runs and the status otherwise. Polls       *)
(* overlap, since a start polls while the timer's poll may be in flight;   *)
(* each request is answered by a thread of the server and its answer       *)
(* arrives later, in any order.                                            *)
(*                                                                         *)
(* The service is module JobService, which EnrolmentJobs implements. Jobs  *)
(* of other panes come and go; cancel and input carry nothing but a job's  *)
(* id and leave the copy alone, so they are only part of how a job ends.   *)
(* Messages, keys, the countdown and the layout are left out.              *)
(***************************************************************************)
EXTENDS JobService

CONSTANTS
  MaxPolls,  \* the polls in flight
  Losses     \* the requests the network loses

ASSUME PaneAssumption == MaxPolls \in Nat /\ Losses \in Nat

VARIABLES
  shown,     \* activeJob: what the pane knows of a job, or Nothing
  timer,     \* TRUE while pollTimer is set
  polls,     \* the polls in flight: what each asked about, and the answer
  starting,  \* the start in flight
  lost       \* the requests lost so far

paneVars == <<shown, timer, polls, starting, lost>>
vars == <<serviceVars, paneVars>>

Slots == 1 .. MaxPolls
None == 0

\* to_dict: what a job's answer tells apart.
Copy(j) == [id |-> j, state |-> state[j]]
Nothing == [id |-> None, state |-> "none"]

Idle == [stage |-> "idle", about |-> None, answer |-> Nothing]
IdleStart == [stage |-> "idle", job |-> None, answer |-> Nothing]

\* _active_id is cleared a little after the outcome is set, but before the next job.
MayBeActive(j) == IsKnown(j) /\ \A k \in Jobs : k > j => state[k] = "new"

-----------------------------------------------------------------------------
(* Polls *)

\* poll: the running job it shows, or the status of the service.
BeginPoll(s, job) ==
  /\ polls[s] = Idle /\ \A r \in 1 .. (s - 1) : polls[r] # Idle
  /\ polls' = [polls EXCEPT ![s] =
       [Idle EXCEPT !.stage = "asked", !.about = IF job.state = "running" THEN job.id ELSE None]]

TimerFires ==
  /\ timer
  /\ timer' = FALSE
  /\ \E s \in Slots : BeginPoll(s, shown)
  /\ UNCHANGED <<serviceVars, shown, starting, lost>>

Reply(s, stage, answer) ==
  polls' = [polls EXCEPT ![s].stage = stage, ![s].answer = answer]

\* login_job: a job the service no longer knows is a 404.
ServeJob(s) ==
  LET j == polls[s].about
  IN  /\ polls[s].stage = "asked" /\ j # None
      /\ \/ IsKnown(j) /\ Reply(s, "answered", Copy(j))
         \/ ~ IsKnown(j) /\ Reply(s, "failed", Nothing)
      /\ UNCHANGED <<serviceVars, shown, timer, starting, lost>>

\* login_status: the active job. One that has just ended may still be it.
ServeStatus(s) ==
  /\ polls[s].stage = "asked" /\ polls[s].about = None
  /\ \/ \E j \in Jobs : MayBeActive(j) /\ Reply(s, "answered", Copy(j))
     \/ Running = {} /\ Reply(s, "answered", Nothing)
  /\ UNCHANGED <<serviceVars, shown, timer, starting, lost>>

LosePoll(s) ==
  /\ polls[s].stage = "asked" /\ lost < Losses
  /\ lost' = lost + 1
  /\ Reply(s, "failed", Nothing)
  /\ UNCHANGED <<serviceVars, shown, timer, starting>>

\* A slip of EndPoll: a poll that failed does not schedule the next one.
EndPollUnlessFailed(s) ==
  /\ polls[s].stage \in {"answered", "failed"}
  /\ shown' = IF polls[s].stage = "answered" THEN polls[s].answer ELSE shown
  /\ timer' = (timer \/ polls[s].stage = "answered")
  /\ polls' = [polls EXCEPT ![s] = Idle]
  /\ UNCHANGED <<serviceVars, starting, lost>>

\* The answer replaces the copy, whatever the pane has learnt since it asked; an
\* error leaves it. Either way schedulePoll sets the timer anew.
EndPoll(s) ==
  /\ polls[s].stage \in {"answered", "failed"}
  /\ shown' = IF polls[s].stage = "answered" THEN polls[s].answer ELSE shown
  /\ timer' = TRUE
  /\ polls' = [polls EXCEPT ![s] = Idle]
  /\ UNCHANGED <<serviceVars, starting, lost>>

-----------------------------------------------------------------------------
(* Starting a job *)

\* guard: not while the copy runs.
ClickStart ==
  /\ shown.state # "running" /\ starting = IdleStart
  /\ starting' = [starting EXCEPT !.stage = "asked"]
  /\ UNCHANGED <<serviceVars, shown, timer, polls, lost>>

\* start_claude, start_antigravity, start_codex: a job, or a 409.
ServeStart ==
  /\ starting.stage = "asked"
  /\ \/ \E j \in Jobs :
          Begin(j) /\ starting' = [starting EXCEPT !.stage = "begun", !.job = j]
     \/ /\ Running # {}
        /\ starting' = [starting EXCEPT !.stage = "failed"]
        /\ UNCHANGED serviceVars
  /\ UNCHANGED <<shown, timer, polls, lost>>

\* The request's thread returns to_dict once its part is done, or raises after the
\* job failed for want of a PTY or a process.
AnswerStart ==
  /\ starting.stage = "begun"
  /\ \/ starting' = [starting EXCEPT !.stage = "answered", !.answer = Copy(starting.job)]
     \/ /\ state[starting.job] = "failed"
        /\ starting' = [IdleStart EXCEPT !.stage = "failed"]
  /\ UNCHANGED <<serviceVars, shown, timer, polls, lost>>

\* The copy is the new job's; then guard polls, beside a poll in flight.
EndStart ==
  /\ starting.stage \in {"answered", "failed"}
  /\ shown' = IF starting.stage = "answered" THEN starting.answer ELSE shown
  /\ \E s \in Slots : BeginPoll(s, shown')
  /\ starting' = IdleStart
  /\ UNCHANGED <<serviceVars, timer, lost>>

-----------------------------------------------------------------------------
Init ==
  /\ ServiceInit
  /\ shown = Nothing /\ timer = FALSE
  /\ polls = [s \in Slots |-> IF s = 1 THEN [Idle EXCEPT !.stage = "asked"] ELSE Idle]
  /\ starting = IdleStart /\ lost = 0

PaneStep(s) == ServeJob(s) \/ ServeStatus(s) \/ EndPoll(s)

Next ==
  \/ ServiceNext /\ UNCHANGED paneVars
  \/ TimerFires \/ ClickStart \/ ServeStart \/ AnswerStart \/ EndStart
  \/ \E s \in Slots : PaneStep(s) \/ LosePoll(s)

Spec == Init /\ [][Next]_vars

\* A request that was sent is answered or fails, its answer arrives, and timers fire.
PaneFairness ==
  /\ \A s \in Slots : WF_vars(PaneStep(s))
  /\ WF_vars(TimerFires) /\ WF_vars(AnswerStart \/ EndStart)

FairSpec == Spec /\ PaneFairness

-----------------------------------------------------------------------------
(* Properties *)

\* The copy of a job the service dropped from its history is polled for ever.
Stuck == shown.state = "running" /\ ~ IsKnown(shown.id)

\* The pane catches up: a job it shows running that has ended does not stay on it,
\* however polls overlap and whatever answers are late or lost, unless the service
\* dropped the job meanwhile (poll, guard and schedulePoll of the pane).
PaneCatchesUp ==
  \A j \in Jobs :
    (shown = [id |-> j, state |-> "running"] /\ state[j] # "running")
      ~> (shown # [id |-> j, state |-> "running"] \/ Stuck)
=============================================================================

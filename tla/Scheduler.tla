------------------------------ MODULE Scheduler ------------------------------
(***************************************************************************)
(* The fetch scheduler of the server (server/scheduler.py) over its SQLite *)
(* database (server/db.py): the loop thread that polls every due provider, *)
(* the request threads that force a fetch of all of them (fetch_now), the  *)
(* append-only readings table the API serves the newest row of, and the    *)
(* failure counter that outlives the process.                              *)
(*                                                                         *)
(* A call of _fetch_one is not atomic: each database call takes the        *)
(* Database lock for itself, so one action stands for one database call or *)
(* one update of the in-memory schedule, and the threads, the clock, a     *)
(* crash of the process or a failing database call may come in between.    *)
(***************************************************************************)
EXTENDS Integers, Sequences, FiniteSets

CONSTANTS
  Providers,        \* the providers that may be configured
  Claude,           \* those with a refresh token of their own (CLAUDE, CLAUDE_WORK)
  ReauthOnly,       \* those only a human can sign in again (_REAUTH_DETAIL)
  Codex,            \* those enrolment may take away for a while (pause_codex)
  NoProvider,
  Loop,             \* the thread of _run_loop
  RefreshThreads,   \* the threads that call fetch_now
  Usage,            \* what a provider may report: natural numbers
  Boxed,            \* the reports that carry a throttle (boxed, low_interactivity)
  Epsilon,          \* _change_epsilon
  Ladder,           \* _idle_ladder; its first rung is the poll floor
  Cap,              \* _failure_cap
  RateDefault,      \* _rate_limit_default_seconds
  RetryAfters,      \* what a 429 may carry in Retry-After; 0 is "no header"
  OfflineThreshold, \* _offline_threshold
  Retention,        \* _retention_days
  PruneGap,         \* the 3600 s between prunes
  MinSleep, MaxSleep,
  MaxExponent,      \* the largest e for which float(2 ** e) exists (1023 in the code)
  StoreFaults,      \* may a call of the database or of the token store raise?
  MaxTime, MaxRequests, MaxRestarts, MaxConfigured, \* bounds on the runs
  Horizon           \* after this time the clock only moves while the loop waits

Never == -1
Floor == Ladder[1]
Threads == {Loop} \cup RefreshThreads

ASSUME SetsAssumption ==
  /\ Claude \subseteq Providers /\ ReauthOnly \subseteq Providers /\ Codex \subseteq Providers
  /\ Claude \cap ReauthOnly = {}
  /\ NoProvider \notin Providers
  /\ Loop \notin RefreshThreads
  /\ Usage \subseteq Nat /\ Boxed \subseteq Usage
  /\ StoreFaults \in BOOLEAN

ASSUME NumbersAssumption ==
  /\ Ladder \in Seq(Nat \ {0}) /\ Len(Ladder) > 0
  /\ \A i \in DOMAIN Ladder : Ladder[i] >= Floor
  /\ Cap \in Nat /\ Cap >= Floor
  /\ RateDefault \in Nat
  /\ RetryAfters \subseteq Nat
  /\ OfflineThreshold \in Nat \ {0}
  /\ {Retention, PruneGap, MinSleep, MaxSleep, MaxExponent, Epsilon} \subseteq Nat
  /\ {MaxTime, MaxRequests, MaxRestarts, MaxConfigured, Horizon} \subseteq Nat

\* A fact of arithmetic that the provers do not have.
ASSUME PowersAssumption == \A e \in 0..MaxExponent : 2^e \in Nat \ {0}

VARIABLES
  clock,
  configured,  \* the providers _get_fetch_tasks returns
  stopping,    \* _stop_event
  rows,        \* table readings
  nextId,      \* its AUTOINCREMENT
  fails,       \* table provider_state: consecutive_failures
  known,       \* the providers in _schedules
  sched,       \* their _ProviderSchedule
  lastPrune,   \* _last_prune
  pc,          \* where each thread is
  todo,        \* the tasks of its `for` that are left
  job,         \* the locals of its _fetch_one
  cycle,       \* the loop's locals: `tasks`, `now`, and when its wait ends
  requests, restarts

dbVars == <<rows, nextId, fails>>
memVars == <<known, sched, lastPrune>>
boundVars == <<requests, restarts>>
vars == <<clock, configured, stopping, dbVars, memVars, pc, todo, job, cycle, boundVars>>

-----------------------------------------------------------------------------
(* Readings, schedules and the locals of a fetch *)

\* A rejected credential, a 429, and everything else a fetch may raise.
Failures == {"auth", "rate", "other"}

\* usage is -1 in an offline reading; note tells a reading with _REAUTH_DETAIL.
Row == [id : Nat, provider : Providers, status : {"ok", "stale", "offline"},
        usage : Usage \cup {-1}, note : BOOLEAN, at : Nat]

\* What the fetch returned or raised, when, and the Retry-After it came with.
Outcome == [kind : {"none", "ok"} \cup Failures, usage : Usage \cup {-1}, at : Nat, after : Nat]
NoOutcome == [kind |-> "none", usage |-> -1, at |-> 0, after |-> 0]

\* previous, existing: the rows read, a set that is empty or a singleton.
\* handling: the thread is inside the `except FetchError` handler.
Job == [provider : Providers \cup {NoProvider}, previous : SUBSET Row, existing : SUBSET Row,
        out : Outcome, failures : Nat, handling : BOOLEAN]
NoJob == [provider |-> NoProvider, previous |-> {}, existing |-> {}, out |-> NoOutcome,
          failures |-> 0, handling |-> FALSE]

Schedule == [interval : Nat, nextDue : Nat, lastSuccess : Nat \cup {Never}, failures : Nat]
DueNow == [interval |-> Floor, nextDue |-> clock, lastSuccess |-> Never, failures |-> 0]

\* _schedule: the provider's schedule, due now on first sight.
ScheduleOf(p) == IF p \in known THEN sched[p] ELSE DueNow

FetchSteps == {"previous", "fetch", "refresh", "retry", "store", "reset", "advance",
               "existing", "increment", "backoff", "record"}
LoopSteps == {"top", "scan", "prune", "sleep", "wait", "exited", "dead"}

\* The newest row of each provider, as the API reads it: WHERE id IN
\* (SELECT MAX(id) ... GROUP BY provider).
Newest(table, p) ==
  {r \in table : r.provider = p /\ \A q \in table : q.provider = p => q.id <= r.id}
Latest(p) == Newest(rows, p)

Insert(r) == rows' = rows \cup {r} /\ nextId' = nextId + 1

\* Slips of Pruned: the row kept is the oldest one, or none is.
PrunedToOldest(table, cutoff) ==
  {r \in table : r.at >= cutoff \/ \A q \in table : q.provider = r.provider => q.id >= r.id}
PrunedByAgeOnly(table, cutoff) == {r \in table : r.at >= cutoff}

\* prune_old_readings: old rows go, the newest of every provider stays.
Pruned(table, cutoff) == {r \in table : r.at >= cutoff \/ r \in Newest(table, r.provider)}

-----------------------------------------------------------------------------
(* The two ladders *)

\* _next_idle_interval: the first rung above the current interval, or the last.
NextIdleInterval(current) ==
  LET above == {i \in DOMAIN Ladder : Ladder[i] > current}
  IN  IF above = {} THEN Ladder[Len(Ladder)]
      ELSE Ladder[CHOOSE i \in above : \A j \in above : i <= j]

\* _reading_changed, for a reading that is not stale: the percentages moved by
\* at least epsilon, or the throttle did.
ReadingChanged(old, new) ==
  \/ (old \in Boxed) # (new \in Boxed)
  \/ old - new >= Epsilon
  \/ new - old >= Epsilon

Recovered(previous) == \A r \in previous : r.status # "ok"

SuccessInterval(p, previous, usage) ==
  IF usage \in Boxed \/ Recovered(previous) \/ \E r \in previous : ReadingChanged(r.usage, usage)
  THEN Floor
  ELSE NextIdleInterval(ScheduleOf(p).interval)

\* _failure_backoff, for a counter whose power of two is still a float.
Larger(a, b) == IF a > b THEN a ELSE b
Smaller(a, b) == IF a < b THEN a ELSE b
FailureBackoff(failures, out) ==
  LET doubled == Smaller(Floor * 2^(failures - 1), Cap)
  IN  CASE out.kind # "rate" -> doubled
        [] out.kind = "rate" /\ out.after # 0 -> Larger(doubled, out.after)
        [] OTHER -> Larger(doubled, RateDefault)

-----------------------------------------------------------------------------
(* _fetch_one, one action per database call or schedule update *)

Goto(t, step) == pc' = [pc EXCEPT ![t] = step]
Begin(t, p) == /\ Goto(t, "previous")
               /\ job' = [job EXCEPT ![t] = [NoJob EXCEPT !.provider = p]]
Return(t) == Goto(t, "scan") /\ job' = [job EXCEPT ![t] = NoJob]

\* An exception leaves _fetch_one: it ends the loop's thread for good, while a
\* request thread only answers its own request with an error.
Escape(t) ==
  /\ Goto(t, IF t = Loop THEN "dead" ELSE "idle")
  /\ todo' = [todo EXCEPT ![t] = {}]
  /\ job' = [job EXCEPT ![t] = NoJob]

ReadPrevious(t) ==
  /\ pc[t] = "previous"
  /\ job' = [job EXCEPT ![t].previous = Latest(job[t].provider)]
  /\ Goto(t, "fetch")
  /\ UNCHANGED <<clock, configured, stopping, dbVars, memVars, todo, cycle, boundVars>>

FetchSucceeds(t) ==
  /\ pc[t] = "fetch"
  /\ \E u \in Usage :
       job' = [job EXCEPT ![t].out = [kind |-> "ok", usage |-> u, at |-> clock, after |-> 0]]
  /\ Goto(t, "store")
  /\ UNCHANGED <<clock, configured, stopping, dbVars, memVars, todo, cycle, boundVars>>

\* Where the handler sends a failed fetch of p.
AfterFailure(p, kind) ==
  CASE kind = "auth" /\ p \in Claude     -> "refresh"
    [] kind = "auth" /\ p \in ReauthOnly -> "increment"
    [] OTHER                             -> "existing"

FetchFails(t) ==
  /\ pc[t] = "fetch"
  /\ \E kind \in Failures, after \in RetryAfters :
       /\ kind # "rate" => after = 0
       /\ job' = [job EXCEPT ![t].out = [kind |-> kind, usage |-> -1, at |-> 0, after |-> after],
                             ![t].handling = TRUE]
       /\ Goto(t, AfterFailure(job[t].provider, kind))
  /\ UNCHANGED <<clock, configured, stopping, dbVars, memVars, todo, cycle, boundVars>>

\* _try_refresh_claude: there is a refresh token and the OAuth endpoint takes
\* it, or the failure is recorded.
RefreshToken(t) ==
  /\ pc[t] = "refresh"
  /\ \E step \in {"retry", "existing"} : Goto(t, step)
  /\ UNCHANGED <<clock, configured, stopping, dbVars, memVars, todo, job, cycle, boundVars>>

\* _retry_claude catches a FetchError only: anything else the fetch raises
\* leaves the handler, and _fetch_one with it.
RetryFetch(t) ==
  /\ pc[t] = "retry"
  /\ \/ /\ \E u \in Usage :
               job' = [job EXCEPT ![t].out =
                         [kind |-> "ok", usage |-> u, at |-> clock, after |-> 0]]
        /\ Goto(t, "store")
        /\ UNCHANGED todo
     \/ /\ Goto(t, "existing")
        /\ UNCHANGED <<todo, job>>
     \/ Escape(t)
  /\ UNCHANGED <<clock, configured, stopping, dbVars, memVars, cycle, boundVars>>

StoreReading(t) ==
  /\ pc[t] = "store"
  /\ Insert([id |-> nextId, provider |-> job[t].provider, status |-> "ok",
             usage |-> job[t].out.usage, note |-> FALSE, at |-> job[t].out.at])
  /\ Goto(t, "reset")
  /\ UNCHANGED <<clock, configured, stopping, fails, memVars, todo, job, cycle, boundVars>>

\* A slip of ResetFailures: the UPDATE is never committed.
ForgetToReset(t) ==
  /\ pc[t] = "reset"
  /\ Goto(t, "advance")
  /\ UNCHANGED <<clock, configured, stopping, dbVars, memVars, todo, job, cycle, boundVars>>

ResetFailures(t) ==
  /\ pc[t] = "reset"
  /\ fails' = [fails EXCEPT ![job[t].provider] = 0]
  /\ Goto(t, "advance")
  /\ UNCHANGED <<clock, configured, stopping, rows, nextId, memVars, todo, job, cycle, boundVars>>

\* A slip of ScheduleAfterSuccess: the interval runs from the fetch.
ScheduleFromTheFetch(t) ==
  LET p == job[t].provider
      interval == SuccessInterval(p, job[t].previous, job[t].out.usage)
  IN  /\ pc[t] = "advance"
      /\ known' = known \cup {p}
      /\ sched' = [sched EXCEPT ![p] = [interval |-> interval, failures |-> 0,
                                       nextDue |-> job[t].out.at + interval,
                                       lastSuccess |-> job[t].out.at]]
      /\ Return(t)
      /\ UNCHANGED <<clock, configured, stopping, dbVars, lastPrune, todo, cycle, boundVars>>

ScheduleAfterSuccess(t) ==
  LET p == job[t].provider
      interval == SuccessInterval(p, job[t].previous, job[t].out.usage)
  IN  /\ pc[t] = "advance"
      /\ known' = known \cup {p}
      /\ sched' = [sched EXCEPT ![p] = [interval |-> interval, nextDue |-> clock + interval,
                                       lastSuccess |-> job[t].out.at, failures |-> 0]]
      /\ Return(t)
      /\ UNCHANGED <<clock, configured, stopping, dbVars, lastPrune, todo, cycle, boundVars>>

ReadExisting(t) ==
  /\ pc[t] = "existing"
  /\ job' = [job EXCEPT ![t].existing = Latest(job[t].provider)]
  /\ Goto(t, "increment")
  /\ UNCHANGED <<clock, configured, stopping, dbVars, memVars, todo, cycle, boundVars>>

\* A slip of IncrementFailures: the new count is returned and not kept.
CountOnlyInMemory(t) ==
  /\ pc[t] = "increment"
  /\ job' = [job EXCEPT ![t].failures = fails[job[t].provider] + 1]
  /\ Goto(t, "backoff")
  /\ UNCHANGED <<clock, configured, stopping, dbVars, memVars, todo, cycle, boundVars>>

IncrementFailures(t) ==
  LET p == job[t].provider
  IN  /\ pc[t] = "increment"
      /\ fails' = [fails EXCEPT ![p] = @ + 1]
      /\ job' = [job EXCEPT ![t].failures = fails[p] + 1]
      /\ Goto(t, "backoff")
      /\ UNCHANGED <<clock, configured, stopping, rows, nextId, memVars, todo, cycle, boundVars>>

\* _record_auth_failure rather than _record_failure.
NeedsLogin(t) == job[t].out.kind = "auth" /\ job[t].provider \in ReauthOnly

\* A slip of ScheduleAfterFailure: the due time is moved the wrong way.
ScheduleBackwards(t) ==
  LET p == job[t].provider
      backoff == IF NeedsLogin(t) THEN Cap ELSE FailureBackoff(job[t].failures, job[t].out)
  IN  /\ pc[t] = "backoff"
      /\ known' = known \cup {p}
      /\ sched' = [sched EXCEPT ![p].nextDue = clock - backoff]
      /\ Goto(t, "record")
      /\ UNCHANGED <<clock, configured, stopping, dbVars, lastPrune, todo, job, cycle, boundVars>>

\* The schedule part of _record_failure and _record_auth_failure. `now` is read
\* here, for the offline reading as well.
ScheduleAfterFailure(t) ==
  LET p == job[t].provider
      n == job[t].failures
      backoff == IF NeedsLogin(t) THEN Cap ELSE FailureBackoff(n, job[t].out)
  IN  /\ pc[t] = "backoff"
      /\ NeedsLogin(t) \/ n - 1 <= MaxExponent
      /\ known' = known \cup {p}
      /\ sched' = [sched EXCEPT ![p] = [interval |-> backoff, nextDue |-> clock + backoff,
                                       lastSuccess |-> ScheduleOf(p).lastSuccess, failures |-> n]]
      /\ job' = [job EXCEPT ![t].out.at = clock]
      /\ Goto(t, "record")
      /\ UNCHANGED <<clock, configured, stopping, dbVars, lastPrune, todo, cycle, boundVars>>

\* float(2 ** (failures - 1)) raises OverflowError inside the handler.
BackoffOverflows(t) ==
  /\ pc[t] = "backoff"
  /\ ~ NeedsLogin(t) /\ job[t].failures - 1 > MaxExponent
  /\ Escape(t)
  /\ UNCHANGED <<clock, configured, stopping, dbVars, memVars, cycle, boundVars>>

\* The row a failure leaves: the existing reading marked stale, or an offline one
\* when there is none, when failures pile up or when a login is needed.
FailureRow(t) ==
  LET goesOffline == NeedsLogin(t) \/ job[t].failures >= OfflineThreshold \/ job[t].existing = {}
      offline == [id |-> nextId, provider |-> job[t].provider, status |-> "offline",
                  usage |-> -1, note |-> NeedsLogin(t), at |-> job[t].out.at]
  IN  IF goesOffline THEN {offline}
      ELSE {[r EXCEPT !.id = nextId, !.status = "stale",
                      !.note = @ /\ r.status # "offline"] : r \in job[t].existing}

RecordFailure(t) ==
  /\ pc[t] = "record"
  /\ \E r \in FailureRow(t) : Insert(r)
  /\ Return(t)
  /\ UNCHANGED <<clock, configured, stopping, fails, memVars, todo, cycle, boundVars>>

\* A call of the database or of the token store raises. In the `try` of
\* _fetch_one the failure is recorded; before it or in a handler it escapes.
StoreCallFails(t) ==
  /\ StoreFaults
  /\ \/ /\ pc[t] \in {"store", "reset"} /\ ~ job[t].handling
        /\ job' = [job EXCEPT ![t].out = [NoOutcome EXCEPT !.kind = "other"],
                              ![t].handling = TRUE]
        /\ Goto(t, "existing")
        /\ UNCHANGED todo
     \/ /\ \/ pc[t] \in {"previous", "refresh", "existing", "increment", "record"}
           \/ pc[t] \in {"store", "reset"} /\ job[t].handling
        /\ Escape(t)
  /\ UNCHANGED <<clock, configured, stopping, dbVars, memVars, cycle, boundVars>>

FetchStep(t) ==
  \/ ReadPrevious(t) \/ FetchSucceeds(t) \/ FetchFails(t) \/ RefreshToken(t) \/ RetryFetch(t)
  \/ StoreReading(t) \/ ResetFailures(t) \/ ScheduleAfterSuccess(t)
  \/ ReadExisting(t) \/ IncrementFailures(t) \/ ScheduleAfterFailure(t)
  \/ BackoffOverflows(t) \/ RecordFailure(t) \/ StoreCallFails(t)

-----------------------------------------------------------------------------
(* _run_loop and fetch_now *)

\* A slip of LoopTop: the tasks are those of the first cycle for ever.
LoopTopWithFirstTasks ==
  /\ pc[Loop] = "top" /\ ~ stopping
  /\ LET tasks == IF cycle.tasks = {} THEN configured ELSE cycle.tasks
     IN  /\ todo' = [todo EXCEPT ![Loop] = tasks]
         /\ cycle' = [cycle EXCEPT !.tasks = tasks, !.now = clock]
  /\ Goto(Loop, "scan")
  /\ UNCHANGED <<clock, configured, stopping, dbVars, memVars, job, boundVars>>

\* The head of the `while`: the tasks and `now` are read once for the cycle.
LoopTop ==
  /\ pc[Loop] = "top"
  /\ \/ /\ stopping
        /\ Goto(Loop, "exited")
        /\ UNCHANGED <<todo, cycle>>
     \/ /\ ~ stopping
        /\ todo' = [todo EXCEPT ![Loop] = configured]
        /\ cycle' = [cycle EXCEPT !.tasks = configured, !.now = clock]
        /\ Goto(Loop, "scan")
  /\ UNCHANGED <<clock, configured, stopping, dbVars, memVars, job, boundVars>>

\* The next task, in any order: fetched when due at the cycle's `now`.
LoopScan(p) ==
  /\ pc[Loop] = "scan" /\ p \in todo[Loop]
  /\ \/ /\ stopping
        /\ Goto(Loop, "exited")
        /\ todo' = [todo EXCEPT ![Loop] = {}]
        /\ UNCHANGED <<known, sched, job>>
     \/ /\ ~ stopping
        /\ todo' = [todo EXCEPT ![Loop] = @ \ {p}]
        /\ known' = known \cup {p}
        /\ sched' = [sched EXCEPT ![p] = ScheduleOf(p)]
        /\ IF cycle.now >= ScheduleOf(p).nextDue THEN Begin(Loop, p) ELSE UNCHANGED <<pc, job>>
  /\ UNCHANGED <<clock, configured, stopping, dbVars, lastPrune, cycle, boundVars>>

\* The `for` is done.
LoopScanned ==
  /\ pc[Loop] = "scan" /\ todo[Loop] = {}
  /\ Goto(Loop, "prune")
  /\ UNCHANGED <<clock, configured, stopping, dbVars, memVars, todo, job, cycle, boundVars>>

\* _maybe_prune: a prune that raises is retried in the next window.
MaybePrune ==
  /\ pc[Loop] = "prune"
  /\ IF lastPrune = Never \/ cycle.now - lastPrune >= PruneGap
     THEN /\ \/ rows' = Pruned(rows, clock - Retention)
             \/ StoreFaults /\ UNCHANGED rows
          /\ lastPrune' = cycle.now
     ELSE UNCHANGED <<rows, lastPrune>>
  /\ Goto(Loop, "sleep")
  /\ UNCHANGED <<clock, configured, stopping, nextId, fails, known, sched, todo, job, cycle, boundVars>>

\* _seconds_until_next_due of the cycle's tasks, and the start of the wait.
EarliestDue(tasks) == CHOOSE d \in {sched[p].nextDue : p \in tasks} :
                        \A p \in tasks : d <= sched[p].nextDue
SecondsUntilNextDue(tasks) ==
  IF tasks = {} THEN Floor
  ELSE Larger(MinSleep, Smaller(EarliestDue(tasks) - clock, MaxSleep))

LoopSleep ==
  /\ pc[Loop] = "sleep"
  /\ cycle' = [cycle EXCEPT !.wake = clock + SecondsUntilNextDue(cycle.tasks)]
  /\ Goto(Loop, "wait")
  /\ UNCHANGED <<clock, configured, stopping, dbVars, memVars, todo, job, boundVars>>

LoopWake ==
  /\ pc[Loop] = "wait"
  /\ clock >= cycle.wake \/ stopping
  /\ Goto(Loop, "top")
  /\ UNCHANGED <<clock, configured, stopping, dbVars, memVars, todo, job, cycle, boundVars>>

\* fetch_now: every configured provider, whether due or not.
FetchNow(t) ==
  /\ pc[t] = "idle"
  /\ requests < MaxRequests /\ requests' = requests + 1
  /\ todo' = [todo EXCEPT ![t] = configured]
  /\ Goto(t, "scan")
  /\ UNCHANGED <<clock, configured, stopping, dbVars, memVars, job, cycle, restarts>>

FetchNowNext(t, p) ==
  /\ pc[t] = "scan" /\ p \in todo[t]
  /\ todo' = [todo EXCEPT ![t] = @ \ {p}]
  /\ Begin(t, p)
  /\ UNCHANGED <<clock, configured, stopping, dbVars, memVars, cycle, boundVars>>

FetchNowReturns(t) ==
  /\ pc[t] = "scan" /\ todo[t] = {}
  /\ Goto(t, "idle")
  /\ UNCHANGED <<clock, configured, stopping, dbVars, memVars, todo, job, cycle, boundVars>>

-----------------------------------------------------------------------------
(* What the rest of the server and the world do *)

\* Time passes. After Horizon it passes only while the loop waits, so that a
\* bounded run does not end in the middle of a cycle.
Tick ==
  /\ clock < MaxTime
  /\ clock < Horizon \/ pc[Loop] \in {"exited", "dead"} \/ (pc[Loop] = "wait" /\ clock < cycle.wake)
  /\ clock' = clock + 1
  /\ UNCHANGED <<configured, stopping, dbVars, memVars, pc, todo, job, cycle, boundVars>>

\* update_credentials (a first credential) and resume_codex.
Configure(p) ==
  /\ p \notin configured /\ Cardinality(configured) < MaxConfigured
  /\ configured' = configured \cup {p}
  /\ UNCHANGED <<clock, stopping, dbVars, memVars, pc, todo, job, cycle, boundVars>>

\* pause_codex: the tile is dropped, a task already taken is still fetched.
PauseCodex(p) ==
  /\ p \in Codex \cap configured
  /\ configured' = configured \ {p}
  /\ UNCHANGED <<clock, stopping, dbVars, memVars, pc, todo, job, cycle, boundVars>>

\* stop, at shutdown.
Stop ==
  /\ ~ stopping
  /\ stopping' = TRUE
  /\ UNCHANGED <<clock, configured, dbVars, memVars, pc, todo, job, cycle, boundVars>>

\* The process dies, or ends, and a new one calls start: only the database is left.
Idle == [t \in Threads |-> IF t = Loop THEN "top" ELSE "idle"]
NoCycle == [tasks |-> {}, now |-> 0, wake |-> 0]
Blank == [interval |-> Floor, nextDue |-> 0, lastSuccess |-> Never, failures |-> 0]

Restart ==
  /\ restarts < MaxRestarts /\ restarts' = restarts + 1
  /\ stopping' = FALSE
  /\ known' = {} /\ sched' = [p \in Providers |-> Blank] /\ lastPrune' = Never
  /\ pc' = Idle
  /\ todo' = [t \in Threads |-> {}]
  /\ job' = [t \in Threads |-> NoJob]
  /\ cycle' = NoCycle
  /\ UNCHANGED <<clock, configured, dbVars, requests>>

Init ==
  /\ clock = 0
  /\ configured \in {P \in SUBSET Providers : Cardinality(P) <= MaxConfigured}
  /\ stopping = FALSE
  /\ rows = {} /\ nextId = 1 /\ fails = [p \in Providers |-> 0]
  /\ known = {} /\ sched = [p \in Providers |-> Blank] /\ lastPrune = Never
  /\ pc = Idle
  /\ todo = [t \in Threads |-> {}]
  /\ job = [t \in Threads |-> NoJob]
  /\ cycle = NoCycle
  /\ requests = 0 /\ restarts = 0

LoopStep ==
  \/ LoopTop \/ (\E p \in Providers : LoopScan(p)) \/ LoopScanned
  \/ MaybePrune \/ LoopSleep \/ LoopWake
  \/ FetchStep(Loop)

RefreshStep(t) ==
  (\E p \in Providers : FetchNowNext(t, p)) \/ FetchNowReturns(t) \/ FetchStep(t)

Next ==
  \/ LoopStep
  \/ \E t \in RefreshThreads : FetchNow(t) \/ RefreshStep(t)
  \/ \E p \in Providers : Configure(p) \/ PauseCodex(p)
  \/ Tick \/ Stop \/ Restart

Spec == Init /\ [][Next]_vars

\* Threads keep running, every fetch ends (each fetcher has a timeout) and time
\* passes. Nothing obliges anybody to enrol, to ask for a refresh or to restart.
Fairness == WF_vars(LoopStep) /\ WF_vars(Tick) /\ \A t \in RefreshThreads : WF_vars(RefreshStep(t))
FairSpec == Spec /\ Fairness

-----------------------------------------------------------------------------
(* Properties *)

\* The shape of every variable.
TypeOK ==
  /\ clock \in Nat /\ configured \in SUBSET Providers /\ stopping \in BOOLEAN
  /\ rows \in SUBSET Row /\ nextId \in Nat /\ fails \in [Providers -> Nat]
  /\ known \in SUBSET Providers /\ sched \in [Providers -> Schedule]
  /\ lastPrune \in Nat \cup {Never}
  /\ pc \in [Threads -> FetchSteps \cup LoopSteps \cup {"idle"}]
  /\ todo \in [Threads -> SUBSET Providers] /\ job \in [Threads -> Job]
  /\ cycle \in [tasks : SUBSET Providers, now : Nat, wake : Nat]
  /\ requests \in Nat /\ restarts \in Nat

\* With the loop alone: a provider whose persisted failure counter is zero is
\* served a reading of a real fetch, never a stale or offline one, wherever the
\* process crashed and whichever database call failed. It rests on the order of
\* the calls: a success stores before it resets, a failure counts before it stores.
ZeroCountServesFresh ==
  \A p \in Providers : fails[p] = 0 => \A r \in Latest(p) : r.status = "ok"

\* Once a provider has been served a reading it always is: neither a prune nor a
\* crash takes the last row of a provider that has been failing for long.
ServedStaysServed == [][\A p \in Providers : Latest(p) # {} => Latest(p)' # {}]_vars

\* With the loop alone: what is served never goes back in time. A stale reading
\* is the copy of the newest one, so its fetched_at is at least that of the
\* reading it replaces.
NeverServeOlder ==
  [][\A p \in Providers : \A r \in Latest(p), q \in Latest(p)' : r.at <= q.at]_vars

\* No thread is working on p.
AtRest(p) == \A t \in Threads : job[t].provider # p
\* This process has finished a fetch of p.
Polled(p) == p \in known /\ (sched[p].failures > 0 \/ sched[p].lastSuccess # Never)

\* The loop takes p up to fetch it.
LoopTakes(p) == pc[Loop] = "scan" /\ pc'[Loop] = "previous" /\ job'[Loop].provider = p

\* The loop does not decide to poll a provider within the floor of any reading it has of
\* it, its own or a request's, when no fetch of the provider is under way, this process
\* has finished one before, and the database takes its calls. Fetches may have overlapped,
\* and the last to end, which sets the due time, may be the one that began first. (It is
\* the decision: a request may still succeed between it and the poll.)
FloorBetweenPolls ==
  [][\A p \in Providers :
       LoopTakes(p) /\ Polled(p) /\ AtRest(p) /\ ~ StoreFaults =>
         \A r \in rows : r.provider = p /\ r.status = "ok" => cycle.now >= r.at + Floor]_vars

\* With the loop alone: once this process has finished a fetch of a provider, its
\* in-memory schedule, its persisted counter and its served reading tell one story.
StoriesAgree ==
  \A p \in Providers : AtRest(p) /\ Polled(p) /\ pc[Loop] # "dead" =>
    /\ sched[p].failures = fails[p]
    /\ \A r \in Latest(p) :
         /\ r.status = "ok" <=> fails[p] = 0
         /\ r.status = "ok" => r.at = sched[p].lastSuccess
         /\ fails[p] >= OfflineThreshold => r.status = "offline"

\* A provider that is configured and due is polled, or rescheduled by a request,
\* unless the loop has ended: no provider starves while another one fails, and
\* the sleep never outlasts a due time by more than MaxSleep.
IsDue(p) == p \in configured /\ clock >= ScheduleOf(p).nextDue /\ clock <= Horizon
DueIsPolled ==
  \A p \in Providers :
    IsDue(p) ~> (p \notin configured \/ clock < ScheduleOf(p).nextDue \/ pc[Loop] \in {"exited", "dead"})

\* "A non-FetchError must be contained; if it escapes, _run_loop's thread dies
\* and every provider stops fetching for the life of the pod" (scheduler.py:560).
LoopSurvives == pc[Loop] # "dead"

=============================================================================

# usage-dashboard, specified in TLA+

usage-dashboard collects how much of each AI provider's quota is used and shows it on
small panels. A server (FastAPI, one process in a pod) polls the providers, keeps their
readings in SQLite and their credentials in a JSON file, and lets an operator enrol
accounts; a panel (pygame on a Raspberry Pi) polls the server. This directory models the
parts of it whose correctness depends on interleavings, crashes and orderings, checks
small instances with TLC and proves theorems for all instances with TLAPS.

All paths below are relative to the repository; `server/`, `client/`, `shared/`,
`deploy/` and `cli.py` stand for those under `src/usage_dashboard/`.

## 1. Inventory

| Component | State | Operations | Interacts with |
|---|---|---|---|
| Polling scheduler, `server/scheduler.py` | a `_ProviderSchedule` per provider, credentials, the Codex client, `_last_prune`, the stop event | `_run_loop`, `_fetch_one`, `fetch_now`, `_record_failure`, `_try_refresh_claude`, `update_credentials`, `pause_codex`, `resume_codex`, `stop` | calls the fetchers, the database and the token store; is called by request threads and by enrolment |
| Reading store, `server/db.py` | tables `readings` (append-only) and `provider_state` (failure counter) | `store_reading`, `get_latest_readings`, `increment_failures`, `reset_failures`, `prune_old_readings` | one lock per call; the API reads it, the scheduler writes it |
| Enrolment, `server/enrolment.py` and `cli.py` | jobs and their state, `_active_id`, a PTY per job | `start_*`, `cancel`, `send_input`, `submit_credential`, `_run_codex_job` | threads and child processes; pauses and resumes the scheduler's Codex client; writes the token store |
| Codex App Server client, `server/codex_app_server.py` | `_closed`, `_session`, a lock; a child process with buffered responses and notifications | `_acquire`, `request`, `wait_for_notification`, `close` | shared by the loop, `fetch_now` and enrolment |
| Antigravity home, `server/fetch_antigravity.py` and `cli.py` | the directories `<home>`, `<home>.prev`, `<home>.enrol-*`, the files `<home>.swapping` and `<home>.lock` | `install_home`, `_recover_interrupted_swap`, `run_usage_command`, `login_antigravity` | two processes and an operator who deletes directories |
| Credential store, `server/token_store.py` | one JSON file, a lock file | `get`, `save`, `save_credential` | the server and the CLI, two processes |
| Start-up and reload, `server/main.py` | none of its own | `_resolve_claude_tokens`, `_reload_credentials`, `_after_enrolment` | token store, scheduler, environment |
| Provider fetchers, `server/fetch_*.py` | none | one HTTP request, or one run of a CLI, and its parsing | called by the scheduler |
| HTTP API and login page, `server/api.py`, `login_page.py` | the refresh limiter, the provider list | request handlers | the parts above |
| Panel fetcher, `client/fetcher.py` | the latest payload, its interval, the refresh state, wake and stop events | poll thread, `request_refresh`, `poke`, `stop` | the server over HTTP, the panel's loop |
| Panel, `client/gui.py`, `schedule.py`, `backlight.py`, `brightness.py`, `diagnostics.py` | the view, the last tap, sleep schedule, manual wake, backlight | the frames of the event loop and their taps | the panel fetcher, the sysfs node, the level saved on disk |
| Panel layout, `client/layout.py` | none | tiles, status line, overlay, hit test, rotation of a touch | the panel |
| Updater and redeployer, `deploy/pi/update.sh`, `deploy/redeploy.py` | a git checkout, an environment, installed units, breadcrumbs | fetch, reset, install, restart, roll back | git, pip, systemd |
| Repository checks, `scripts/`, `githooks/` | none | scans | none |

### What is hard here

* *Interleaving.* `fetch_now` runs `_fetch_one` on a request thread while the loop runs
  it too, and no lock spans a fetch. Enrolment runs in its own threads and in child
  processes, beside the polls.
* *Crashes.* The failure counter outlives the process and the schedule does not; a
  directory swap is two renames and a marker; an update is a reset, an install and a
  restart.
* *Failing steps.* Every database call, rename and child process may fail with the ones
  before it done.
* *Stale state.* A fetch captures the Codex client and uses it later; the loop reads the
  time and the tasks once per cycle.
* *Liveness.* A provider must be polled whatever its neighbours do; a paused tile must
  come back; an interrupted swap must be settled.
* *Limits.* The exponential backoff, the prune, buffers and histories.

`PROJECT.json` lists every such hazard at its line, with the properties that cover it.

### What makes each part correct

* Scheduler and store: served data never goes back in time and never disappears; the
  counter, the schedule and the served reading agree; a provider that succeeded is left
  alone for the poll floor; a due provider is polled; nothing ends the loop.
* Codex bracket: one App Server owns `CODEX_HOME`; no child outlives its use; a pause ends.
* Antigravity home: a login is never lost, hidden or brought back after a sign-out.
* Credential store: a save changes one entry, is all or nothing, and loses no other save.
* Claude credentials: the store keeps the newest pair of its family, memory follows the
  store, only an enrolment replaces a credential.
* Codex session: every answer reaches its call, memory is bounded.
* Enrolment jobs: one ceremony at a time, what is typed reaches the CLI it was typed for, every
  job settles once and the outcome stands; the login pane ends up showing it.
* Panel: an accepted refresh is fetched at once, the screen sleeps and wakes by schedule, what is
  remembered of the backlight is what the node holds, a finger means one thing.
* Updaters: a rollback restores what was there, a run that ends leaves a panel that boots, the
  installed files follow the tracked ref.

## 2. Modules

| Module | What it is |
|---|---|
| `Scheduler` | the loop, the request threads, the schedules and the database |
| `SchedulerProofs` | its theorems |
| `CodexHome` | enrolment's bracket, the scheduler's pause and resume, the client and its child |
| `CodexHomeProofs` | its theorems |
| `AntigravityHome` | the directory swap, its recovery, the fetches and the ceremonies |
| `AntigravityHomeProofs` | its theorems |
| `AtomicStore` | what the credential store promises: a map changed as a whole |
| `TokenStore` | the store's calls, locks, files and crashes; implements `AtomicStore` |
| `TokenStoreProofs` | its theorems, the refinement among them |
| `ClaudeTokens` | one Claude account: refreshes, enrolments, reloads and start-ups over the store |
| `ClaudeTokensProofs` | its theorems |
| `JobService` | what the enrolment service promises: one job at a time, one outcome each, a history |
| `CodexSession` | the App Server session of one Codex ceremony: requests, responses, notifications |
| `EnrolmentJobs` | the jobs, their PTYs and threads, over `CodexSession`; implements `JobService` |
| `EnrolmentJobsProofs` | its theorems, the refinement among them |
| `LoginPane` | the script of the login page over the login routes, on top of `JobService` |
| `Redeploy` | `redeploy.py`: installs, reload, restarts, health check, rollback |
| `Updater` | `update.sh`, which runs `Redeploy`; power may go at any step |
| `UpdaterProofs` | theorems of `Updater` and `Redeploy` |
| `PanelFetcher` | the poll thread, the schedule poll and the refresh of a panel |
| `SleepSchedule`, `Backlight`, `PanelLayout`, `Rounding` | the pure parts of a panel: when it sleeps, its brightness, where things are, Python's rounding |
| `Panel` | the frames of the GUI loop over all of these |
| `PanelProofs` | theorems of `Panel` and of the modules under it |
| `MCScheduler`, `MCCodexHome`, `MCAntigravityHome`, `MCTokenStore`, `MCClaudeTokens`, `MCEnrolmentJobs`, `MCUpdater`, `MCPanel` | model values and definitions for TLC |

Definitions whose comment begins with "A slip of" are plausible bugs of the definition
that follows. Nothing uses them; each shows that some property notices the bug.

### Scheduler

`_fetch_one` is one action per database call or schedule update (`ReadPrevious`,
`FetchSucceeds` or `FetchFails`, `RefreshToken`, `RetryFetch`, `StoreReading`,
`ResetFailures`, `ScheduleAfterSuccess`; for a failure `ReadExisting`,
`IncrementFailures`, `ScheduleAfterFailure`, `RecordFailure`). Each is atomic in the code
because the `Database` takes its lock for one call. `job[t]` holds the locals of
thread t's call, so what was read before another thread's step is used after it.
`StoreCallFails` lets a database or token store call raise; inside the `try` of
`_fetch_one` that is recorded as a failure, elsewhere the exception escapes: it ends
the loop's thread (`pc[Loop] = "dead"`), or answers a request with an error. `Restart` is
a crash between any two steps, or a new start after a stop: the database stays,
everything else is gone. `LoopTop`, `LoopScan`, `LoopScanned`, `MaybePrune`,
`LoopSleep`, `LoopWake` are `_run_loop`; `FetchNow`, `FetchNowNext`, `FetchNowReturns` are
`fetch_now`.

Abstractions: a reading is its provider, its status, one number of usage, whether it
carries the sign-in detail, and the time of the fetch. Usage in `Boxed` carries a
throttle. The assignments to the fields of one `_ProviderSchedule` are one action. The
tasks of a cycle are visited in any order, the code has a fixed one. `Configure` stands
for a first credential and for `resume_codex`. A stale reading in `_reading_changed` is
covered by `Recovered`. The cap of the backoff is assumed to be no less than the floor, as by default; both come
from the environment, and with a smaller cap a failing provider is polled within the floor.

### CodexHome

The lifetime of the runtime's Codex child, and who may own `CODEX_HOME`. `NewJob` to
`FinishActive` are `start_codex` and `_run_codex_job` of one enrolment, in the code's
order: `Finish` comes before `ResumeCodex`. `StartChild` and `EndChild` are the two
children that `login_codex` runs one after the other. `SeeClient` and `CaptureClient` are
the two reads of `_codex_client` in `_get_fetch_tasks`; `Acquire`, `SpawnChild`,
`Handshake`, `Serve`, `Discard` are `_acquire` of the persistent client, under its lock;
`CloseClient` takes the session off under the lock and `ReapChild` ends the child
after it. `ChildDies` is a child that exits by itself, at any moment. `SeeClientAtStop`
and `StopClient` are shutdown, which also closes the client.

Abstractions: a session is known by its client, since a client has one at a time. Which
request was answered how, and the timeouts, are one choice in `Serve`. A job runs once; a
new enrolment is another job. The one-shot client (`persistent=False`) occurs only in
the ceremonies, as their child. `stop` joins the loop before it looks at the client; the
model lets any fetch be under way then, as the `fetch_now` of a request may be.

### AntigravityHome

A directory is known by the login inside it. `TakeLock`, `Recover`, `Unmark`,
`SweepPrev` are what a fetch and an install both do first; `OpenHome` and `RunCommand` are
the rest of `run_usage_command`; `LookForHome`, `Mark`, `MoveOut`, `MoveIn`,
`ClearMarker`, `DropPrev`, `Leave` are `install_home`, one action per system call, and
`FailInstall` is an `OSError` of any of them but `rmtree`, of the recovery before them too, and
`FailFetch` one in a fetch (`MayRaise` says where). `MakeStaging`, `SignIn`, `GiveUp`
are the ceremony before it. `KillCeremony` and `RestartPod` are deaths at any step, with
the lock released by the kernel. `SignOut` is the operator deleting the home without the
lock. `wanted` is a history variable: the login installed last, `Absent` after a sign-out.

Abstractions: `rmtree` either removes `.prev` or leaves it (its errors are ignored); the CLI's answer is not modelled, only that it
runs. A staging directory is swept only when its ceremony has died (the code waits
an hour, a ceremony lasts about a minute).

### TokenStore and AtomicStore

Each call of `server/token_store.py` is `Begin`, `TakeMutex` (the `_thread_lock` of its
process), `TakeFlock` in the mode `_flock` asks for, or `GoUnlocked` when the lock file
cannot be opened, and `Read`; a save goes on with `OpenTemp`, `DumpTemp`, `Replace` and
`SyncDirectory`, one action per system call of `_write` that a crash could separate.
`CallFails` is an `OSError` at any of them; `Kill` the death of one process, whose locks
the kernel gives up; `PowerFails` the loss of what was not synced. `onDisk` is the set
of contents one of which a power failure leaves: a rename adds one, the directory's
fsync leaves only the current one. `MoveAside` is the operator who follows the error
for an unreadable file. `ordered` and `mayHold` are history: whether every call so far had
the file lock, and the values each key may have by the saves acknowledged and begun.

`AtomicStore` is the promise: one map, changed by a save at one moment and only where the
save says, durable when the save returns; a corrupt map is replaced by nobody but the
operator. It says too what is left when the lock could not be had: the base of a save may
then be any map, never half of one. In the refinement `file` is the map, and a save
happens at its rename.

Abstractions: `_data` is not modelled, every call reloads it. A key is what one kind of
save sets (the token pair, one field of the metadata, the seed marker); what a value is
does not matter. Chmod and the directory's creation are part of the step they precede.
The temporary file has the process id in its name, so its content is kept per process.

### ClaudeTokens

A token pair is its family (the login it descends from) and the number of rotations
since. `FetchRejected`, `ReadRefreshToken`, `Rotate` or `RefreshFails`, `SaveRotated`,
`AssignAccess`, `AssignRefresh` are `_try_refresh_claude` and `_do_refresh` in a thread
that fetches; nothing keeps two of them, or one and a reload, apart. `SignIn` and
`SaveEnrolled` are `login_claude`. `Resolve` and `SaveSeed` are `_resolve_claude_tokens`, at
the start-up (`Main`), in the reload after this account's enrolment, or in one after
another provider's (`Reloaders`); `InstallAccess` and `InstallRefresh` are the two
`setattr` of `update_credentials`, which `_update_lock` keeps from another thread's.
`Restart` ends everything and starts `Main`, with or without a pair in the environment:
the Secret may have been edited. Saves are atomic here, which `TokenStore` justifies.

The OAuth server is external: `newest` says which refresh token of a family it takes, and
`Rotate` that it takes it once. `lost` is history: families whose newest pair nobody got, by a
lost answer, a save that raised or a kill. `pending` and `disturbed` are history too:
a change of the pair is under way from its read to its last assignment, and `disturbed`
says that two were at once since the server started, or that a save raised after its rename.

Abstractions: the secondary account runs the same code under another key. An answer that
keeps the refresh token, half a pair in the environment and the client id are not
modelled. An exception from the save leaves the thread idle here; that it may end the
loop is in `Scheduler`.

### EnrolmentJobs, CodexSession and JobService

A job is registered by the thread that starts it (`NewJob`), which then opens a PTY
(`OpenPty`), spawns the CLI (`SpawnCli`) and starts the two threads (`AttachPty`), or starts the
Codex ceremony. Every error path of a start settles the job as failed and ends in `ClearActive`. The pump reads
lines (`PumpLine`, `PumpEnds`); the watcher reaps the CLI and goes through `AwaitCli`,
`DetachPty`, `CloseMaster`, `Finish`, `ClearActive` and `Notify`, in that order and without a common
lock, as `_watch_process` and `_finish_active` do. `Cancel`, `TakeInput` and `WriteInput` are operators in threads of
their own: input is written under the job's lock (`Locked`), and `sending` is the job and the
descriptor of the line being written. Descriptors are numbers the process reuses: `OtherOpens` is a
file or socket of another part of the server that gets the number of a closed PTY.

`CodexSession` is one ceremony's use of `codex_app_server.py`: `Launch`, `SendRequest`, `Receive`,
`WaitForLogin`, `Expire`, `CloseSession` are the client, `Answer`, `AnnounceLogin`,
`SayUnasked`, `ServerDies` the external child. A message waits in `queue` (the reader's
`_stdout_queue`), then in `responses` or `notes` (`_pending`) when the call it belongs to is not the one
that reads it. `Expire` looks at the deadline before the queue, as the code does. The second child
verifies the login.

`JobService` says only `Begin` and `End`: a job begins when none runs, and the history (`known`, a
set: ids are drawn in order) keeps the latest. `KeepsPromise` shows that `EnrolmentJobs` implements it, with a job's state read through
`Promise`; `LoginPane` is built on `JobService` alone, so the two runs compose.

Abstractions: of a transcript only the sign-in link is modelled. The pause of the runtime
client is `CodexHome`'s. `submit_credential` (a cookie, no job), the redaction and the clock of the
paste window are left out. A write to a PTY does not block: it would with its buffer (some 64 KB)
full, under the job's lock. The pump's read of a raw descriptor that the watcher may have closed is as
in the docstring (`server/enrolment.py:125`). A `Thread.start` that fails is left out.

### LoginPane

`shown` is `activeJob`, the pane's copy of a job. `TimerFires` and `ClickStart` begin polls and starts;
`ServeJob`, `ServeStatus`, `ServeStart` are the server's answers at some moment, and `EndPoll`,
`EndStart` their later use, so an answer may be older than another one already shown. `LosePoll` is a
request that fails. A job the server forgot (a 404 after its eviction, or a restart) stays
shown as running until the page is loaded again; `Stuck` names those states and
`PaneCatchesUp` leaves them out.

### Updater and Redeploy

One action per command of `update.sh` whose failure or interruption matters: `Tick`, `Fetch`,
`Reset`, `Pip` and `EndPip` (between them the venv is `Partial`), `SmokeCheck`, `RollBack`,
`Reinstall`, `RestartApp`. Then `BeginApply` to `RestartAgain` are `apply` of `redeploy.py`:
the components in order, each examined, verified if a unit, backed up and installed; a reload;
restarts; two looks at the GUI; and the rollback. `GuiDies` and `GuiRespawns` are systemd's view of a GUI
whose unit or code is broken, `OperatorStops` and `OperatorStarts` a hand at the panel, `Push` a new
commit of the tracked ref, `PowerLoss` the end of everything that is not on disk.

What fails quietly in the code does so here. A breadcrumb is best effort (`deploy/pi/update.sh:60-64`): `Crumb` may leave
the old one, and `unwritten` remembers it. Nobody looks at the result of `daemon-reload`
(`deploy/redeploy.py:231,257`): `Reload` may leave what systemd has read, and `unread` remembers that. A `git reset --hard`
that fails or loses power has changed some of the working tree and not HEAD (`StopsHalfway`): `tree` is the text of
each component there, `code` the revision of the package, or `Mixture`. A power loss inside a reset leaves git's
`index.lock` (`jammed`), and every later reset fails until an operator removes it. While HEAD is where the ref is, a tree
that is half reset is not noticed: the next run is "up to date".

Abstractions: a file's text is the version a revision carries. `AUTO_REDEPLOY` is on. A dry run
changes nothing. Every component was installed before, so a backup exists. A package of old and new
files (`Mixture`) is counted as one that does not import. A power loss keeps what was written before it: only a reset in
progress is torn. The breadcrumb of the last
change (`write_change`) and `install.sh` are left out.

### Panel and the modules below it

`BeginFrame` reads the clock, the schedule and the readings and lays the tiles out, `TakeTap`
to `SingleTap` handle the taps that were queued, one by one, and `EndFrame` switches the backlight and
draws. A nudge of the brightness is two steps: `Nudge` sets the level (`saving`), `SaveLevel` writes the
file, which `write_text` empties first: an `OSError` may leave it empty. `Restart` is a kill or a power loss and a new
start, at any step. A kill leaves the node and the file, or an empty file when it falls inside the save
(`IsKilled`); a power loss boots the node anew and leaves of the file what it held, what had reached the disk (`disk`:
nothing syncs it) or nothing (`LosesPower`). `chosen` and `slipped` are history: the level the user chose last, and
whether it could not be written, was cut off or was lost. `PanelFetcher` has a poll thread (`GetReadings`, `StoreReadings`, `PollSchedule`, `IntervalElapses`,
`Woken`), a refresh thread (`StartRefresh`, `PostRefresh`, `Poke`, `ClearPending`) and the server as
environment. `SleepSchedule` merges windows the way the code does (`BuildMerged`); `LitAsPromised` compares
what the panel does with `Covered` and `WakeEnd`, which are stated on the windows themselves.
`PanelLayout` is the geometry of `client/layout.py` in pixels: a screen, the readings, and what lies under a
finger, also on a turned panel whose controller reports the unturned frame.

Abstractions: a day has `DayLength` minutes and a week `Days` days. `BACKLIGHT_SCHEDULE` is assumed to parse and
to hold from the start, as the built-in default does when it is unset: one that does not parse, which leaves the schedule
before it, is not modelled. Specs of the server may be malformed. A tap while a frame is
handled waits for the next one, as the event queue does. The products of the layout with floats are
exact products, which is the same on the listed screens (up to 3000 pixels the floats are one pixel off for a
card on a screen 300, 600, 1200, 2350, 2400 or 2450 wide and for a status line on one 1300, 2500 or 2900 high);
the heights of titles are the layout's
estimate of a font, while the GUI measures it. Not modelled: drawing, texts, colours, the refresh button's
text, a panel without backlight device or without a schedule, a wall clock that is set back, and the
diagnostics (whose `gather` runs child processes on the GUI's thread).

## 3. Runs

| Run | Shows | Instance |
|---|---|---|
| `scheduler_loop` | `TypeOK`, `ZeroCountServesFresh`, `StoriesAgree`, `NeverServeOlder` | the loop alone, one of two providers (one with a refresh token, one that only a human signs in again) at a time, one crash, failing database calls, time 0..3 |
| `scheduler_liveness` | `DueIsPolled` | two providers, both or one configured, under `FairSpec`, time 0..4, due times up to `Horizon` = 1 |
| `scheduler_requests` | `FloorBetweenPolls`, `ServedStaysServed` | the loop and one forced refresh of the same provider, Codex's pause, a ladder from 2 to 3, Retry-After 0 or 3, time 0..3 |
| `scheduler_overflow` | `LoopSurvives` is violated | one provider, `MaxExponent` = 1 for 1023 |
| `codex_home` | `TypeOK`, `BracketExcludes`, `NoOrphan`, `ClosedStaysDown`, `TileReturns` | two enrolments, two fetching threads, shutdown, under `FairSpec` |
| `antigravity_home` | `TypeOK`, `LoginKept`, `FetchSeesLogin`, `FailedOrMarked`, `SwapSettles` | two ceremonies, two fetching threads, two deaths, a sign-out at any time, under `FairSpec` |
| `token_store` | `TypeOK`, `SavedStays`, `FailsClosed`, `IsAtomic` | two threads of the server and the CLI, two keys, two kinds of save, one crash, a file that may be corrupt at first |
| `claude_tokens` | `TypeOK`, `StoreIsNewest`, `MemoryFollowsStore`, `EnrolmentStands` | two fetching threads, one enrolment, a reload after another provider's, two rotations, one restart, failing calls |
| `enrolment_jobs` | `TypeOK`, `OneCeremony`, `InputLandsHome`, `NothingMislaid`, `KeepsPromise`, `JobsSettle` | three jobs, of Antigravity or Codex, one descriptor, a history of one, one unasked notification per child, under `FairSpec` |
| `login_pane` | `PaneCatchesUp` | three jobs, a history of one, two polls in flight, one lost request, under `FairSpec` |
| `updater` | `RollbackRestores`, `EndsSound`, `InfraFollows` | four revisions, three components, two faults, under `FairSpec` |
| `panel` | `TargetsApart`, `RefreshReaches`, `MemoryFollowsNode`, `LitAsPromised`, `ChosenLevelStays` | a week of two days of three minutes, three schedules, two versions of the readings, four events, a 1280 x 720 panel turned by 90 degrees; the layout on eight screens; some 7.4 million states |

Bounds. *Scheduler*: times are units of the poll floor: the ladder has two rungs and the
cap is 2, so a run reaches the top of the idle ladder, the cap and
`OfflineThreshold` = 2 (24 in the code); `MaxExponent` = 1 lets the
third failure in a row overflow, `PruneGap` = 1 and `Retention` = 0 make prunes
happen in every cycle; one crash is enough for each order of two database calls,
and every property of the run relates at most two of them. `Horizon` stops the clock in the middle of
a cycle late in a run, so that the last due times are still served before time ends.
The loop and a request thread together are bounded to time 3 and one request, with a floor of 2: time passes
inside a fetch, both fetches overlap in every way, and the loop has time to decide once more. *CodexHome*: no bound but the sets;
two jobs overlap in every way the code allows, and a third could only repeat one of their
places. *AntigravityHome*: `MaxDeaths` = 2, so that a recovery is itself interrupted.
*TokenStore*: two threads share a temporary name and a thread lock, the CLI has its own, so
every pair of writers occurs; the calls of a thread are not bounded, one save sets both
keys (an enrolment with a client id) and the other one (a rotation), which makes a
lost entry visible. One crash suffices: the invariant that follows it is that of the start.
*ClaudeTokens*: `MaxRotations` = 2, so that a thread may hold a pair two rotations old; the
restart meets every interleaving before it.
*EnrolmentJobs*: one descriptor, so that every closed one is reused at once; the third job makes
the history overflow and meets the leftovers of the first two. *LoginPane*: two polls are
what it takes to answer out of order, and a lost request meets each of them. *Updater*: revision 2 changes files and
dependencies, 3 carries a unit that is refused and one the GUI does not survive, 4 cannot be
imported; two faults make a rollback fail as well, or a reset stop halfway and its breadcrumb fail. *Panel*: an event is a tap, a failing write or
request, a restart, an interval that runs out or a change at the server; four of
them are, say, two taps of a double tap, a failing write and a restart. One schedule crosses midnight, one has
windows that touch, overlap and wrap the week, one does not parse; the clock runs from the middle of the
first day to that of the next week's first.
`CHECK_DEADLOCK FALSE` is set where everything may end: a stopped scheduler at
`MaxTime`, a stopped server with all jobs done, a Claude account with its rotations used up, a
panel at its last minute, jobs that are all over and a pane that polls nothing. The fetches on the
Antigravity home and the timer of the updater go on for ever, so deadlock is checked there.

Fairness. The scheduler's loop, its request threads and time advance (weak fairness): the
operating system runs every thread, and every fetcher has a timeout. In
`CodexHome` each fetch and each begun ceremony goes on: requests, the login and the
reaping of a child have timeouts. In `AntigravityHome` polls go on and a
verified ceremony goes on, and a rename or an unlink that is tried again and again succeeds some time (strong
fairness of `Recover` and `Unmark`: the disk does not stay read-only); nothing is assumed of which waiter the lock goes to. In
`EnrolmentJobs` each thread goes on, a CLI that was signalled exits, and a job's lock goes to its watcher at last
(strong fairness of `DetachPty`); the calls of a ceremony have time limits. In `LoginPane`
requests are answered or fail, and the timer fires. In `Updater` the script and the redeployer go on; the
panel's properties are all safety. Nobody has
to enrol, to ask for a refresh, to pause or to sign out, and nothing has to crash.

What the runs show. The scheduler's properties with "the loop alone" in their comment hold
without request threads only; with `fetch_now` beside the loop on the same provider, a
stale reading may be stored after a fresh one and the two counters may differ, which the
code accepts (it has no lock over a fetch). From the 1025th failure in a row of one provider,
`float(2 ** (failures - 1))` raises in the handler and the loop's thread ends, at every restart
again (`scheduler_overflow`, under "findings" in `PROJECT.json`).

The models also have behaviours that a comment of the source rules out. No run
is spent on them:

* a Codex enrolment that starts between the previous one's `finish` and its resume
  runs beside a runtime App Server (`server/enrolment.py:246-247`: "so only one App Server process
  ever owns ``CODEX_HOME``");
* a pod that dies just before the swap marker is removed, and an operator who then signs
  out by deleting the home: the next fetch puts the replaced login back
  (`server/fetch_antigravity.py:154-156`: "deleting ``home`` is how an operator signs out, and that must
  not resurrect the old login from a leftover ``.prev``");
* a sign-in whose swap is done and whose `unlink` of the marker fails is reported as failed with the new login live
  (`server/fetch_antigravity.py:224`, `cli.py:594-597`: "Your existing login, if any, is unchanged."); `FailedOrMarked` says
  that this is the only such case, and that the marker is then still there to be settled;
* a request that succeeds between the loop's decision to poll a provider and the poll makes two polls
  within the floor: `FloorBetweenPolls` is about the decision;
* a start-up that found the store empty, or a refresh that was in flight, saves its pair
  over the one enrolled in between (`server/main.py:45`: "once an entry exists, the environment can no
  longer displace it", and line 52: "Only enrolment replaces a credential.");
* with readings of Claude's work account only, the tile that stands for it opens nothing when
  tapped: `_draw_detail` (`client/gui.py:1068-1073`) finds no reading of `claude` and falls back to
  the grid (`client/layout.py:803`: "a tap inside a tile opens that provider's detail");
* an update whose power goes after the reset is "up to date" at the next run, with a venv left
  halfway or a GUI that was not restarted: `Harmless` and `cut` say where `EndsSound` and
  `InfraFollows` stop. With a venv that is broken already, each redeploy blames the new files and
  rolls them back, again at every run;
* three taps within one frame leave a detail open behind a panel that goes dark, a write of the level that fails
  leaves the step and the saved level ahead of the node, and a kill or a power loss around a save may leave an
  empty or an older brightness file (`client/gui.py:278-279` says of the level "so it survives a reboot").

`claude_tokens` shows how far the promise holds: as long as no two changes of the pair
overlap, only an enrolment replaces a credential and memory ends up with what is stored,
both halves; and with any overlap the stored pair stays the newest of its family, unless
that was lost on its way. A reload that overlaps a refresh may leave the scheduler
with the spent pair until the next restart or reload.

`codex_home` shows what the code does guarantee of its bracket: a ceremony whose pause did
close a client runs alone, whatever overlaps. `enrolment_jobs` shows that the order of the watcher's steps is
what keeps a late input from another job's PTY: the descriptor is taken from the job under its lock before
it is closed. In `updater` a rollback of `redeploy.py` starts the panel with the launcher and the unit that were installed
before, except for a backup that could not be written back or a `daemon-reload` that failed. In `panel` a finger means one thing: on each of the eight screens, for
all sets of providers that may report, no two targets share a pixel, none leaves its panel, and tiles, refresh
button and brightness buttons measure `MinTouchTarget` both ways.

## 4. Theorems

All are of the form `Spec => []Inv` or `Spec => [][A]_vars`, for any values of the
constants that satisfy the named assumptions.

`SchedulerProofs`, from `SetsAssumption`, `NumbersAssumption` and `PowersAssumption`
(2^e is a positive natural, arithmetic that the backends lack):

* `TypeCorrect`. With types goes `Prepared`: a thread inside `_fetch_one` has a provider, and
  a positive counter when it computes the backoff.
* `ServedStays`. `Table` says that ids are below `nextId` and unique, so a row that
  is inserted is the newest, and `PruneKeepsNewest` that a prune keeps the newest.
* `FloorHolds`. The property is about a decision of the loop; its invariant is about the time before it: the due
  time of a provider that was polled leaves the floor after every reading there is of it, or a thread has just stored one
  and is about to set the due time (`DueAfterFloor`). Whichever of overlapping fetches ends last sets a due
  time that is at least the floor away from now (`RescheduledFloor`, by `NextIdleIntervalFromFloor` and
  `FailureBackoffFromFloor`), and no reading is of the future (`Past`, `OkRowsInPast`).
* `ZeroCountIsFresh` and `ServedNeverOlder`, when `RefreshThreads` is empty. `AloneInv`:
  while a fetch is under way the counter leads the rows (`CountLeads`), the row read is still
  the latest (`ExistingIsLatest`) and no row is in the future (`RowsInPast`).
* `StoriesAlwaysAgree`, when `RefreshThreads` is empty. `StoryInv` follows a fetch call by call: a success
  has stored its row before it zeroes the counter and only then sets the schedule, a failure counts in the
  database and then in the schedule (`JobTellsStory`), so that the three records of every provider that is
  not being fetched tell one story (`Story`), if the loop has not died on the way.

`CodexHomeProofs`, from `NamesAssumption`, for any number of enrolments and fetchers.
`StepKinds` first sorts all actions into twelve kinds of step that say, point by point, what
changes; each part of the invariant is then kept by each kind. The invariant: each
thread is on its own steps (`Placed`), a lock is held by exactly the fetch that works with the client
(`Locking`), at most one pause waits for its resume (`OnePause`), a closed client is idle
(`ClosedIdle`), and a client is unbuilt, configured, being closed or closed (`Accounted`).
`BracketHolds` follows: in a bracketed ceremony all other clients are closed, a closed
client's child is in no session, and only shutdown, reaping it, may still hold it. It speaks of the ceremony up to its
outcome; between that and its resume another may begin, and a ceremony whose pause found no client is not bracketed.

* `CodexTypeCorrect`, `BracketHolds`, `NoChildOrphaned`, `ClosedClientStaysDown`.

`AntigravityHomeProofs`, from `NamesAssumption`, for any number of ceremonies, fetchers and
deaths. The invariant: a thread past `home_lock` holds the lock (`Exclusive`), once the holder has
recovered the login is in the home until it moves it (`Settled`), otherwise it is there or set
aside with the marker (`SetAside`, `Marked`), and a ceremony's login is nowhere else before its
swap (`Unused`, `Staged`). `LoginKept` alone is not inductive: that a recovery
finds the login needs the lock, and that the second rename is safe needs the marker.

* `HomeTypeCorrect`, `LoginIsKept`, `FetchesSeeLogin`, `FailuresAreMarked`.

`TokenStoreProofs`, from `NamesAssumption`, for any processes, threads, saves and crashes.
The invariant: one thread of a process past its mutex (`OneInside`), hence one user of a
temporary name; the file lock excludes (`Exclusive`) and, while `ordered`, is held from
the read to the return (`LockHeld`); a save works on a whole store, with the lock on
the current one, and what it renames is that store (`Prepared`); what a power failure leaves
is whole (`Whole`) and holds only values of acknowledged or begun saves (`Accounted`).
`SavedStays` is not inductive without `Prepared` and `LockHeld`: a save built on an old read
would bring old values back.

* `StoreTypeCorrect`, `SavedStaysSaved`, `StoreFailsClosed`, and `StoreIsAtomic`:
  `Spec => Atomic!Spec`, each step of `TokenStore` maps to a step of `AtomicStore` or a stutter.

`ClaudeTokensProofs`, from `NamesAssumption`, for any number of threads, enrolments,
reloads, rotations and restarts. `StoreIsNewest` is not inductive: a thread that saves an
old pair would break it. The invariant says that there is none: no pair anywhere is
ahead of the OAuth server (`NotAhead`), a pair that is being saved is the newest and nobody
else has it (`SoleSaver`), so a second thread with the spent token cannot rotate the family
in between; a login that is not saved yet is known to its enrolment alone
(`LoginUnknown`), and the environment's pair, until it is stored, to the start-up alone
(`SeedUnknown`, `OnlyMainSeeds`), before anything is fetched (`NoFetchBefore`). Most actions only
copy a pair (`Copies`) and are treated as one.

* `TokensTypeCorrect`, `StoredIsNewest`.
* `MemoryIsStored`, `EnrolledStands`. Both need `CalmInv`, which speaks of the states before two changes have
  overlapped: who installs a pair installs the stored one (`HandsOverStored`), the refresh token in memory is
  spent for every thread but the one that rotated it (`OneRotation`), and the two halves in memory are the stored
  pair except for what a fetch is just assigning (`TwoHalves`). The second half of a pair is what makes it
  hard: between `AssignAccess` and `AssignRefresh` memory is neither the old pair nor the new one.

`EnrolmentJobsProofs`, from `JobsAssumption` and `ChatterAssumption`, for any number of jobs, descriptors and
unasked notifications. The invariant has two halves. Of the jobs: a job's steps, its state and its child fit each
other and a job at work is the active one (`PlacedAt`, `ActiveAt`), the descriptor a job has opened
stays its own until its watcher closes it (`OpenedAt`), after it was taken off the job (`AttachedAt`), and a line
is written to a descriptor that is attached (`Held`). `InputLandsHome` alone is not inductive, nor is
`OneCeremony`: a job that is not running could be at work. Of the session: a call finds as many request
numbers drawn as calls before it draw (`Numbered`), and no message bears a number not drawn yet (`InUse`), so that no
response can be there before its request.

* `TypeCorrect`, `CeremoniesAlone`, `InputHome`, `SessionMislaysNothing`, and `PromiseKept`:
  `Spec => Promise!Spec`, each step of `EnrolmentJobs` maps to a step of `JobService` or a stutter.

`UpdaterProofs`, from `PanelAssumption` of `Redeploy`, for any revisions, components and
number of faults. `BackupsHold` says what a report is worth: until something is put back, a component
is what it was when `apply` began, or its backup is that and the checkout's text is in its place;
`RestoredHold` that the GUI's files are then those of the beginning before systemd reads them, if it does read them (`unread`).
`ScriptHold` follows the checkout: until the reset it is as found, afterwards the script knows a revision that works
to go back to (`ReturnHold`), if it found one whole; a reset that stops halfway is logged or cuts the run short.

* `TypeCorrect`, `RollbackIsTrue`, `RunsEndSound`.

`PanelProofs`, from the assumptions of `Panel` and the modules under it, for any numbers of levels, steps, versions and
events. Python rounds halves to even; `RoundTrip` says that a level which stands for a step is restored exactly
by its step, whether there are more steps than levels or fewer, which `ChosenLevelStays` needs at each restart that finds the file
as it was saved (`ChosenLevels`). A refresh reaches the readings because no version is accepted that the server has not
come to (`FetcherInv`), so that a request made after it brings it.

`LitAsPromised` compares what the code computes with what the windows say, and its proof has three parts, for any
length of a day and any number of days. `RulesAssumption` says what a spec is made of: finitely many rules, of times
of day and minutes of the week, as `_parse_hhmm` and `_DAYS` check. (1) Merging: `Sorted` puts a span at the place
given by the number of spans before it (`RankReaches`: every place is taken), and a span that starts no sooner than
the last one keeps the merged spans `Disjoint`, a gap before each, and their minutes the union of the spans' minutes
(`ExtendMerges`, `MergedIsUnion`). (2) The week: on the three weeks from the first on, the spans over the four
offsets are the windows, whichever neighbouring week they reach in from (`SpansSayWindows`), so
the middle copy decides (`SleepIsCovered`); a span's end, where the gap begins, or midnight is the first minute
that no window covers or midnight (`WakeIsPromised`). (3) The panel: `LitAsPromised` is not inductive. `SleepInv` says
of every frame that the deadline is the promised one, or 0 when that one is over or there was none: a schedule that
is edited after the tap, to one that parses or not, leaves it alone, and a frame drops it only once it is over.

`TargetsApart` needs no history: its invariant is only that what is shown is one of the versions (`ShapeInv`). What is
proved is the geometry, for whatever readings and for every screen that is `Roomy`: at least 240 x 240, wide enough
for the refresh button, high enough for the titles of as many rows as it can get. `ScreensAssumption` says that the
screens are, and `ScreensAreRoomy` that this is true of every size from 240 x 240 on, up to five by two in landscape
and one by ten in portrait, with the font heights that the layout estimates; TLC evaluates it for the
sizes of the tests. `ReportsAssumption` says that a reading has so many percentages. The argument goes from the
providers to the pixels. The plan has each provider that reports once, in the layout's order (`TilePlanIs`). Packing
keeps what is packed and its order, no row is longer than its columns, and there are at most `MostRows` rows
(`RowsPlanIs`): at most five when nothing is paired, three when codex and antigravity, zai and ollama can be, two on
the tiny screens. The titles have their room, so
what is shared out is not negative (`RoomIsLeft`), the shares before the last leave that one no debt
(`SharesAre`), and so no row is lower than a finger and all end above the status line (`HeightsAre`), and no column is
narrower (`ColumnsFit`). Rows follow each other by the sums of their heights
(`RowsFit`), so two tiles lie apart in their column or in their row (`GridFits`). On the overlay the proof follows
the three arrangements of the buttons and the widths at which the code goes over from one to the next
(`ButtonsFit`, `OverlayFits`).

* `MemoryIsTrue`, `ChoiceStays`, `RefreshesReach`, `RoundTrip`.
* `LitIsPromised`, `SleepIsCovered`, `WakeIsPromised`, `TypeCorrect` (of `Panel`, which no run checks).
* `TargetsStayApart`, `ScreensAreRoomy`.

Only model-checked: the liveness properties (`DueIsPolled`, `TileReturns`, `SwapSettles`, `JobsSettle`,
`PaneCatchesUp`, `InfraFollows`), which rest on fairness and so on ENABLED, beyond the prover; and the violated
property, which is no theorem. Every invariant and action property of a passing run is a theorem.

## 5. The plan

The models are as wide as planned, and every safety property is proved. What is left is liveness, for larger instances
than the runs have; and the layout for screens that are not `Roomy`, whose rows the code lets overlap the status
line rather than draw a title without room.

### Not modelled

Parsing of provider answers and of the CLIs' output, the history routes, the schema migration,
authentication, HTML, drawing, texts and colours, the diagnostics overlay, logging, the wiring at
start-up, `install.sh`, and the repository's own scanning scripts and hooks. They are pure functions, input and output or
one-time set-up: none keeps state that another step may find changed.

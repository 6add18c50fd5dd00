----------------------------- MODULE PanelFetcher -----------------------------
(***************************************************************************)
(* How a panel gets what it shows (client/fetcher.py): a thread that polls *)
(* /readings and /schedule, an interval that shortens while the readings   *)
(* change, and a refresh that the user asks for in a thread of its own.    *)
(* The server is the environment: it holds a version of the readings,      *)
(* which a collection of its own or an accepted refresh renews, and the    *)
(* spec of the panel's schedule.                                           *)
(***************************************************************************)
EXTENDS Integers

CONSTANTS
  Versions,         \* the versions of the readings, numbers from 1
  Usage,            \* Usage[v]: the percentages of version v
  ServerSpecs,      \* what /schedule may answer: specs, or NoSpec
  NoSpec,
  StableThreshold,  \* stable_threshold
  MaxEvents         \* bounds what happens to a panel in a behaviour: taps, failures,
                    \* restarts, intervals that run out and changes at the server

ASSUME FetcherAssumption ==
  /\ Versions \subseteq Nat \ {0} /\ 1 \in Versions /\ NoSpec \in ServerSpecs
  /\ StableThreshold \in Nat \ {0} /\ MaxEvents \in Nat

VARIABLES
  version,     \* server: its readings
  serverSpec,  \* server: the schedule of this panel
  poll,        \* poll thread: what it does next
  answer,      \* poll thread: the readings of the last answer, 0 for none
  asked,       \* the version the server had when it was last asked for /readings
  readings,    \* _readings, 0 before the first
  spec,        \* _schedule_spec
  fast,        \* _interval is the fast one
  stable,      \* _stable_count, which matters up to the threshold
  wake,        \* _wake_event
  refresh,     \* the refresh thread: "idle" unless _refresh_pending
  accepted,    \* the version collected by the last refresh the server accepted
  events

polling == <<poll, answer, asked, readings, spec, fast, stable>>
fetcher == <<version, serverSpec, polling, wake, refresh, accepted, events>>

Event == events < MaxEvents /\ events' = events + 1

FetcherInit ==
  /\ version = 1 /\ serverSpec \in ServerSpecs
  /\ poll = "get" /\ answer = 0 /\ asked = 0 /\ readings = 0 /\ spec = NoSpec
  /\ fast = FALSE /\ stable = 0
  /\ wake = FALSE /\ refresh = "idle" /\ accepted = 0
  /\ events = 0

\* A new process: a new fetcher. What the server has does not change, and a refresh it
\* is collecting for the old process is no one's.
FetcherRestarts ==
  /\ poll' = "get" /\ answer' = 0 /\ asked' = 0 /\ readings' = 0 /\ spec' = NoSpec
  /\ fast' = FALSE /\ stable' = 0
  /\ wake' = FALSE /\ refresh' = "idle" /\ accepted' = 0

-----------------------------------------------------------------------------
(* The poll thread *)

\* GET /readings: the server answers with what it has, or the request fails, and the
\* old readings stay.
GetReadings ==
  /\ poll = "get"
  /\ asked' = version
  /\ \/ answer' = version /\ poll' = "store" /\ UNCHANGED events
     \/ Event /\ poll' = "schedule" /\ UNCHANGED answer
  /\ UNCHANGED <<version, serverSpec, readings, spec, fast, stable, wake, refresh, accepted>>

ReadingsChanged(old, new) == old = 0 \/ Usage[old] # Usage[new]

\* _update_interval, and the new readings are shown.
StoreReadings ==
  /\ poll = "store"
  /\ readings' = answer
  /\ IF ReadingsChanged(readings, answer)
     THEN fast' = TRUE /\ stable' = 0
     ELSE /\ stable' = IF stable < StableThreshold THEN stable + 1 ELSE stable
          /\ fast' = (fast /\ stable' < StableThreshold)
  /\ poll' = "schedule"
  /\ UNCHANGED <<version, serverSpec, answer, asked, spec, wake, refresh, accepted, events>>

\* GET /schedule: an error keeps the spec there was.
PollSchedule ==
  /\ poll = "schedule"
  /\ \/ spec' = serverSpec /\ UNCHANGED events
     \/ Event /\ UNCHANGED spec
  /\ poll' = "wait"
  /\ UNCHANGED <<version, serverSpec, answer, asked, readings, fast, stable, wake, refresh,
                 accepted>>

\* The interval runs out: a poke that is there stays for the next wait.
IntervalElapses ==
  /\ poll = "wait"
  /\ poll' = "get"
  /\ Event
  /\ UNCHANGED <<version, serverSpec, answer, asked, readings, spec, fast, stable, wake, refresh,
                 accepted>>

\* A poke ends the wait.
Woken ==
  /\ poll = "wait" /\ wake
  /\ wake' = FALSE
  /\ poll' = "get"
  /\ UNCHANGED <<version, serverSpec, answer, asked, readings, spec, fast, stable, refresh,
                 accepted, events>>

-----------------------------------------------------------------------------
(* The refresh thread *)

StartRefresh == refresh' = IF refresh = "idle" THEN "post" ELSE refresh

\* The server collects before it answers. Its answer may be lost, or the 60 s be over;
\* and it refuses a refresh that comes too soon.
PostRefresh ==
  /\ refresh = "post"
  /\ \/ /\ version + 1 \in Versions
        /\ version' = version + 1
        /\ \/ refresh' = "poke" /\ accepted' = version' /\ UNCHANGED events
           \/ refresh' = "clear" /\ Event /\ UNCHANGED accepted
     \/ /\ refresh' = "clear" /\ Event
        /\ UNCHANGED <<version, accepted>>
  /\ UNCHANGED <<serverSpec, polling, wake>>

\* A slip of Poke: a poke is only for a thread that waits.
PokeWaiting ==
  /\ refresh = "poke"
  /\ wake' = (poll = "wait")
  /\ refresh' = "clear"
  /\ UNCHANGED <<version, serverSpec, polling, accepted, events>>

Poke ==
  /\ refresh = "poke"
  /\ wake' = TRUE
  /\ refresh' = "clear"
  /\ UNCHANGED <<version, serverSpec, polling, accepted, events>>

ClearPending ==
  /\ refresh = "clear"
  /\ refresh' = "idle"
  /\ UNCHANGED <<version, serverSpec, polling, wake, accepted, events>>

-----------------------------------------------------------------------------
(* The server on its own. Only GetReadings reads its version and only      *)
(* PollSchedule its spec, so a change at any other step is one just before *)
(* them.                                                                   *)

ServerCollects ==
  /\ poll = "get" /\ version + 1 \in Versions
  /\ version' = version + 1
  /\ Event
  /\ UNCHANGED <<serverSpec, polling, wake, refresh, accepted>>

ScheduleEdited ==
  /\ poll = "schedule"
  /\ serverSpec' \in ServerSpecs \ {serverSpec}
  /\ Event
  /\ UNCHANGED <<version, polling, wake, refresh, accepted>>

FetcherNext ==
  \/ GetReadings \/ StoreReadings \/ PollSchedule \/ IntervalElapses \/ Woken
  \/ PostRefresh \/ Poke \/ ClearPending
  \/ ServerCollects \/ ScheduleEdited

FetcherTypeOK ==
  /\ version \in Versions /\ serverSpec \in ServerSpecs
  /\ poll \in {"get", "store", "schedule", "wait"}
  /\ answer \in Versions \cup {0} /\ asked \in Versions \cup {0}
  /\ readings \in Versions \cup {0} /\ spec \in ServerSpecs
  /\ fast \in BOOLEAN /\ stable \in 0..StableThreshold
  /\ wake \in BOOLEAN /\ refresh \in {"idle", "post", "poke", "clear"}
  /\ accepted \in Versions \cup {0} /\ events \in 0..MaxEvents

\* What an accepted refresh collected is asked for without waiting out the interval:
\* until a request has been made since, one is about to be made or the poke is there to
\* cut the wait short, wherever the poll thread was when the refresh was accepted. (That
\* one request may fail; the next one then waits for the interval.)
RefreshReaches ==
  asked >= accepted \/ wake \/ refresh = "poke" \/ poll = "get"
=============================================================================

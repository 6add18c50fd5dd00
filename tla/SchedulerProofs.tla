--------------------------- MODULE SchedulerProofs ---------------------------
(***************************************************************************)
(* Theorems about Scheduler, for every value of its constants: any number  *)
(* of providers and of request threads, any ladder, cap and threshold, any *)
(* number of crashes.                                                      *)
(***************************************************************************)
EXTENDS Scheduler, WellFoundedInduction, TLAPS

-----------------------------------------------------------------------------
(* The operators the schedule is built from *)

\* Every nonempty set of naturals has a least element.
LEMMA NatSetHasLeast ==
  ASSUME NEW S, S \subseteq Nat, S # {}
  PROVE  \E m \in S : \A n \in S : m <= n
<1> DEFINE less == {ss \in Nat \X Nat : ss[1] < ss[2]}
<1>1. \E m \in S : \A n \in S : ~ (<<n, m>> \in OpToRel(<, Nat))
  BY NatLessThanWellFounded, WFMin
<1>2. OpToRel(<, Nat) = less
  BY DEF OpToRel
<1>3. \E m \in S : \A n \in S : ~ (<<n, m>> \in less)
  BY <1>1, <1>2, Zenon
<1>4. PICK m \in S : \A n \in S : ~ (<<n, m>> \in less)
  BY <1>3
<1>5. ASSUME NEW n \in S PROVE m <= n
  <2>1. <<n, m>> \in Nat \X Nat
    OBVIOUS
  <2>2. ~ (<<n, m>>[1] < <<n, m>>[2])
    BY <1>4, <2>1
  <2> QED BY <2>2
<1> QED BY <1>5

\* The poll floor and every rung of the ladder are positive, the floor the least.
LEMMA LadderRungs ==
  /\ Floor \in Nat /\ Floor > 0
  /\ \A i \in DOMAIN Ladder : Ladder[i] \in Nat /\ Ladder[i] >= Floor
<1>1. Ladder \in Seq(Nat \ {0}) /\ Len(Ladder) > 0
  BY NumbersAssumption
<1>2. \A i \in DOMAIN Ladder : Ladder[i] \in Nat \ {0}
  BY <1>1
<1>3. 1 \in DOMAIN Ladder
  BY <1>1
<1>4. \A i \in DOMAIN Ladder : Ladder[i] >= Floor
  BY NumbersAssumption
<1> QED BY <1>2, <1>3, <1>4 DEF Floor

\* Widening the gap of an idle provider never takes it below the floor.
LEMMA NextIdleIntervalFromFloor ==
  ASSUME NEW current
  PROVE  NextIdleInterval(current) \in Nat /\ NextIdleInterval(current) >= Floor
<1> DEFINE above == {i \in DOMAIN Ladder : Ladder[i] > current}
<1>1. CASE above = {}
  <2>1. Len(Ladder) \in DOMAIN Ladder
    BY NumbersAssumption
  <2> QED BY <1>1, <2>1, LadderRungs DEF NextIdleInterval
<1>2. CASE above # {}
  <2>1. \E i \in above : \A j \in above : i <= j
    <3>1. above \subseteq Nat
      BY NumbersAssumption
    <3> QED BY <1>2, <3>1, NatSetHasLeast
  <2>2. (CHOOSE i \in above : \A j \in above : i <= j) \in DOMAIN Ladder
    BY <2>1
  <2> QED BY <1>2, <2>2, LadderRungs DEF NextIdleInterval
<1> QED BY <1>1, <1>2

\* So does a success of any kind.
LEMMA SuccessIntervalFromFloor ==
  ASSUME NEW p, NEW previous, NEW usage
  PROVE  /\ SuccessInterval(p, previous, usage) \in Nat
         /\ SuccessInterval(p, previous, usage) >= Floor
  BY NextIdleIntervalFromFloor, LadderRungs DEF SuccessInterval

\* Backing off never takes the interval below the floor either.
LEMMA FailureBackoffFromFloor ==
  ASSUME NEW n \in Nat, n > 0, n - 1 <= MaxExponent, NEW out \in Outcome
  PROVE  FailureBackoff(n, out) \in Nat /\ FailureBackoff(n, out) >= Floor
<1> DEFINE doubled == Smaller(Floor * 2^(n - 1), Cap)
<1>1. 2^(n - 1) \in Nat /\ 2^(n - 1) > 0
  <2>1. n - 1 \in 0..MaxExponent
    BY NumbersAssumption
  <2> QED BY <2>1, PowersAssumption
<1>2. Floor * 2^(n - 1) \in Nat /\ Floor * 2^(n - 1) >= Floor
  BY <1>1, LadderRungs
<1>3. doubled \in Nat /\ doubled >= Floor
  BY <1>2, NumbersAssumption DEF Smaller
<1>4. RateDefault \in Nat /\ out.after \in Nat
  BY NumbersAssumption DEF Outcome
<1> QED BY <1>3, <1>4, LadderRungs DEF FailureBackoff, Larger

\* The sleep of the loop is a number of seconds.
LEMMA SleepIsNat ==
  ASSUME NEW tasks \in SUBSET Providers, clock \in Nat, sched \in [Providers -> Schedule]
  PROVE  SecondsUntilNextDue(tasks) \in Nat
<1> DEFINE dues == {sched[p].nextDue : p \in tasks}
<1>1. CASE tasks = {}
  BY <1>1, LadderRungs DEF SecondsUntilNextDue
<1>2. CASE tasks # {}
  <2>1. dues \subseteq Nat /\ dues # {}
    BY <1>2 DEF Schedule
  <2>2. \E d \in dues : \A e \in dues : d <= e
    BY <2>1, NatSetHasLeast
  <2>3. \E d \in dues : \A p \in tasks : d <= sched[p].nextDue
    BY <2>2
  <2>4. EarliestDue(tasks) \in Nat
    BY <2>1, <2>3 DEF EarliestDue
  <2>5. MinSleep \in Nat /\ MaxSleep \in Nat
    BY NumbersAssumption
  <2>6. Smaller(EarliestDue(tasks) - clock, MaxSleep) \in Int
    BY <2>4, <2>5 DEF Smaller
  <2>7. Larger(MinSleep, Smaller(EarliestDue(tasks) - clock, MaxSleep)) \in Nat
    BY <2>5, <2>6 DEF Larger
  <2> QED BY <1>2, <2>7 DEF SecondsUntilNextDue
<1> QED BY <1>1, <1>2

-----------------------------------------------------------------------------
(* Type correctness *)

\* What a thread in the middle of a fetch has at hand.
Prepared ==
  \A t \in Threads :
    /\ pc[t] \in FetchSteps => job[t].provider \in Providers
    /\ pc[t] = "backoff" => job[t].failures > 0

Typed == TypeOK /\ Prepared

LEMMA NoJobTyped == NoOutcome \in Outcome /\ NoJob \in Job
  BY DEF NoJob, Job, NoOutcome, Outcome

\* Recording the outcome of a fetch leaves the rest of the job as it was.
LEMMA OutcomeTyped ==
  ASSUME job \in [Threads -> Job], NEW t \in Threads, NEW o \in Outcome, NEW h \in BOOLEAN,
         \/ job' = [job EXCEPT ![t].out = o]
         \/ job' = [job EXCEPT ![t].out = o, ![t].handling = h]
  PROVE  /\ job' \in [Threads -> Job]
         /\ \A u \in Threads : /\ job'[u].provider = job[u].provider
                              /\ job'[u].failures = job[u].failures
<1>1. CASE job' = [job EXCEPT ![t].out = o]
  BY <1>1 DEF Job
<1>2. CASE job' = [job EXCEPT ![t].out = o, ![t].handling = h]
  BY <1>2 DEF Job
<1> QED BY <1>1, <1>2

\* A thread that leaves _fetch_one has no job.
LEMMA EscapeTyped ==
  ASSUME Typed, NEW t \in Threads, Escape(t)
  PROVE  /\ job' \in [Threads -> Job] /\ todo' \in [Threads -> SUBSET Providers]
         /\ pc' \in [Threads -> FetchSteps \cup LoopSteps \cup {"idle"}]
         /\ Prepared'
<1> USE DEF Typed, TypeOK, Escape, Goto
<1>1. job' \in [Threads -> Job] /\ todo' \in [Threads -> SUBSET Providers]
  BY NoJobTyped
<1>2. pc' \in [Threads -> FetchSteps \cup LoopSteps \cup {"idle"}]
  BY DEF LoopSteps
<1>3. Prepared'
  BY DEF Prepared, FetchSteps
<1> QED BY <1>1, <1>2, <1>3

LEMMA InitTyped == Init => Typed
<1> SUFFICES ASSUME Init PROVE Typed
  OBVIOUS
<1> USE DEF Init, Typed, TypeOK, Prepared
<1>1. job \in [Threads -> Job] /\ todo \in [Threads -> SUBSET Providers]
  BY NoJobTyped
<1>2. sched \in [Providers -> Schedule]
  BY LadderRungs DEF Blank, Schedule
<1>3. pc \in [Threads -> FetchSteps \cup LoopSteps \cup {"idle"}] /\ Prepared
  BY DEF Idle, FetchSteps, LoopSteps
<1>4. cycle \in [tasks : SUBSET Providers, now : Nat, wake : Nat]
  BY DEF NoCycle
<1> QED BY <1>1, <1>2, <1>3, <1>4

\* A failure leaves a row of the table.
LEMMA FailureRowTyped ==
  ASSUME TypeOK, NEW t \in Threads, job[t].provider \in Providers
  PROVE  \A r \in FailureRow(t) : r \in Row /\ r.id = nextId
<1> DEFINE offline == [id |-> nextId, provider |-> job[t].provider, status |-> "offline",
                       usage |-> -1, note |-> NeedsLogin(t), at |-> job[t].out.at]
           stale(r) == [r EXCEPT !.id = nextId, !.status = "stale",
                                 !.note = @ /\ r.status # "offline"]
<1>1. offline \in Row /\ offline.id = nextId
  BY DEF TypeOK, Row, Job, Outcome, NeedsLogin
<1>2. ASSUME NEW r \in job[t].existing PROVE stale(r) \in Row /\ stale(r).id = nextId
  <2>1. r \in Row /\ nextId \in Nat
    BY <1>2 DEF TypeOK, Job
  <2> QED BY <2>1 DEF Row
<1>3. FailureRow(t) = {offline} \/ FailureRow(t) = {stale(r) : r \in job[t].existing}
  BY DEF FailureRow
<1> HIDE DEF offline, stale
<1> QED BY <1>1, <1>2, <1>3

LEMMA FetchStepTyped ==
  ASSUME Typed, NEW t \in Threads, FetchStep(t)
  PROVE  Typed'
<1> USE DEF Typed, TypeOK, Prepared, Goto, FetchSteps, LoopSteps
<1>1. CASE ReadPrevious(t)
  BY <1>1 DEF ReadPrevious, dbVars, memVars, boundVars, Job, Latest, Newest
<1>2. CASE FetchSucceeds(t)
  <2>1. PICK u \in Usage :
          job' = [job EXCEPT ![t].out = [kind |-> "ok", usage |-> u, at |-> clock, after |-> 0]]
    BY <1>2 DEF FetchSucceeds
  <2>2. [kind |-> "ok", usage |-> u, at |-> clock, after |-> 0] \in Outcome
    BY DEF Outcome
  <2> QED BY <1>2, <2>1, <2>2, OutcomeTyped DEF FetchSucceeds, dbVars, memVars, boundVars
<1>3. CASE FetchFails(t)
  <2>1. PICK kind \in Failures, after \in RetryAfters :
          /\ job' = [job EXCEPT ![t].out = [kind |-> kind, usage |-> -1, at |-> 0, after |-> after],
                                ![t].handling = TRUE]
          /\ Goto(t, AfterFailure(job[t].provider, kind))
    BY <1>3 DEF FetchFails
  <2>2. [kind |-> kind, usage |-> -1, at |-> 0, after |-> after] \in Outcome
    BY NumbersAssumption DEF Outcome
  <2>3. AfterFailure(job[t].provider, kind) \in {"refresh", "increment", "existing"}
    BY DEF AfterFailure
  <2>4. /\ job' \in [Threads -> Job]
        /\ \A u \in Threads : /\ job'[u].provider = job[u].provider
                             /\ job'[u].failures = job[u].failures
    BY <2>1, <2>2, OutcomeTyped
  <2> QED BY <1>3, <2>1, <2>3, <2>4 DEF FetchFails, dbVars, memVars, boundVars
<1>4. CASE RefreshToken(t)
  BY <1>4 DEF RefreshToken, dbVars, memVars, boundVars
<1>5. CASE RetryFetch(t)
  <2>1. ASSUME NEW u \in Usage,
               job' = [job EXCEPT ![t].out = [kind |-> "ok", usage |-> u, at |-> clock, after |-> 0]],
               Goto(t, "store"), UNCHANGED todo
        PROVE  Typed'
    <3>1. [kind |-> "ok", usage |-> u, at |-> clock, after |-> 0] \in Outcome
      BY DEF Outcome
    <3> QED BY <1>5, <2>1, <3>1, OutcomeTyped DEF RetryFetch, dbVars, memVars, boundVars
  <2>2. CASE Goto(t, "existing") /\ UNCHANGED <<todo, job>>
    BY <1>5, <2>2 DEF RetryFetch, dbVars, memVars, boundVars
  <2>3. CASE Escape(t)
    BY <1>5, <2>3, EscapeTyped DEF RetryFetch, dbVars, memVars, boundVars
  <2> QED BY <1>5, <2>1, <2>2, <2>3 DEF RetryFetch
<1>6. CASE StoreReading(t)
  <2> DEFINE r == [id |-> nextId, provider |-> job[t].provider, status |-> "ok",
                   usage |-> job[t].out.usage, note |-> FALSE, at |-> job[t].out.at]
  <2>1. r \in Row
    BY <1>6 DEF StoreReading, Row, Job, Outcome
  <2>2. rows' = rows \cup {r} /\ nextId' = nextId + 1
    BY <1>6 DEF StoreReading, Insert
  <2> HIDE DEF r
  <2>3. rows' \in SUBSET Row /\ nextId' \in Nat
    BY <2>1, <2>2
  <2> QED BY <1>6, <2>3 DEF StoreReading, memVars, boundVars
<1>7. CASE ResetFailures(t)
  BY <1>7 DEF ResetFailures, dbVars, memVars, boundVars
<1>8. CASE ScheduleAfterSuccess(t)
  BY <1>8, SuccessIntervalFromFloor DEF ScheduleAfterSuccess, Return, dbVars, memVars, boundVars, Job, NoJob, NoOutcome, Outcome, Schedule
<1>9. CASE ReadExisting(t)
  BY <1>9 DEF ReadExisting, dbVars, memVars, boundVars, Job, Latest, Newest
<1>10. CASE IncrementFailures(t)
  BY <1>10 DEF IncrementFailures, dbVars, memVars, boundVars, Job
<1>11. CASE ScheduleAfterFailure(t)
  <2> DEFINE p == job[t].provider
             backoff == IF NeedsLogin(t) THEN Cap ELSE FailureBackoff(job[t].failures, job[t].out)
  <2>1. p \in Providers /\ job[t].failures \in Nat /\ job[t].failures > 0 /\ job[t].out \in Outcome
    BY <1>11 DEF ScheduleAfterFailure, Job
  <2>2. backoff \in Nat
    BY <1>11, <2>1, FailureBackoffFromFloor, NumbersAssumption DEF ScheduleAfterFailure
  <2>3. ScheduleOf(p) \in Schedule
    BY <2>1, LadderRungs DEF ScheduleOf, DueNow, Schedule
  <2>4. sched' \in [Providers -> Schedule] /\ known' \in SUBSET Providers
    <3>1. [interval |-> backoff, nextDue |-> clock + backoff,
           lastSuccess |-> ScheduleOf(p).lastSuccess, failures |-> job[t].failures] \in Schedule
      BY <2>1, <2>2, <2>3 DEF Schedule
    <3> QED BY <1>11, <2>1, <3>1 DEF ScheduleAfterFailure
  <2>5. job' = [job EXCEPT ![t].out = [job[t].out EXCEPT !.at = clock]]
    BY <1>11 DEF ScheduleAfterFailure, Job
  <2>6. [job[t].out EXCEPT !.at = clock] \in Outcome
    BY <2>1 DEF Outcome
  <2>7. /\ job' \in [Threads -> Job]
        /\ \A u \in Threads : /\ job'[u].provider = job[u].provider
                             /\ job'[u].failures = job[u].failures
    BY <2>5, <2>6, OutcomeTyped
  <2> QED BY <1>11, <2>4, <2>7 DEF ScheduleAfterFailure, dbVars, boundVars
<1>12. CASE BackoffOverflows(t)
  BY <1>12 DEF BackoffOverflows, Escape, dbVars, memVars, boundVars, Job, NoJob, NoOutcome, Outcome
<1>13. CASE RecordFailure(t)
  <2>1. PICK r \in FailureRow(t) : Insert(r)
    BY <1>13 DEF RecordFailure
  <2>2. r \in Row
    BY <1>13, FailureRowTyped DEF RecordFailure
  <2>3. rows' \in SUBSET Row /\ nextId' \in Nat
    BY <2>1, <2>2 DEF Insert
  <2>4. job' \in [Threads -> Job] /\ Prepared'
    BY <1>13, NoJobTyped DEF RecordFailure, Return
  <2> QED BY <1>13, <2>3, <2>4 DEF RecordFailure, Return, memVars, boundVars
<1>14. CASE StoreCallFails(t)
  <2>1. CASE Escape(t)
    BY <1>14, <2>1, EscapeTyped DEF StoreCallFails, dbVars, memVars, boundVars
  <2>2. CASE /\ pc[t] \in {"store", "reset"}
             /\ job' = [job EXCEPT ![t].out = [NoOutcome EXCEPT !.kind = "other"],
                                   ![t].handling = TRUE]
             /\ Goto(t, "existing") /\ UNCHANGED todo
    <3>1. [NoOutcome EXCEPT !.kind = "other"] \in Outcome
      BY DEF NoOutcome, Outcome, Failures
    <3>2. /\ job' \in [Threads -> Job]
          /\ \A u \in Threads : /\ job'[u].provider = job[u].provider
                               /\ job'[u].failures = job[u].failures
      BY <2>2, <3>1, OutcomeTyped
    <3> QED BY <1>14, <2>2, <3>2 DEF StoreCallFails, dbVars, memVars, boundVars
  <2> QED BY <1>14, <2>1, <2>2 DEF StoreCallFails
<1> QED BY <1>1, <1>2, <1>3, <1>4, <1>5, <1>6, <1>7, <1>8, <1>9, <1>10, <1>11, <1>12, <1>13, <1>14 DEF FetchStep

LEMMA LoopStepTyped ==
  ASSUME Typed, LoopStep
  PROVE  Typed'
<1> USE DEF Typed, TypeOK, Prepared, Goto, FetchSteps, LoopSteps, Threads
<1>1. CASE LoopTop
  BY <1>1 DEF LoopTop, dbVars, memVars, boundVars
<1>2. ASSUME NEW p \in Providers, LoopScan(p) PROVE Typed'
  <2>1. ScheduleOf(p) \in Schedule
    BY LadderRungs DEF ScheduleOf, DueNow, Schedule, Never
  <2>2. known' \in SUBSET Providers /\ sched' \in [Providers -> Schedule]
    BY <1>2, <2>1 DEF LoopScan
  <2>3. CASE UNCHANGED <<pc, job>>
    BY <1>2, <2>2, <2>3 DEF LoopScan, dbVars, boundVars
  <2>4. CASE Goto(Loop, "exited") /\ UNCHANGED job
    BY <1>2, <2>2, <2>4 DEF LoopScan, dbVars, boundVars
  <2>5. CASE Begin(Loop, p)
    <3>1. [NoJob EXCEPT !.provider = p] \in Job
      BY NoJobTyped DEF Job
    <3>2. job' \in [Threads -> Job] /\ job'[Loop].provider = p
      BY <2>5, <3>1 DEF Begin, Job, NoJob
    <3> QED BY <1>2, <2>2, <2>5, <3>2 DEF LoopScan, Begin, dbVars, boundVars
  <2> QED BY <1>2, <2>3, <2>4, <2>5 DEF LoopScan
<1>3. CASE LoopScanned
  BY <1>3 DEF LoopScanned, dbVars, memVars, boundVars
<1>4. CASE MaybePrune
  BY <1>4 DEF MaybePrune, Pruned, dbVars, memVars, boundVars
<1>5. CASE LoopSleep
  BY <1>5, SleepIsNat DEF LoopSleep, dbVars, memVars, boundVars
<1>6. CASE LoopWake
  BY <1>6 DEF LoopWake, dbVars, memVars, boundVars
<1>7. CASE FetchStep(Loop)
  BY <1>7, FetchStepTyped
<1> QED BY <1>1, <1>2, <1>3, <1>4, <1>5, <1>6, <1>7 DEF LoopStep

LEMMA NextTyped == Typed /\ [Next]_vars => Typed'
<1> SUFFICES ASSUME Typed, [Next]_vars PROVE Typed'
  OBVIOUS
<1> USE DEF Typed, TypeOK, Prepared, Goto, FetchSteps, LoopSteps
<1>1. CASE LoopStep
  BY <1>1, LoopStepTyped
<1>2. ASSUME NEW t \in RefreshThreads, FetchNow(t) PROVE Typed'
  BY <1>2 DEF FetchNow, dbVars, memVars, Threads
<1>3. ASSUME NEW t \in RefreshThreads, NEW p \in Providers, FetchNowNext(t, p) PROVE Typed'
  <2>1. [NoJob EXCEPT !.provider = p] \in Job
    BY NoJobTyped DEF Job
  <2>2. job' \in [Threads -> Job] /\ job'[t].provider = p
    BY <1>3, <2>1 DEF FetchNowNext, Begin, Threads, Job, NoJob
  <2> QED BY <1>3, <2>2 DEF FetchNowNext, Begin, dbVars, memVars, boundVars, Threads
<1>4. ASSUME NEW t \in RefreshThreads, FetchNowReturns(t) PROVE Typed'
  BY <1>4 DEF FetchNowReturns, dbVars, memVars, boundVars, Threads
<1>5. ASSUME NEW t \in RefreshThreads, FetchStep(t) PROVE Typed'
  BY <1>5, FetchStepTyped DEF Threads
<1>6. ASSUME NEW p \in Providers, Configure(p) \/ PauseCodex(p) PROVE Typed'
  BY <1>6 DEF Configure, PauseCodex, dbVars, memVars, boundVars
<1>7. CASE Tick
  BY <1>7 DEF Tick, dbVars, memVars, boundVars
<1>8. CASE Stop
  BY <1>8 DEF Stop, dbVars, memVars, boundVars
<1>9. CASE Restart
  <2>1. sched' \in [Providers -> Schedule] /\ job' \in [Threads -> Job]
    BY <1>9, LadderRungs, NoJobTyped DEF Restart, Blank, Schedule
  <2>2. pc' \in [Threads -> {"top", "idle"}]
    BY <1>9 DEF Restart, Idle
  <2>3. /\ cycle' \in [tasks : SUBSET Providers, now : Nat, wake : Nat]
        /\ lastPrune' = Never /\ restarts' = restarts + 1
    BY <1>9 DEF Restart, NoCycle
  <2>4. todo' \in [Threads -> SUBSET Providers] /\ known' = {} /\ stopping' \in BOOLEAN
    BY <1>9 DEF Restart
  <2>5. UNCHANGED <<clock, configured, rows, nextId, fails, requests>>
    BY <1>9 DEF Restart, dbVars
  <2>6. Prepared'
    BY <2>2
  <2>7. pc' \in [Threads -> FetchSteps \cup LoopSteps \cup {"idle"}]
    BY <2>2
  <2> HIDE DEF Prepared, FetchSteps, LoopSteps
  <2>8. TypeOK'
    BY <2>1, <2>3, <2>4, <2>5, <2>7
  <2> QED BY <2>6, <2>8
<1>10. CASE UNCHANGED vars
  BY <1>10 DEF vars, dbVars, memVars, boundVars
<1> QED BY <1>1, <1>2, <1>3, <1>4, <1>5, <1>6, <1>7, <1>8, <1>9, <1>10 DEF Next, RefreshStep

\* The type invariant of the scheduler.
THEOREM TypeCorrect == Spec => []TypeOK
<1>1. Spec => []Typed
  BY InitTyped, NextTyped, PTL DEF Spec
<1>2. Typed => TypeOK
  BY DEF Typed
<1> QED BY <1>1, <1>2, PTL

-----------------------------------------------------------------------------
(* The readings table *)

\* AUTOINCREMENT: ids are below the next one and name one row each; and every
\* provider with a row has a newest one.
Table ==
  /\ \A r \in rows : r.id \in Nat /\ r.id < nextId
  /\ \A r, q \in rows : r.id = q.id => r = q
  /\ \A r \in rows : Latest(r.provider) # {}

\* An inserted row is the newest of its provider, and of no other.
LEMMA InsertedIsNewest ==
  ASSUME TypeOK, Table, NEW new \in Row, new.id = nextId, NEW p
  PROVE  Newest(rows \cup {new}, p) = IF p = new.provider THEN {new} ELSE Latest(p)
<1>1. CASE p = new.provider
  BY <1>1 DEF Newest, Table, TypeOK
<1>2. CASE p # new.provider
  BY <1>2 DEF Newest, Latest
<1> QED BY <1>1, <1>2

\* A prune leaves the newest row of every provider what it was.
LEMMA PruneKeepsNewest ==
  ASSUME TypeOK, Table, NEW cutoff, NEW p
  PROVE  Newest(Pruned(rows, cutoff), p) = Latest(p)
<1>1. Latest(p) \subseteq Newest(Pruned(rows, cutoff), p)
  BY DEF Newest, Latest, Pruned
<1>2. ASSUME NEW r \in Newest(Pruned(rows, cutoff), p) PROVE r \in Latest(p)
  <2>1. r \in rows /\ r.provider = p
    BY DEF Newest, Pruned
  <2>2. PICK m : m \in Latest(p)
    BY <2>1 DEF Table
  <2>3. m \in Pruned(rows, cutoff) /\ m.provider = p /\ m \in rows /\ r.id <= m.id
    BY <2>1, <2>2 DEF Latest, Newest, Pruned
  <2>4. m.id <= r.id
    BY <2>3 DEF Newest
  <2>5. m.id = r.id
    BY <2>1, <2>3, <2>4 DEF Table
  <2> QED BY <2>1, <2>2, <2>3, <2>5 DEF Table
<1> QED BY <1>1, <1>2

\* The steps that change the table insert a row or prune it.
LEMMA TableSteps ==
  ASSUME Typed, [Next]_vars
  PROVE  \/ UNCHANGED <<rows, nextId>>
         \/ \E new \in Row : new.id = nextId /\ Insert(new)
         \/ \E cutoff : rows' = Pruned(rows, cutoff) /\ UNCHANGED nextId
<1>1. ASSUME NEW t \in Threads, FetchStep(t)
      PROVE  UNCHANGED <<rows, nextId>> \/ \E new \in Row : new.id = nextId /\ Insert(new)
  <2>1. CASE StoreReading(t)
    <3> DEFINE r == [id |-> nextId, provider |-> job[t].provider, status |-> "ok",
                     usage |-> job[t].out.usage, note |-> FALSE, at |-> job[t].out.at]
    <3>1. r \in Row
      BY <2>1 DEF StoreReading, Typed, TypeOK, Prepared, FetchSteps, Row, Job, Outcome
    <3>2. Insert(r) /\ r.id = nextId
      BY <2>1 DEF StoreReading
    <3> QED BY <3>1, <3>2
  <2>2. CASE RecordFailure(t)
    <3>1. PICK r \in FailureRow(t) : Insert(r)
      BY <2>2 DEF RecordFailure
    <3>2. r \in Row /\ r.id = nextId
      BY <2>2, FailureRowTyped DEF RecordFailure, Typed, Prepared, FetchSteps
    <3> QED BY <3>1, <3>2
  <2> QED BY <1>1, <2>1, <2>2
          DEF FetchStep, ReadPrevious, FetchSucceeds, FetchFails, RefreshToken, RetryFetch,
              ResetFailures, ScheduleAfterSuccess, ReadExisting, IncrementFailures,
              ScheduleAfterFailure, BackoffOverflows, StoreCallFails, dbVars
<1>2. CASE LoopStep
  BY <1>1, <1>2 DEF LoopStep, LoopTop, LoopScan, LoopScanned, MaybePrune, LoopSleep, LoopWake,
                    dbVars, Threads
<1>3. ASSUME NEW t \in RefreshThreads, FetchNow(t) \/ RefreshStep(t)
      PROVE  UNCHANGED <<rows, nextId>> \/ \E new \in Row : new.id = nextId /\ Insert(new)
  BY <1>1, <1>3 DEF RefreshStep, FetchNow, FetchNowNext, FetchNowReturns, dbVars, Threads
<1> QED BY <1>2, <1>3 DEF Next, Configure, PauseCodex, Tick, Stop, Restart, vars, dbVars

\* What a step does to the newest rows: nothing, or it adds one newer row.
LEMMA NewestSteps ==
  ASSUME Typed, Table, [Next]_vars
  PROVE  /\ Table'
         /\ \/ \A p : Latest(p)' = Latest(p)
            \/ \E new \in Row : /\ new.id = nextId /\ Insert(new)
                               /\ \A p : Latest(p)' = IF p = new.provider THEN {new} ELSE Latest(p)
<1>1. CASE UNCHANGED <<rows, nextId>>
  BY <1>1 DEF Table, Latest, Newest
<1>2. ASSUME NEW new \in Row, new.id = nextId, Insert(new)
      PROVE  Table' /\ \A p : Latest(p)' = IF p = new.provider THEN {new} ELSE Latest(p)
  <2>1. \A p : Latest(p)' = IF p = new.provider THEN {new} ELSE Latest(p)
    BY <1>2, InsertedIsNewest DEF Insert, Latest, Newest, Typed
  <2>2. \A r \in rows' : r.id \in Nat /\ r.id < nextId'
    BY <1>2 DEF Insert, Table, Typed, TypeOK
  <2>3. \A r, q \in rows' : r.id = q.id => r = q
    BY <1>2 DEF Insert, Table, Typed, TypeOK
  <2>4. \A r \in rows' : Latest(r.provider)' # {}
    BY <1>2, <2>1 DEF Insert, Table
  <2> QED BY <2>1, <2>2, <2>3, <2>4 DEF Table
<1>3. ASSUME NEW cutoff, rows' = Pruned(rows, cutoff), UNCHANGED nextId
      PROVE  Table' /\ \A p : Latest(p)' = Latest(p)
  <2>1. \A p : Latest(p)' = Latest(p)
    BY <1>3, PruneKeepsNewest DEF Latest, Typed
  <2>2. rows' \subseteq rows
    BY <1>3 DEF Pruned
  <2> QED BY <1>3, <2>1, <2>2 DEF Table
<1> QED BY <1>1, <1>2, <1>3, TableSteps

LEMMA InitTable == Init => Table
  BY DEF Init, Table

LEMMA TableAlways == Spec => [](Typed /\ Table)
<1>1. Typed /\ Table /\ [Next]_vars => (Typed /\ Table)'
  BY NextTyped, NewestSteps
<1> QED BY <1>1, InitTyped, InitTable, PTL DEF Spec

\* Whatever the threads, crashes and prunes, a provider once served stays served.
THEOREM ServedStays == Spec => ServedStaysServed
<1>1. Typed /\ Table /\ [Next]_vars =>
        [\A p \in Providers : Latest(p) # {} => Latest(p)' # {}]_vars
  BY NewestSteps
<1> QED BY <1>1, TableAlways, PTL DEF Spec, ServedStaysServed

-----------------------------------------------------------------------------
(* The floor between polls *)

\* Nothing recorded lies in the future.
Past ==
  /\ \A t \in Threads : job[t].out.at <= clock
  /\ \A p \in Providers : sched[p].lastSuccess <= clock

\* A reading of a fetch is not from the future, and the due time of a provider leaves
\* the floor after every one of them, unless the thread that stored it is still to set it.
OkRowsInPast == \A r \in rows : r.status = "ok" => r.at <= clock
LeavesFloor(p) ==
  \A r \in rows : r.provider = p /\ r.status = "ok" => sched[p].nextDue >= r.at + Floor
BeingStored(p) == \E t \in Threads : job[t].provider = p /\ pc[t] \in {"reset", "advance"}
DueAfterFloor ==
  ~ StoreFaults => \A p \in Providers : Polled(p) => LeavesFloor(p) \/ BeingStored(p)

FloorInv == Past /\ OkRowsInPast /\ DueAfterFloor

\* A step that leaves the clock and the schedules alone, adds no reading of a fetch, drops
\* no thread that is storing one, and gives no job an outcome in the future.
LEMMA FloorKept ==
  ASSUME Typed, FloorInv, UNCHANGED <<clock, known, sched>>,
         \A r \in rows' : r \in rows \/ r.status # "ok",
         \A u \in Threads : job'[u].out.at <= clock,
         ~ StoreFaults => \A u \in Threads : pc[u] \in {"reset", "advance"} =>
           pc'[u] \in {"reset", "advance"} /\ job'[u].provider = job[u].provider
  PROVE  FloorInv'
<1>1. Past' /\ OkRowsInPast'
  BY DEF FloorInv, Past, OkRowsInPast
<1>2. ASSUME ~ StoreFaults, NEW p \in Providers, Polled(p)'
      PROVE  LeavesFloor(p)' \/ BeingStored(p)'
  <2>1. LeavesFloor(p) \/ BeingStored(p)
    BY <1>2 DEF FloorInv, DueAfterFloor, Polled
  <2>2. LeavesFloor(p) => LeavesFloor(p)'
    BY DEF LeavesFloor
  <2>3. BeingStored(p) => BeingStored(p)'
    BY <1>2 DEF BeingStored
  <2> QED BY <2>1, <2>2, <2>3
<1> QED BY <1>1, <1>2 DEF FloorInv, DueAfterFloor

\* What a failure leaves is no reading of a fetch.
LEMMA FailureRowIsNotOk ==
  ASSUME TypeOK, NEW t \in Threads, NEW r \in FailureRow(t)
  PROVE  r.status # "ok"
<1> DEFINE offline == [id |-> nextId, provider |-> job[t].provider, status |-> "offline",
                       usage |-> -1, note |-> NeedsLogin(t), at |-> job[t].out.at]
           stale(x) == [x EXCEPT !.id = nextId, !.status = "stale",
                                 !.note = @ /\ x.status # "offline"]
<1>1. offline.status # "ok"
  OBVIOUS
<1>2. ASSUME NEW x \in job[t].existing PROVE stale(x).status # "ok"
  <2>1. x \in Row
    BY <1>2 DEF TypeOK, Job
  <2> QED BY <2>1 DEF Row
<1>3. FailureRow(t) = {offline} \/ FailureRow(t) = {stale(x) : x \in job[t].existing}
  BY DEF FailureRow
<1> HIDE DEF offline, stale
<1> QED BY <1>1, <1>2, <1>3

\* A fetch that ends sets a due time that is at least the floor away, which leaves it after
\* all there is.
LEMMA RescheduledFloor ==
  ASSUME Typed, FloorInv, NEW t \in Threads, NEW p \in Providers, p = job[t].provider,
         NEW due \in Nat, due >= clock + Floor,
         UNCHANGED <<clock, rows>>, known' = known \cup {p},
         sched'[p].nextDue = due, sched'[p].lastSuccess <= clock,
         \A q \in Providers \ {p} : sched'[q] = sched[q],
         \A u \in Threads : job'[u].out.at <= clock,
         \A u \in Threads \ {t} : pc'[u] = pc[u] /\ job'[u] = job[u]
  PROVE  FloorInv'
<1>1. clock \in Nat /\ Floor \in Nat
  BY LadderRungs DEF Typed, TypeOK
<1>2. Past' /\ OkRowsInPast'
  BY DEF FloorInv, Past, OkRowsInPast
<1>3. LeavesFloor(p)'
  <2>1. \A r \in rows : r.at \in Nat
    BY DEF Typed, TypeOK, Row
  <2> QED BY <1>1, <2>1 DEF FloorInv, OkRowsInPast, LeavesFloor
<1>4. ASSUME ~ StoreFaults, NEW q \in Providers \ {p}, Polled(q)'
      PROVE  LeavesFloor(q)' \/ BeingStored(q)'
  <2>1. LeavesFloor(q) \/ BeingStored(q)
    BY <1>4 DEF FloorInv, DueAfterFloor, Polled
  <2>2. LeavesFloor(q) => LeavesFloor(q)'
    BY <1>4 DEF LeavesFloor
  <2>3. BeingStored(q) => BeingStored(q)'
    BY <1>4 DEF BeingStored
  <2> QED BY <2>1, <2>2, <2>3
<1> QED BY <1>2, <1>3, <1>4 DEF FloorInv, DueAfterFloor

LEMMA FetchStepFloor ==
  ASSUME Typed, FloorInv, NEW t \in Threads, FetchStep(t)
  PROVE  FloorInv'
<1> USE DEF Typed, TypeOK, Goto
<1>0. /\ job \in [Threads -> Job] /\ clock \in Nat /\ \A u \in Threads : job[u].out.at <= clock
      /\ pc \in [Threads -> FetchSteps \cup LoopSteps \cup {"idle"}]
  BY DEF FloorInv, Past
<1> DEFINE Stays ==
             ~ StoreFaults => \A u \in Threads : pc[u] \in {"reset", "advance"} =>
               pc'[u] \in {"reset", "advance"} /\ job'[u].provider = job[u].provider
<1>1. CASE ReadPrevious(t) \/ ReadExisting(t) \/ IncrementFailures(t)
  <2>1. \A u \in Threads : job'[u].out.at <= clock
    <3>1. CASE ReadPrevious(t)
      BY <1>0, <3>1 DEF ReadPrevious, Job
    <3>2. CASE ReadExisting(t)
      BY <1>0, <3>2 DEF ReadExisting, Job
    <3>3. CASE IncrementFailures(t)
      BY <1>0, <3>3 DEF IncrementFailures, Job
    <3> QED BY <1>1, <3>1, <3>2, <3>3
  <2>2. Stays
    BY <1>0, <1>1 DEF ReadPrevious, ReadExisting, IncrementFailures
  <2> QED BY <1>1, <2>1, <2>2, FloorKept DEF ReadPrevious, ReadExisting, IncrementFailures,
                                             memVars, dbVars
<1>2. CASE FetchSucceeds(t) \/ FetchFails(t)
  <2>1. \A u \in Threads : job'[u].out.at <= clock
    <3>1. CASE FetchSucceeds(t)
      BY <1>0, <3>1 DEF FetchSucceeds, Job
    <3>2. CASE FetchFails(t)
      <4>1. PICK kind \in Failures, after \in RetryAfters :
              job' = [job EXCEPT ![t].out = [kind |-> kind, usage |-> -1, at |-> 0, after |-> after],
                                ![t].handling = TRUE]
        BY <3>2 DEF FetchFails
      <4>2. job'[t].out.at = 0 /\ \A u \in Threads \ {t} : job'[u] = job[u]
        BY <1>0, <4>1 DEF Job
      <4> QED BY <1>0, <4>2
    <3> QED BY <1>2, <3>1, <3>2
  <2>2. Stays
    <3>1. CASE FetchSucceeds(t)
      BY <1>0, <3>1 DEF FetchSucceeds
    <3>2. CASE FetchFails(t)
      BY <1>0, <3>2 DEF FetchFails
    <3> QED BY <1>2, <3>1, <3>2
  <2> QED BY <1>2, <2>1, <2>2, FloorKept DEF FetchSucceeds, FetchFails, memVars, dbVars
<1>3. CASE RetryFetch(t) \/ StoreCallFails(t) \/ BackoffOverflows(t)
  <2>1. \A u \in Threads : job'[u].out.at <= clock
    BY <1>0, <1>3 DEF RetryFetch, StoreCallFails, BackoffOverflows, Escape, NoJob, NoOutcome, Job
  <2>2. Stays
    BY <1>0, <1>3 DEF RetryFetch, StoreCallFails, BackoffOverflows, Escape
  <2> QED BY <1>3, <2>1, <2>2, FloorKept DEF RetryFetch, StoreCallFails, BackoffOverflows,
                                             memVars, dbVars
<1>4. CASE RefreshToken(t) \/ ResetFailures(t)
  <2>1. Stays
    BY <1>0, <1>4 DEF RefreshToken, ResetFailures
  <2> QED BY <1>0, <1>4, <2>1, FloorKept DEF RefreshToken, ResetFailures, memVars, dbVars
<1>8. CASE StoreReading(t)
  <2>0. PICK p \in Providers : p = job[t].provider
    BY <1>8 DEF StoreReading, Prepared, FetchSteps
  <2> DEFINE new == [id |-> nextId, provider |-> p, status |-> "ok",
                    usage |-> job[t].out.usage, note |-> FALSE, at |-> job[t].out.at]
  <2>1. /\ rows' = rows \cup {new} /\ UNCHANGED <<clock, known, sched, job>>
        /\ pc' = [pc EXCEPT ![t] = "reset"] /\ pc[t] = "store"
    BY <1>8, <2>0 DEF StoreReading, Insert, memVars
  <2>2. new.provider = p /\ new.at <= clock
    BY <1>0
  <2> HIDE DEF new
  <2>3. Past' /\ OkRowsInPast'
    BY <1>0, <2>1, <2>2 DEF FloorInv, Past, OkRowsInPast
  <2>4. BeingStored(p)'
    BY <1>0, <2>0, <2>1 DEF BeingStored
  <2>5. ASSUME ~ StoreFaults, NEW q \in Providers, q # p, Polled(q)'
        PROVE  LeavesFloor(q)' \/ BeingStored(q)'
    <3>1. LeavesFloor(q) \/ BeingStored(q)
      BY <2>1, <2>5 DEF FloorInv, DueAfterFloor, Polled
    <3>2. LeavesFloor(q) => LeavesFloor(q)'
      BY <2>1, <2>2, <2>5 DEF LeavesFloor
    <3>3. BeingStored(q) => BeingStored(q)'
      BY <1>0, <2>1 DEF BeingStored
    <3> QED BY <3>1, <3>2, <3>3
  <2> QED BY <2>3, <2>4, <2>5 DEF FloorInv, DueAfterFloor
<1>5. CASE RecordFailure(t)
  <2>1. \A u \in Threads : job'[u].out.at <= clock
    BY <1>0, <1>5 DEF RecordFailure, Return, NoJob, NoOutcome, Job
  <2>2. Stays
    BY <1>0, <1>5 DEF RecordFailure, Return
  <2>3. \A r \in rows' : r \in rows \/ r.status # "ok"
    <3>1. PICK r \in FailureRow(t) : rows' = rows \cup {r}
      BY <1>5 DEF RecordFailure, Insert
    <3> QED BY <3>1, FailureRowIsNotOk
  <2> QED BY <1>5, <2>1, <2>2, <2>3, FloorKept DEF RecordFailure, memVars
<1>6. CASE ScheduleAfterSuccess(t)
  <2> DEFINE p == job[t].provider
             interval == SuccessInterval(p, job[t].previous, job[t].out.usage)
  <2>1. interval \in Nat /\ interval >= Floor /\ Floor \in Nat
    BY SuccessIntervalFromFloor, LadderRungs
  <2>2. /\ known' = known \cup {p} /\ p \in Providers /\ clock' = clock
        /\ sched' = [sched EXCEPT ![p] = [interval |-> interval, nextDue |-> clock + interval,
                                         lastSuccess |-> job[t].out.at, failures |-> 0]]
    BY <1>6 DEF ScheduleAfterSuccess, Prepared, FetchSteps
  <2> HIDE DEF interval
  <2>3. job[t].out.at \in Nat /\ job[t].out.at <= clock
    BY <1>0 DEF Job, Outcome
  <2>4. \A u \in Threads : job'[u].out.at <= clock
    BY <1>0, <1>6 DEF ScheduleAfterSuccess, Return, NoJob, NoOutcome, Job
  <2>5. \A q \in Providers \ {p} : sched'[q] = sched[q]
    BY <2>2
  <2>6. /\ sched'[p].lastSuccess = job[t].out.at
        /\ sched'[p].nextDue = clock + interval
    BY <2>2
  <2>7. \A u \in Threads \ {t} : pc'[u] = pc[u] /\ job'[u] = job[u]
    BY <1>0, <1>6 DEF ScheduleAfterSuccess, Return
  <2>8. UNCHANGED rows
    BY <1>6 DEF ScheduleAfterSuccess, dbVars
  <2>9. clock + interval \in Nat /\ clock + interval >= clock + Floor
    BY <1>0, <2>1
  <2> QED BY <2>2, <2>3, <2>4, <2>5, <2>6, <2>7, <2>8, <2>9, RescheduledFloor
<1>7. CASE ScheduleAfterFailure(t)
  <2> DEFINE p == job[t].provider
             backoff == IF NeedsLogin(t) THEN Cap ELSE FailureBackoff(job[t].failures, job[t].out)
  <2>1. p \in Providers /\ job[t].failures \in Nat /\ job[t].failures > 0 /\ job[t].out \in Outcome
    BY <1>7 DEF ScheduleAfterFailure, Prepared, FetchSteps, Job
  <2>2. backoff \in Nat /\ backoff >= Floor /\ Floor \in Nat
    BY <1>7, <2>1, FailureBackoffFromFloor, NumbersAssumption, LadderRungs DEF ScheduleAfterFailure
  <2>3. /\ known' = known \cup {p} /\ clock' = clock
        /\ sched' = [sched EXCEPT ![p] = [interval |-> backoff, nextDue |-> clock + backoff,
                                         lastSuccess |-> ScheduleOf(p).lastSuccess,
                                         failures |-> job[t].failures]]
    BY <1>7 DEF ScheduleAfterFailure
  <2> HIDE DEF backoff
  <2>4. \A u \in Threads : job'[u].out.at <= clock
    BY <1>0, <1>7 DEF ScheduleAfterFailure, Job
  <2>5. \A q \in Providers \ {p} : sched'[q] = sched[q]
    BY <2>3
  <2>6. /\ sched'[p].lastSuccess = ScheduleOf(p).lastSuccess
        /\ sched'[p].nextDue = clock + backoff
    BY <2>1, <2>3
  <2>7. ScheduleOf(p).lastSuccess \in Int /\ ScheduleOf(p).lastSuccess <= clock
    BY <2>1 DEF FloorInv, Past, ScheduleOf, DueNow, Never, Schedule
  <2>8. \A u \in Threads \ {t} : pc'[u] = pc[u] /\ job'[u] = job[u]
    BY <1>0, <1>7 DEF ScheduleAfterFailure
  <2>9. UNCHANGED rows
    BY <1>7 DEF ScheduleAfterFailure, dbVars
  <2>10. clock + backoff \in Nat /\ clock + backoff >= clock + Floor
    BY <1>0, <2>2
  <2> QED BY <2>1, <2>3, <2>4, <2>5, <2>6, <2>7, <2>8, <2>9, <2>10, RescheduledFloor
<1> QED BY <1>1, <1>2, <1>3, <1>4, <1>5, <1>6, <1>7, <1>8 DEF FetchStep

LEMMA InitFloor == Init => FloorInv
  BY DEF Init, FloorInv, Past, OkRowsInPast, DueAfterFloor, Polled, Blank, Never, NoJob, NoOutcome

LEMMA FloorStep == Typed /\ FloorInv /\ [Next]_vars => FloorInv'
<1> SUFFICES ASSUME Typed, FloorInv, [Next]_vars PROVE FloorInv'
  OBVIOUS
<1> USE DEF Typed, TypeOK
<1>0. /\ job \in [Threads -> Job] /\ clock \in Nat /\ \A u \in Threads : job[u].out.at <= clock
      /\ pc \in [Threads -> FetchSteps \cup LoopSteps \cup {"idle"}] /\ Loop \in Threads
  BY DEF FloorInv, Past, Threads
<1> DEFINE Stays ==
             ~ StoreFaults => \A u \in Threads : pc[u] \in {"reset", "advance"} =>
               pc'[u] \in {"reset", "advance"} /\ job'[u].provider = job[u].provider
<1>1. ASSUME NEW t \in Threads, FetchStep(t) PROVE FloorInv'
  BY <1>1, FetchStepFloor
<1>2. ASSUME NEW p \in Providers, LoopScan(p) PROVE FloorInv'
  <2>1. /\ clock' = clock
        /\ \/ UNCHANGED <<known, sched>>
           \/ known' = known \cup {p} /\ sched' = [sched EXCEPT ![p] = ScheduleOf(p)]
    BY <1>2 DEF LoopScan
  <2>2. \A u \in Threads : job'[u].out.at <= clock
    BY <1>0, <1>2 DEF LoopScan, Begin, NoJob, NoOutcome, Job
  <2>3. \A q \in known' : q \in known \/ sched'[q].lastSuccess = Never
    BY <1>2, <2>1 DEF ScheduleOf, DueNow
  <2>4. \A q \in known : sched'[q] = sched[q]
    BY <2>1 DEF ScheduleOf
  <2>5. \A q \in Providers : sched'[q] = sched[q] \/ sched'[q].lastSuccess = Never
    BY <2>1 DEF ScheduleOf, DueNow
  <2>6. Past'
    BY <1>0, <2>1, <2>2, <2>5 DEF FloorInv, Past, Never
  <2>7. OkRowsInPast' /\ UNCHANGED rows
    BY <1>2 DEF LoopScan, dbVars, FloorInv, OkRowsInPast
  <2>8. \A u \in Threads : pc[u] \in {"reset", "advance"} =>
          pc'[u] = pc[u] /\ job'[u] = job[u]
    BY <1>0, <1>2 DEF LoopScan, Begin, Goto
  <2>9. ASSUME ~ StoreFaults, NEW q \in Providers, Polled(q)'
        PROVE  LeavesFloor(q)' \/ BeingStored(q)'
    <3>1. q \in known
      BY <1>2, <2>1, <2>9 DEF Polled, ScheduleOf, DueNow
    <3>2. LeavesFloor(q) \/ BeingStored(q)
      BY <2>4, <2>9, <3>1 DEF Polled, FloorInv, DueAfterFloor
    <3>3. LeavesFloor(q) => LeavesFloor(q)'
      BY <2>4, <2>7, <3>1 DEF LeavesFloor
    <3>4. BeingStored(q) => BeingStored(q)'
      BY <2>8 DEF BeingStored
    <3> QED BY <3>2, <3>3, <3>4
  <2> QED BY <2>6, <2>7, <2>9 DEF FloorInv, DueAfterFloor
<1>3. CASE LoopTop \/ LoopScanned \/ MaybePrune \/ LoopSleep \/ LoopWake
  <2>1. Stays
    BY <1>0, <1>3 DEF LoopTop, LoopScanned, MaybePrune, LoopSleep, LoopWake, Goto
  <2>2. \A r \in rows' : r \in rows
    BY <1>3 DEF LoopTop, LoopScanned, MaybePrune, LoopSleep, LoopWake, dbVars, Pruned
  <2> QED BY <1>0, <1>3, <2>1, <2>2, FloorKept
          DEF LoopTop, LoopScanned, MaybePrune, LoopSleep, LoopWake, memVars
<1>4. ASSUME NEW t \in RefreshThreads,
             FetchNow(t) \/ FetchNowReturns(t) \/ \E p \in Providers : FetchNowNext(t, p)
      PROVE  FloorInv'
  <2>1. \A u \in Threads : job'[u].out.at <= clock
    BY <1>0, <1>4 DEF FetchNow, FetchNowReturns, FetchNowNext, Begin, NoJob, NoOutcome, Job
  <2>2. Stays
    BY <1>0, <1>4 DEF FetchNow, FetchNowReturns, FetchNowNext, Begin, Goto
  <2> QED BY <1>4, <2>1, <2>2, FloorKept DEF FetchNow, FetchNowReturns, FetchNowNext,
                                             memVars, dbVars
<1>5. ASSUME NEW p \in Providers, Configure(p) \/ PauseCodex(p) PROVE FloorInv'
  BY <1>0, <1>5, FloorKept DEF Configure, PauseCodex, memVars, dbVars
<1>6. CASE Tick
  <2>1. \A p \in Providers : sched[p].lastSuccess \in Int
    BY DEF Schedule, Never
  <2>2. \A u \in Threads : job[u].out.at \in Nat
    BY DEF Job, Outcome
  <2>3. Past' /\ OkRowsInPast'
    <3>1. \A r \in rows : r.at \in Nat
      BY DEF Row
    <3> QED BY <1>0, <1>6, <2>1, <2>2, <3>1 DEF Tick, memVars, dbVars, FloorInv, Past, OkRowsInPast
  <2>4. UNCHANGED <<rows, known, sched, pc, job>>
    BY <1>6 DEF Tick, memVars, dbVars
  <2>5. DueAfterFloor'
    BY <2>4 DEF FloorInv, DueAfterFloor, Polled, LeavesFloor, BeingStored
  <2> QED BY <2>3, <2>5 DEF FloorInv
<1>7. CASE Stop
  BY <1>0, <1>7, FloorKept DEF Stop, memVars, dbVars
<1>8. CASE Restart
  <2>1. \A u \in Threads : job'[u].out.at = 0
    BY <1>8 DEF Restart, NoJob, NoOutcome
  <2>2. /\ known' = {} /\ UNCHANGED <<clock, rows>>
        /\ \A p \in Providers : sched'[p].lastSuccess = -1
    BY <1>8 DEF Restart, Blank, Never, dbVars
  <2> QED BY <1>0, <2>1, <2>2 DEF FloorInv, Past, OkRowsInPast, DueAfterFloor, Polled
<1>9. CASE UNCHANGED vars
  BY <1>0, <1>9, FloorKept DEF vars, memVars, dbVars
<1> QED BY <1>1, <1>2, <1>3, <1>4, <1>5, <1>6, <1>7, <1>8, <1>9
        DEF Next, LoopStep, RefreshStep, Threads

\* Only the scan takes a provider up.
LEMMA TakenByScan ==
  ASSUME Typed, [Next]_vars, NEW p \in Providers, LoopTakes(p)
  PROVE  \E q \in Providers : LoopScan(q)
<1> USE DEF LoopTakes, Typed, TypeOK, Goto
<1>1. /\ pc[Loop] = "scan" /\ pc'[Loop] = "previous" /\ Loop \in Threads
      /\ \A t \in RefreshThreads : t # Loop
      /\ pc \in [Threads -> FetchSteps \cup LoopSteps \cup {"idle"}]
  BY SetsAssumption DEF Threads
<1>2. ASSUME NEW t \in Threads, FetchStep(t) PROVE FALSE
  <2>1. t # Loop /\ pc'[Loop] = pc[Loop]
    BY <1>1, <1>2 DEF FetchStep, ReadPrevious, FetchSucceeds, FetchFails, RefreshToken, RetryFetch,
       StoreReading, ResetFailures, ScheduleAfterSuccess, ReadExisting, IncrementFailures,
       ScheduleAfterFailure, BackoffOverflows, RecordFailure, StoreCallFails, Escape, Return
  <2> QED BY <1>1, <2>1
<1>3. ~ (LoopTop \/ LoopScanned \/ MaybePrune \/ LoopSleep \/ LoopWake)
  BY <1>1 DEF LoopTop, LoopScanned, MaybePrune, LoopSleep, LoopWake
<1>4. ASSUME NEW t \in RefreshThreads,
             FetchNow(t) \/ FetchNowReturns(t) \/ \E q \in Providers : FetchNowNext(t, q)
      PROVE  FALSE
  BY <1>1, <1>4 DEF FetchNow, FetchNowReturns, FetchNowNext, Begin
<1>5. ~ (\/ \E q \in Providers : Configure(q) \/ PauseCodex(q)
         \/ Tick \/ Stop \/ Restart \/ UNCHANGED vars)
  BY <1>1 DEF Configure, PauseCodex, Tick, Stop, Restart, Idle, vars
<1> QED BY <1>1, <1>2, <1>3, <1>4, <1>5 DEF Next, LoopStep, RefreshStep, Threads

\* The loop does not decide to poll a provider within the floor of a reading there is of it,
\* however the fetches of the loop and the requests overlapped, when none of them is under
\* way and the database has taken their calls.
THEOREM FloorHolds == Spec => FloorBetweenPolls
<1>1. Typed /\ FloorInv /\ [Next]_vars => (Typed /\ FloorInv)'
  BY NextTyped, FloorStep
<1>2. Typed /\ FloorInv /\ [Next]_vars =>
        [\A p \in Providers :
           LoopTakes(p) /\ Polled(p) /\ AtRest(p) /\ ~ StoreFaults =>
             \A r \in rows : r.provider = p /\ r.status = "ok" => cycle.now >= r.at + Floor]_vars
  <2> SUFFICES ASSUME Typed, FloorInv, [Next]_vars, NEW p \in Providers,
                      LoopTakes(p), Polled(p), AtRest(p), ~ StoreFaults,
                      NEW r \in rows, r.provider = p, r.status = "ok"
               PROVE  cycle.now >= r.at + Floor
    OBVIOUS
  <2>1. sched[p].nextDue >= r.at + Floor
    BY DEF FloorInv, DueAfterFloor, LeavesFloor, BeingStored, AtRest
  <2>2. cycle.now >= sched[p].nextDue
    <3>1. PICK q \in Providers : LoopScan(q)
      BY TakenByScan
    <3>2. /\ Loop \in Threads /\ job \in [Threads -> Job] /\ job[Loop].provider # p
          /\ pc \in [Threads -> FetchSteps \cup LoopSteps \cup {"idle"}]
      BY DEF Typed, TypeOK, Threads, AtRest
    <3>3. cycle.now >= ScheduleOf(q).nextDue /\ Begin(Loop, q)
      BY <3>1, <3>2 DEF LoopScan, LoopTakes, Goto
    <3>4. q = p
      <4>1. NoJob \in [provider : Providers \cup {NoProvider}, previous : SUBSET Row,
                       existing : SUBSET Row, out : Outcome, failures : Nat, handling : BOOLEAN]
        BY NoJobTyped DEF Job
      <4>2. [NoJob EXCEPT !.provider = q].provider = q
        BY <4>1
      <4> QED BY <3>2, <3>3, <4>2 DEF Begin, LoopTakes
    <3> QED BY <3>3, <3>4 DEF Polled, ScheduleOf
  <2>3. sched[p].nextDue \in Nat /\ cycle.now \in Nat /\ r.at \in Nat /\ Floor \in Nat
    BY LadderRungs DEF Typed, TypeOK, Schedule, Row
  <2> QED BY <2>1, <2>2, <2>3
<1> QED BY <1>1, <1>2, InitTyped, InitFloor, PTL DEF Spec, FloorBetweenPolls

-----------------------------------------------------------------------------
(* The loop alone: what is served agrees with the counter and never goes back *)

\* A success is stored before the counter is reset; a failure is counted before
\* its row is stored.
CountLeads ==
  /\ ZeroCountServesFresh
  /\ pc[Loop] = "reset" => \A r \in Latest(job[Loop].provider) : r.status = "ok"
  /\ pc[Loop] \in {"backoff", "record"} => fails[job[Loop].provider] > 0

\* Until ReadExisting nothing has been read, and after it nothing is stored
\* before the row of the failure.
BeforeExisting == {"previous", "fetch", "refresh", "retry", "store", "reset", "advance", "existing"}
ExistingIsLatest ==
  /\ pc[Loop] \in BeforeExisting => job[Loop].existing = {}
  /\ pc[Loop] \in {"increment", "backoff", "record"} =>
       job[Loop].existing \subseteq Latest(job[Loop].provider)

\* Rows are as old as they say, and a row about to be stored is not older than
\* the one it replaces.
RowsInPast ==
  /\ \A r \in rows : r.at <= clock
  /\ pc[Loop] \in {"store", "record"} =>
       \A r \in Latest(job[Loop].provider) : r.at <= job[Loop].out.at

AloneInv == CountLeads /\ ExistingIsLatest /\ RowsInPast

\* A provider has at most one newest row.
LEMMA NewestIsUnique ==
  ASSUME TypeOK, Table, NEW p, NEW r \in Latest(p), NEW q \in Latest(p)
  PROVE  r = q
<1>1. r \in rows /\ q \in rows /\ r.id <= q.id /\ q.id <= r.id
  BY DEF Latest, Newest
<1> QED BY <1>1 DEF Table

LEMMA InitAlone == Init => AloneInv
  BY DEF Init, AloneInv, CountLeads, ZeroCountServesFresh, ExistingIsLatest, RowsInPast,
     Latest, Newest, NoJob, Idle, Threads, BeforeExisting

\* A step of the loop's fetch that leaves the tables alone.
LEMMA QuietFetchAlone ==
  ASSUME Typed, FloorInv, AloneInv, UNCHANGED <<rows, fails, clock>>,
         \/ ReadPrevious(Loop) \/ FetchSucceeds(Loop) \/ FetchFails(Loop) \/ RefreshToken(Loop)
         \/ RetryFetch(Loop) \/ ScheduleAfterSuccess(Loop) \/ ReadExisting(Loop)
         \/ ScheduleAfterFailure(Loop) \/ BackoffOverflows(Loop) \/ StoreCallFails(Loop)
  PROVE  AloneInv'
<1> USE DEF AloneInv, CountLeads, ZeroCountServesFresh, ExistingIsLatest, RowsInPast,
            BeforeExisting, Goto, Latest
<1>0. /\ job \in [Threads -> Job] /\ pc \in [Threads -> FetchSteps \cup LoopSteps \cup {"idle"}]
      /\ Loop \in Threads /\ \A r \in rows : r.at <= clock
      /\ \A p : Newest(rows, p) \subseteq rows
  BY DEF Typed, TypeOK, Threads, Newest
<1>1. CASE ReadPrevious(Loop)
  BY <1>0, <1>1 DEF ReadPrevious, Job
<1>2. CASE FetchSucceeds(Loop)
  <2>1. PICK u \in Usage :
          job' = [job EXCEPT ![Loop].out = [kind |-> "ok", usage |-> u, at |-> clock, after |-> 0]]
    BY <1>2 DEF FetchSucceeds
  <2>2. job'[Loop].out.at = clock /\ job'[Loop].existing = {}
    BY <1>0, <1>2, <2>1 DEF FetchSucceeds, Job
  <2> QED BY <1>0, <1>2, <2>2 DEF FetchSucceeds
<1>3. CASE FetchFails(Loop)
  <2>1. PICK kind \in Failures, after \in RetryAfters :
          /\ job' = [job EXCEPT ![Loop].out = [kind |-> kind, usage |-> -1, at |-> 0, after |-> after],
                                ![Loop].handling = TRUE]
          /\ Goto(Loop, AfterFailure(job[Loop].provider, kind))
    BY <1>3 DEF FetchFails
  <2>2. job'[Loop].existing = {}
    <3>1. job[Loop].existing = {}
      BY <1>3 DEF FetchFails
    <3> QED BY <1>0, <2>1, <3>1 DEF Job
  <2>3. pc'[Loop] \in {"refresh", "increment", "existing"}
    BY <1>0, <2>1 DEF AfterFailure
  <2> QED BY <1>0, <2>2, <2>3
<1>4. CASE RefreshToken(Loop)
  BY <1>0, <1>4 DEF RefreshToken
<1>5. CASE RetryFetch(Loop)
  <2>1. ASSUME NEW u \in Usage, Goto(Loop, "store"),
               job' = [job EXCEPT ![Loop].out = [kind |-> "ok", usage |-> u, at |-> clock, after |-> 0]]
        PROVE  AloneInv'
    <3>1. job'[Loop].out.at = clock /\ job'[Loop].existing = {}
      BY <1>0, <1>5, <2>1 DEF RetryFetch, Job
    <3> QED BY <1>0, <2>1, <3>1
  <2>2. CASE Goto(Loop, "existing") /\ UNCHANGED job
    BY <1>0, <1>5, <2>2 DEF RetryFetch
  <2>3. CASE Escape(Loop)
    BY <1>0, <2>3 DEF Escape
  <2> QED BY <1>5, <2>1, <2>2, <2>3 DEF RetryFetch
<1>6. CASE ScheduleAfterSuccess(Loop)
  BY <1>0, <1>6 DEF ScheduleAfterSuccess, Return
<1>7. CASE ReadExisting(Loop)
  <2>1. job'[Loop].provider = job[Loop].provider /\ job'[Loop].existing = Latest(job[Loop].provider)
    BY <1>0, <1>7 DEF ReadExisting, Job
  <2>2. pc'[Loop] = "increment"
    BY <1>0, <1>7 DEF ReadExisting
  <2> QED BY <1>0, <2>1, <2>2
<1>8. CASE ScheduleAfterFailure(Loop)
  <2>1. /\ job'[Loop].provider = job[Loop].provider /\ job'[Loop].existing = job[Loop].existing
        /\ job'[Loop].out.at = clock
    BY <1>0, <1>8 DEF ScheduleAfterFailure, Job, Outcome
  <2>2. pc[Loop] = "backoff" /\ pc'[Loop] = "record"
    BY <1>0, <1>8 DEF ScheduleAfterFailure
  <2> QED BY <1>0, <2>1, <2>2
<1>9. CASE BackoffOverflows(Loop)
  BY <1>0, <1>9 DEF BackoffOverflows, Escape
<1>10. CASE StoreCallFails(Loop)
  <2>1. CASE Escape(Loop)
    BY <1>0, <2>1 DEF Escape
  <2>2. CASE /\ pc[Loop] \in {"store", "reset"}
             /\ job' = [job EXCEPT ![Loop].out = [NoOutcome EXCEPT !.kind = "other"],
                                   ![Loop].handling = TRUE]
             /\ Goto(Loop, "existing")
    <3>1. job'[Loop].existing = {} /\ pc'[Loop] = "existing"
      BY <1>0, <2>2 DEF Job
    <3> QED BY <1>0, <3>1
  <2> QED BY <1>10, <2>1, <2>2 DEF StoreCallFails
<1> QED BY <1>1, <1>2, <1>3, <1>4, <1>5, <1>6, <1>7, <1>8, <1>9, <1>10

\* The steps of its fetch that change the tables.
LEMMA TableFetchAlone ==
  ASSUME Typed, Table, FloorInv, AloneInv,
         \/ StoreReading(Loop) \/ ResetFailures(Loop) \/ IncrementFailures(Loop) \/ RecordFailure(Loop)
  PROVE  /\ AloneInv'
         /\ \A p \in Providers : \A r \in Latest(p), q \in Latest(p)' : r.at <= q.at
<1> USE DEF AloneInv, CountLeads, ZeroCountServesFresh, ExistingIsLatest, RowsInPast,
            BeforeExisting, Goto
<1> DEFINE p == job[Loop].provider
<1>0. /\ job \in [Threads -> Job] /\ pc \in [Threads -> FetchSteps \cup LoopSteps \cup {"idle"}]
      /\ Loop \in Threads /\ fails \in [Providers -> Nat] /\ nextId \in Nat /\ clock \in Nat
      /\ job[Loop].out.at \in Nat /\ job[Loop].out.at <= clock
  BY DEF Typed, TypeOK, Threads, Job, Outcome, FloorInv, Past
<1>1. p \in Providers
  BY <1>0 DEF StoreReading, ResetFailures, IncrementFailures, RecordFailure, Typed, Prepared, FetchSteps
<1>2. \A r \in rows : r.at \in Nat
  BY DEF Typed, TypeOK, Row
<1>7. \A q : \A r \in Latest(q), s \in Latest(q) : r.at <= s.at
  <2> TAKE q
  <2> TAKE r \in Latest(q), s \in Latest(q)
  <2>1. r = s
    BY NewestIsUnique DEF Typed
  <2>2. r \in rows
    BY DEF Latest, Newest
  <2> QED BY <1>2, <2>1, <2>2
<1>3. CASE StoreReading(Loop)
  <2> DEFINE new == [id |-> nextId, provider |-> p, status |-> "ok",
                     usage |-> job[Loop].out.usage, note |-> FALSE, at |-> job[Loop].out.at]
  <2>1. new \in Row /\ new.id = nextId /\ new.provider = p /\ new.status = "ok" /\ new.at = job[Loop].out.at
    BY <1>0, <1>1 DEF Row, Job, Outcome
  <2>2. rows' = rows \cup {new} /\ UNCHANGED <<fails, job, clock>> /\ pc[Loop] = "store" /\ pc'[Loop] = "reset"
    BY <1>0, <1>3 DEF StoreReading, Insert
  <2> HIDE DEF new
  <2>3. \A q : Latest(q)' = IF q = p THEN {new} ELSE Latest(q)
    BY <2>1, <2>2, InsertedIsNewest DEF Typed, Latest
  <2>4. \A r \in rows' : r.at <= clock'
    BY <1>0, <2>1, <2>2
  <2>5. \A r \in Latest(p) : r.at <= new.at
    BY <2>1, <2>2
  <2>6. \A q \in Providers : \A r \in Latest(q), s \in Latest(q)' : r.at <= s.at
    BY <1>7, <2>3, <2>5
  <2>7. CountLeads' /\ ExistingIsLatest'
    BY <2>1, <2>2, <2>3
  <2> QED BY <2>2, <2>4, <2>6, <2>7
<1>4. CASE ResetFailures(Loop)
  <2>1. /\ UNCHANGED <<rows, job, clock>> /\ pc[Loop] = "reset" /\ pc'[Loop] = "advance"
        /\ fails' = [fails EXCEPT ![p] = 0]
    BY <1>0, <1>4 DEF ResetFailures
  <2>2. \A q : Latest(q)' = Latest(q)
    BY <2>1 DEF Latest, Newest
  <2>3. \A q \in Providers : fails'[q] = fails[q] \/ q = p
    BY <1>0, <2>1
  <2>4. \A q \in Providers : \A r \in Latest(q), s \in Latest(q)' : r.at <= s.at
    BY <1>7, <2>2
  <2> QED BY <2>1, <2>2, <2>3, <2>4
<1>5. CASE IncrementFailures(Loop)
  <2>1. /\ UNCHANGED <<rows, clock>> /\ pc[Loop] = "increment" /\ pc'[Loop] = "backoff"
        /\ fails' = [fails EXCEPT ![p] = fails[p] + 1]
        /\ job'[Loop].provider = p /\ job'[Loop].existing = job[Loop].existing
    BY <1>0, <1>5 DEF IncrementFailures, Job
  <2>2. \A q : Latest(q)' = Latest(q)
    BY <2>1 DEF Latest, Newest
  <2>3. fails'[p] > 0 /\ \A q \in Providers : fails'[q] = fails[q] \/ q = p
    BY <1>0, <1>1, <2>1
  <2>4. \A q \in Providers : \A r \in Latest(q), s \in Latest(q)' : r.at <= s.at
    BY <1>7, <2>2
  <2> QED BY <2>1, <2>2, <2>3, <2>4
<1>6. CASE RecordFailure(Loop)
  <2>1. PICK new \in FailureRow(Loop) : Insert(new)
    BY <1>6 DEF RecordFailure
  <2>2. new \in Row /\ new.id = nextId
    BY <1>1, FailureRowTyped, <1>0 DEF Typed
  <2>3. rows' = rows \cup {new} /\ UNCHANGED <<fails, clock>> /\ pc[Loop] = "record" /\ pc'[Loop] = "scan"
    BY <1>0, <1>6, <2>1 DEF RecordFailure, Return, Insert
  <2>4. new.provider = p /\ new.at <= clock /\ \A r \in Latest(p) : r.at <= new.at
    <3>1. CASE new.provider = p /\ new.at = job[Loop].out.at
      BY <1>0, <2>3, <3>1
    <3>2. CASE \E r \in job[Loop].existing : new = [r EXCEPT !.id = nextId, !.status = "stale",
                                                       !.note = @ /\ r.status # "offline"]
      <4>1. PICK r \in job[Loop].existing : new = [r EXCEPT !.id = nextId, !.status = "stale",
                                                       !.note = @ /\ r.status # "offline"]
        BY <3>2
      <4>2. r \in Latest(p)
        BY <2>3, <4>1
      <4>3. r \in rows /\ r.provider = p
        BY <4>2 DEF Latest, Newest
      <4>4. r \in Row
        BY <4>3 DEF Typed, TypeOK
      <4>5. new.provider = p /\ new.at = r.at
        BY <4>1, <4>3, <4>4 DEF Row
      <4> QED BY <1>2, <4>2, <4>3, <4>5, NewestIsUnique DEF Typed
    <3> DEFINE offline == [id |-> nextId, provider |-> p, status |-> "offline", usage |-> -1,
                           note |-> NeedsLogin(Loop), at |-> job[Loop].out.at]
               stale(r) == [r EXCEPT !.id = nextId, !.status = "stale",
                                     !.note = @ /\ r.status # "offline"]
    <3>3. FailureRow(Loop) = {offline} \/ FailureRow(Loop) = {stale(r) : r \in job[Loop].existing}
      BY DEF FailureRow
    <3>4. offline.provider = p /\ offline.at = job[Loop].out.at
      OBVIOUS
    <3>5. CASE FailureRow(Loop) = {offline}
      BY <2>1, <3>1, <3>4, <3>5
    <3>6. CASE FailureRow(Loop) = {stale(r) : r \in job[Loop].existing}
      BY <2>1, <3>2, <3>6
    <3> QED BY <3>3, <3>5, <3>6
  <2>5. \A q : Latest(q)' = IF q = p THEN {new} ELSE Latest(q)
    BY <2>2, <2>3, <2>4, InsertedIsNewest DEF Typed, Latest
  <2>6. \A r \in rows' : r.at <= clock'
    BY <2>3, <2>4
  <2>7. fails[p] > 0
    BY <2>3
  <2>8. \A q \in Providers : \A r \in Latest(q), s \in Latest(q)' : r.at <= s.at
    BY <1>7, <2>4, <2>5
  <2>9. CountLeads' /\ ExistingIsLatest'
    BY <2>3, <2>5, <2>7
  <2> QED BY <2>3, <2>6, <2>8, <2>9
<1> QED BY <1>3, <1>4, <1>5, <1>6

\* With no request thread, every step keeps AloneInv and never goes back in time.
LEMMA AloneStep ==
  ASSUME RefreshThreads = {}, Typed, Table, FloorInv, AloneInv, [Next]_vars
  PROVE  /\ AloneInv'
         /\ \A p \in Providers : \A r \in Latest(p), q \in Latest(p)' : r.at <= q.at
<1>0. /\ job \in [Threads -> Job] /\ pc \in [Threads -> FetchSteps \cup LoopSteps \cup {"idle"}]
      /\ Loop \in Threads /\ clock \in Nat /\ \A r \in rows : r.at \in Nat
  BY DEF Typed, TypeOK, Threads, Row
<1>1. ASSUME \A p : Latest(p)' = Latest(p)
      PROVE  \A p \in Providers : \A r \in Latest(p), q \in Latest(p)' : r.at <= q.at
  <2> SUFFICES ASSUME NEW p \in Providers, NEW r \in Latest(p), NEW q \in Latest(p)
               PROVE  r.at <= q.at
    BY <1>1
  <2>1. r = q
    BY NewestIsUnique DEF Typed
  <2>2. r \in rows
    BY DEF Latest, Newest
  <2> QED BY <1>0, <2>1, <2>2
<1>2. ASSUME UNCHANGED <<rows, fails, clock>>
      PROVE  \A p : Latest(p)' = Latest(p)
  BY <1>2 DEF Latest, Newest
<1>3. CASE FetchStep(Loop)
  <2>1. CASE \/ StoreReading(Loop) \/ ResetFailures(Loop)
             \/ IncrementFailures(Loop) \/ RecordFailure(Loop)
    BY <2>1, TableFetchAlone
  <2>2. CASE \/ ReadPrevious(Loop) \/ FetchSucceeds(Loop) \/ FetchFails(Loop) \/ RefreshToken(Loop)
             \/ RetryFetch(Loop) \/ ScheduleAfterSuccess(Loop) \/ ReadExisting(Loop)
             \/ ScheduleAfterFailure(Loop) \/ BackoffOverflows(Loop) \/ StoreCallFails(Loop)
    <3>1. UNCHANGED <<rows, fails, clock>>
      BY <2>2 DEF ReadPrevious, FetchSucceeds, FetchFails, RefreshToken, RetryFetch,
                  ScheduleAfterSuccess, ReadExisting, ScheduleAfterFailure, BackoffOverflows,
                  StoreCallFails, dbVars
    <3> QED BY <1>1, <1>2, <2>2, <3>1, QuietFetchAlone
  <2> QED BY <1>3, <2>1, <2>2 DEF FetchStep
<1>4. ASSUME UNCHANGED <<rows, fails>>, clock' >= clock, clock' \in Nat,
             \/ pc'[Loop] \notin FetchSteps
             \/ pc'[Loop] = "previous" /\ job'[Loop].existing = {}
             \/ UNCHANGED <<pc, job>>
      PROVE  AloneInv'
  BY <1>0, <1>4 DEF AloneInv, CountLeads, ZeroCountServesFresh, ExistingIsLatest, RowsInPast,
                    BeforeExisting, FetchSteps, Latest
<1>5. ASSUME UNCHANGED rows PROVE \A p : Latest(p)' = Latest(p)
  BY <1>5 DEF Latest, Newest
<1>6. ASSUME NEW p \in Providers, LoopScan(p) PROVE AloneInv' /\ UNCHANGED rows
  <2>1. UNCHANGED <<rows, fails, clock>>
    BY <1>6 DEF LoopScan, dbVars
  <2>2. CASE Begin(Loop, p)
    <3>1. pc'[Loop] = "previous" /\ job'[Loop].existing = {}
      BY <1>0, <2>2 DEF Begin, Goto, NoJob
    <3> QED BY <1>0, <1>4, <2>1, <3>1
  <2>3. CASE Goto(Loop, "exited")
    BY <1>0, <1>4, <2>1, <2>3 DEF Goto, FetchSteps
  <2>4. CASE UNCHANGED <<pc, job>>
    BY <1>0, <1>4, <2>1, <2>4
  <2> QED BY <1>6, <2>1, <2>2, <2>3, <2>4 DEF LoopScan
<1>7. CASE LoopTop \/ LoopScanned \/ LoopSleep \/ LoopWake
  <2>1. UNCHANGED <<rows, fails, clock>> /\ pc'[Loop] \notin FetchSteps
    BY <1>0, <1>7 DEF LoopTop, LoopScanned, LoopSleep, LoopWake, Goto, FetchSteps, dbVars
  <2> QED BY <1>0, <1>1, <1>4, <1>5, <2>1
<1>8. CASE MaybePrune
  <2>1. \A p : Latest(p)' = Latest(p)
    BY <1>8, PruneKeepsNewest DEF MaybePrune, Latest, Typed
  <2>2. /\ UNCHANGED <<fails, clock>> /\ pc'[Loop] = "sleep" /\ \A r \in rows' : r \in rows
    BY <1>0, <1>8 DEF MaybePrune, Pruned, Goto
  <2>3. AloneInv'
    BY <1>0, <2>1, <2>2 DEF AloneInv, CountLeads, ZeroCountServesFresh, ExistingIsLatest,
                            RowsInPast, BeforeExisting
  <2> QED BY <1>1, <2>1, <2>3
<1>9. ASSUME NEW p \in Providers, Configure(p) \/ PauseCodex(p) PROVE AloneInv' /\ UNCHANGED rows
  BY <1>0, <1>4, <1>9 DEF Configure, PauseCodex, dbVars
<1>10. CASE Tick \/ Stop \/ UNCHANGED vars
  <2>1. UNCHANGED <<rows, fails, pc, job>> /\ clock' \in Nat /\ clock' >= clock
    BY <1>0, <1>10 DEF Tick, Stop, vars, dbVars
  <2> QED BY <1>1, <1>4, <1>5, <2>1
<1>11. CASE Restart
  <2>1. UNCHANGED <<rows, fails, clock>> /\ pc'[Loop] = "top"
    BY <1>11 DEF Restart, Idle, dbVars, Threads
  <2> QED BY <1>0, <1>1, <1>4, <1>5, <2>1 DEF FetchSteps
<1> QED BY <1>1, <1>3, <1>5, <1>6, <1>7, <1>8, <1>9, <1>10, <1>11 DEF Next, LoopStep

\* As long as no request thread fetches: a zero counter means a fresh reading,
\* across crashes and failing database calls.
THEOREM ZeroCountIsFresh ==
  ASSUME RefreshThreads = {}
  PROVE  Spec => []ZeroCountServesFresh
<1>1. Spec => [](Typed /\ Table /\ FloorInv /\ AloneInv)
  <2>1. Init => Typed /\ Table /\ FloorInv /\ AloneInv
    BY InitTyped, InitTable, InitFloor, InitAlone
  <2>2. Typed /\ Table /\ FloorInv /\ AloneInv /\ [Next]_vars => (Typed /\ Table /\ FloorInv /\ AloneInv)'
    BY NextTyped, NewestSteps, FloorStep, AloneStep
  <2> QED BY <2>1, <2>2, PTL DEF Spec
<1>2. AloneInv => ZeroCountServesFresh
  BY DEF AloneInv, CountLeads
<1> QED BY <1>1, <1>2, PTL

\* As long as no request thread fetches: what is served never goes back in time.
THEOREM ServedNeverOlder ==
  ASSUME RefreshThreads = {}
  PROVE  Spec => NeverServeOlder
<1>1. Spec => [](Typed /\ Table /\ FloorInv /\ AloneInv)
  <2>1. Init => Typed /\ Table /\ FloorInv /\ AloneInv
    BY InitTyped, InitTable, InitFloor, InitAlone
  <2>2. Typed /\ Table /\ FloorInv /\ AloneInv /\ [Next]_vars => (Typed /\ Table /\ FloorInv /\ AloneInv)'
    BY NextTyped, NewestSteps, FloorStep, AloneStep
  <2> QED BY <2>1, <2>2, PTL DEF Spec
<1>2. Typed /\ Table /\ FloorInv /\ AloneInv /\ [Next]_vars =>
        [\A p \in Providers : \A r \in Latest(p), q \in Latest(p)' : r.at <= q.at]_vars
  BY AloneStep
<1> QED BY <1>1, <1>2, PTL DEF Spec, NeverServeOlder

-----------------------------------------------------------------------------
(* The loop alone: the schedule, the counter and the reading tell one story *)

\* The newest row of the provider being fetched is the success that is being
\* recorded.
ServesItsLast ==
  \A r \in Latest(job[Loop].provider) : r.status = "ok" /\ r.at = job[Loop].out.at

\* How far the records of the fetch under way agree with one another: a success
\* has stored its row and then its zero, a failure has its count in the database
\* and then in the schedule. The job of a finished fetch is gone.
JobTellsStory ==
  /\ pc[Loop] \notin FetchSteps => job[Loop].provider = NoProvider
  /\ pc[Loop] \in {"reset", "advance"} => ServesItsLast
  /\ pc[Loop] = "advance" => fails[job[Loop].provider] = 0
  /\ pc[Loop] \in {"backoff", "record"} => fails[job[Loop].provider] = job[Loop].failures
  /\ pc[Loop] = "record" => sched[job[Loop].provider].failures = job[Loop].failures

\* What StoriesAgree says of one provider.
Story(p) ==
  /\ sched[p].failures = fails[p]
  /\ \A r \in Latest(p) :
       /\ r.status = "ok" <=> fails[p] = 0
       /\ r.status = "ok" => r.at = sched[p].lastSuccess
       /\ fails[p] >= OfflineThreshold => r.status = "offline"

StoryInv ==
  /\ JobTellsStory
  /\ pc[Loop] # "dead" => \A p \in Providers : job[Loop].provider # p /\ Polled(p) => Story(p)

\* With the loop alone a provider is at rest when the loop works on another one.
LEMMA StoryInvSuffices ==
  ASSUME RefreshThreads = {}, StoryInv
  PROVE  StoriesAgree
<1>1. Threads = {Loop}
  BY DEF Threads
<1>2. ASSUME NEW p \in Providers, AtRest(p), Polled(p), pc[Loop] # "dead" PROVE Story(p)
  BY <1>1, <1>2 DEF StoryInv, AtRest
<1> QED BY <1>2 DEF StoriesAgree, Story

LEMMA InitStory == Init => StoryInv
  BY DEF Init, StoryInv, JobTellsStory, Polled, Idle, FetchSteps, NoJob, Threads

\* A provider whose records a step leaves alone keeps its story.
LEMMA StoryOfOther ==
  ASSUME NEW p \in Providers, Polled(p)' = Polled(p), sched'[p] = sched[p], fails'[p] = fails[p],
         Latest(p)' = Latest(p), Polled(p) => Story(p)
  PROVE  Polled(p)' => Story(p)'
  BY DEF Story

\* A step that writes neither the tables nor the schedules, and ends the loop's
\* thread or keeps its provider.
LEMMA StoryKept ==
  ASSUME StoryInv, JobTellsStory', UNCHANGED <<fails, known, sched>>, \A p : Latest(p)' = Latest(p),
         \/ pc'[Loop] = "dead"
         \/ pc[Loop] # "dead" /\ job'[Loop].provider = job[Loop].provider
  PROVE  StoryInv'
<1>1. \A p \in Providers : Polled(p)' = Polled(p) /\ (Story(p) => Story(p)')
  BY DEF Polled, Story
<1> QED BY <1>1 DEF StoryInv

\* The steps of the loop's fetch that write neither the tables nor the schedules.
LEMMA QuietFetchStory ==
  ASSUME Typed, StoryInv, UNCHANGED <<rows, fails, known, sched>>,
         \/ ReadPrevious(Loop) \/ FetchSucceeds(Loop) \/ FetchFails(Loop) \/ RefreshToken(Loop)
         \/ RetryFetch(Loop) \/ ReadExisting(Loop) \/ BackoffOverflows(Loop) \/ StoreCallFails(Loop)
  PROVE  StoryInv'
<1>0. /\ job \in [Threads -> Job] /\ pc \in [Threads -> FetchSteps \cup LoopSteps \cup {"idle"}]
      /\ Loop \in Threads
  BY DEF Typed, TypeOK, Threads
<1>1. \A p : Latest(p)' = Latest(p)
  BY DEF Latest, Newest
<1>2. ASSUME pc'[Loop] \in {"fetch", "refresh", "retry", "store", "existing", "increment"},
             pc[Loop] # "dead", job'[Loop].provider = job[Loop].provider
      PROVE  StoryInv'
  <2>1. JobTellsStory'
    BY <1>2 DEF JobTellsStory, FetchSteps
  <2> QED BY <1>1, <1>2, <2>1, StoryKept
<1>3. ASSUME Escape(Loop) PROVE StoryInv'
  <2>1. pc'[Loop] = "dead" /\ job'[Loop] = NoJob
    BY <1>0, <1>3 DEF Escape, Goto
  <2>2. JobTellsStory'
    BY <2>1 DEF JobTellsStory, FetchSteps, NoJob
  <2> QED BY <1>1, <2>1, <2>2, StoryKept
<1>4. CASE ReadPrevious(Loop) \/ ReadExisting(Loop) \/ RefreshToken(Loop)
  <2>1. /\ pc'[Loop] \in {"fetch", "retry", "existing", "increment"} /\ pc[Loop] # "dead"
        /\ job'[Loop].provider = job[Loop].provider
    BY <1>0, <1>4 DEF ReadPrevious, ReadExisting, RefreshToken, Goto, Job
  <2> QED BY <1>2, <2>1
<1>5. CASE FetchSucceeds(Loop)
  <2>1. pc'[Loop] = "store" /\ pc[Loop] # "dead" /\ job'[Loop].provider = job[Loop].provider
    BY <1>0, <1>5 DEF FetchSucceeds, Goto, Job
  <2> QED BY <1>2, <2>1
<1>6. CASE FetchFails(Loop)
  <2>1. PICK kind \in Failures, after \in RetryAfters :
          /\ job' = [job EXCEPT ![Loop].out = [kind |-> kind, usage |-> -1, at |-> 0, after |-> after],
                                ![Loop].handling = TRUE]
          /\ Goto(Loop, AfterFailure(job[Loop].provider, kind))
    BY <1>6 DEF FetchFails
  <2>2. job'[Loop].provider = job[Loop].provider
    BY <1>0, <2>1 DEF Job
  <2>3. pc'[Loop] \in {"refresh", "increment", "existing"} /\ pc[Loop] # "dead"
    BY <1>0, <1>6, <2>1 DEF FetchFails, AfterFailure, Goto
  <2> QED BY <1>2, <2>2, <2>3
<1>7. CASE RetryFetch(Loop)
  <2>1. CASE ~ Escape(Loop)
    <3>1. /\ pc'[Loop] \in {"store", "existing"} /\ pc[Loop] # "dead"
          /\ job'[Loop].provider = job[Loop].provider
      BY <1>0, <1>7, <2>1 DEF RetryFetch, Goto, Job
    <3> QED BY <1>2, <3>1
  <2> QED BY <1>3, <2>1
<1>8. CASE BackoffOverflows(Loop)
  BY <1>3, <1>8 DEF BackoffOverflows
<1>9. CASE StoreCallFails(Loop)
  <2>1. CASE ~ Escape(Loop)
    <3>1. /\ pc'[Loop] = "existing" /\ pc[Loop] # "dead"
          /\ job'[Loop].provider = job[Loop].provider
      BY <1>0, <1>9, <2>1 DEF StoreCallFails, Goto, Job
    <3> QED BY <1>2, <3>1
  <2> QED BY <1>3, <2>1
<1> QED BY <1>4, <1>5, <1>6, <1>7, <1>8, <1>9

\* The steps of its fetch that write a table or the schedule.
LEMMA RecordingStory ==
  ASSUME Typed, Table, AloneInv, StoryInv,
         \/ StoreReading(Loop) \/ ResetFailures(Loop) \/ IncrementFailures(Loop)
         \/ ScheduleAfterSuccess(Loop) \/ ScheduleAfterFailure(Loop) \/ RecordFailure(Loop)
  PROVE  StoryInv'
<1> USE DEF Goto
<1> DEFINE p == job[Loop].provider
<1>0. /\ job \in [Threads -> Job] /\ pc \in [Threads -> FetchSteps \cup LoopSteps \cup {"idle"}]
      /\ Loop \in Threads /\ fails \in [Providers -> Nat] /\ sched \in [Providers -> Schedule]
      /\ nextId \in Nat /\ OfflineThreshold \in Nat /\ OfflineThreshold > 0
  BY NumbersAssumption DEF Typed, TypeOK, Threads
<1>1. p \in Providers
  BY <1>0 DEF StoreReading, ResetFailures, IncrementFailures, ScheduleAfterSuccess,
              ScheduleAfterFailure, RecordFailure, Typed, Prepared, FetchSteps
<1>2. ASSUME UNCHANGED rows PROVE \A q : Latest(q)' = Latest(q)
  BY <1>2 DEF Latest, Newest
<1>3. pc[Loop] # "dead"
  BY DEF StoreReading, ResetFailures, IncrementFailures, ScheduleAfterSuccess,
         ScheduleAfterFailure, RecordFailure
<1>9. NoProvider \notin Providers
  BY SetsAssumption
\* While p is being fetched only the others have to keep their story.
<1>4. ASSUME NEW q \in Providers \ {p}, sched'[q] = sched[q], fails'[q] = fails[q],
             Latest(q)' = Latest(q), q \in known' <=> q \in known
      PROVE  Polled(q)' => Story(q)'
  <2>1. Polled(q)' = Polled(q)
    BY <1>4 DEF Polled
  <2>2. Polled(q) => Story(q)
    BY <1>3 DEF StoryInv
  <2> QED BY <1>4, <2>1, <2>2, StoryOfOther
<1>5. CASE StoreReading(Loop)
  <2> DEFINE new == [id |-> nextId, provider |-> p, status |-> "ok",
                     usage |-> job[Loop].out.usage, note |-> FALSE, at |-> job[Loop].out.at]
  <2>1. new \in Row /\ new.id = nextId /\ new.provider = p /\ new.status = "ok" /\ new.at = job[Loop].out.at
    BY <1>0, <1>1 DEF Row, Job, Outcome
  <2>2. rows' = rows \cup {new} /\ UNCHANGED <<fails, job, known, sched>> /\ pc'[Loop] = "reset"
    BY <1>0, <1>5 DEF StoreReading, Insert, memVars
  <2> HIDE DEF new
  <2>3. \A q : Latest(q)' = IF q = p THEN {new} ELSE Latest(q)
    BY <2>1, <2>2, InsertedIsNewest DEF Typed, Latest
  <2>4. JobTellsStory'
    BY <2>1, <2>2, <2>3 DEF JobTellsStory, ServesItsLast, FetchSteps
  <2>5. \A q \in Providers \ {p} : Polled(q)' => Story(q)'
    BY <1>4, <2>2, <2>3
  <2> QED BY <2>2, <2>4, <2>5 DEF StoryInv
<1>6. CASE ResetFailures(Loop)
  <2>1. /\ UNCHANGED <<rows, job, known, sched>> /\ pc[Loop] = "reset" /\ pc'[Loop] = "advance"
        /\ fails' = [fails EXCEPT ![p] = 0]
    BY <1>0, <1>6 DEF ResetFailures, memVars
  <2>2. \A q : Latest(q)' = Latest(q)
    BY <1>2, <2>1
  <2>3. fails'[p] = 0 /\ \A q \in Providers \ {p} : fails'[q] = fails[q]
    BY <1>0, <1>1, <2>1
  <2>4. JobTellsStory'
    BY <2>1, <2>2, <2>3 DEF StoryInv, JobTellsStory, ServesItsLast, FetchSteps
  <2>5. \A q \in Providers \ {p} : Polled(q)' => Story(q)'
    BY <1>4, <2>1, <2>2, <2>3
  <2> QED BY <2>1, <2>4, <2>5 DEF StoryInv
<1>7. CASE IncrementFailures(Loop)
  <2>1. /\ UNCHANGED <<rows, known, sched>> /\ pc'[Loop] = "backoff"
        /\ fails' = [fails EXCEPT ![p] = fails[p] + 1]
        /\ job'[Loop].provider = p /\ job'[Loop].failures = fails[p] + 1
    BY <1>0, <1>7 DEF IncrementFailures, Job, memVars
  <2>2. \A q : Latest(q)' = Latest(q)
    BY <1>2, <2>1
  <2>3. fails'[p] = fails[p] + 1 /\ \A q \in Providers \ {p} : fails'[q] = fails[q]
    BY <1>0, <1>1, <2>1
  <2>4. JobTellsStory'
    BY <2>1, <2>3 DEF JobTellsStory, FetchSteps
  <2>5. \A q \in Providers \ {p} : Polled(q)' => Story(q)'
    BY <1>4, <2>1, <2>2, <2>3
  <2> QED BY <2>1, <2>4, <2>5 DEF StoryInv
<1>8. CASE ScheduleAfterSuccess(Loop)
  <2> DEFINE interval == SuccessInterval(p, job[Loop].previous, job[Loop].out.usage)
             new == [interval |-> interval, nextDue |-> clock + interval,
                     lastSuccess |-> job[Loop].out.at, failures |-> 0]
  <2>1. new.lastSuccess = job[Loop].out.at /\ new.failures = 0
    OBVIOUS
  <2>2. /\ UNCHANGED <<rows, fails>> /\ known' = known \cup {p} /\ pc[Loop] = "advance"
        /\ sched' = [sched EXCEPT ![p] = new] /\ pc'[Loop] = "scan" /\ job'[Loop] = NoJob
    BY <1>0, <1>8 DEF ScheduleAfterSuccess, Return, dbVars
  <2> HIDE DEF new
  <2>3. sched'[p] = new /\ \A q \in Providers \ {p} : sched'[q] = sched[q]
    BY <1>0, <1>1, <2>2
  <2>4. \A q : Latest(q)' = Latest(q)
    BY <1>2, <2>2
  <2>5. JobTellsStory'
    BY <2>2 DEF JobTellsStory, FetchSteps, NoJob
  <2>6. fails[p] = 0 /\ \A r \in Latest(p) : r.status = "ok" /\ r.at = job[Loop].out.at
    BY <2>2 DEF StoryInv, JobTellsStory, ServesItsLast
  <2>7. ASSUME NEW q \in Providers, q = p PROVE Story(q)'
    BY <1>0, <2>1, <2>2, <2>3, <2>4, <2>6, <2>7 DEF Story
  <2>8. \A q \in Providers \ {p} : Polled(q)' => Story(q)'
    BY <1>4, <2>2, <2>3, <2>4
  <2> QED BY <2>5, <2>7, <2>8 DEF StoryInv
<1>10. CASE ScheduleAfterFailure(Loop)
  <2> DEFINE backoff == IF NeedsLogin(Loop) THEN Cap
                        ELSE FailureBackoff(job[Loop].failures, job[Loop].out)
             new == [interval |-> backoff, nextDue |-> clock + backoff,
                     lastSuccess |-> ScheduleOf(p).lastSuccess, failures |-> job[Loop].failures]
  <2>1. new.failures = job[Loop].failures
    OBVIOUS
  <2>2. /\ UNCHANGED <<rows, fails>> /\ known' = known \cup {p} /\ pc[Loop] = "backoff"
        /\ sched' = [sched EXCEPT ![p] = new] /\ pc'[Loop] = "record"
        /\ job'[Loop].provider = p /\ job'[Loop].failures = job[Loop].failures
    BY <1>0, <1>10 DEF ScheduleAfterFailure, Job, dbVars
  <2> HIDE DEF new
  <2>3. sched'[p] = new /\ \A q \in Providers \ {p} : sched'[q] = sched[q]
    BY <1>0, <1>1, <2>2
  <2>4. \A q : Latest(q)' = Latest(q)
    BY <1>2, <2>2
  <2>5. JobTellsStory'
    BY <2>1, <2>2, <2>3 DEF StoryInv, JobTellsStory, FetchSteps
  <2>6. \A q \in Providers \ {p} : Polled(q)' => Story(q)'
    BY <1>4, <2>2, <2>3, <2>4
  <2> QED BY <2>2, <2>5, <2>6 DEF StoryInv
<1>11. CASE RecordFailure(Loop)
  <2>1. PICK new \in FailureRow(Loop) : Insert(new)
    BY <1>11 DEF RecordFailure
  <2>2. new \in Row /\ new.id = nextId
    BY <1>0, <1>1, FailureRowTyped DEF Typed
  <2>3. /\ rows' = rows \cup {new} /\ UNCHANGED <<fails, known, sched>>
        /\ pc[Loop] = "record" /\ pc'[Loop] = "scan" /\ job'[Loop] = NoJob
    BY <1>0, <1>11, <2>1 DEF RecordFailure, Return, Insert, memVars
  <2>4. fails[p] > 0 /\ fails[p] = job[Loop].failures /\ sched[p].failures = job[Loop].failures
    BY <2>3 DEF StoryInv, JobTellsStory, AloneInv, CountLeads
  <2>5. /\ new.provider = p /\ new.status # "ok"
        /\ fails[p] >= OfflineThreshold => new.status = "offline"
    <3> DEFINE offline == [id |-> nextId, provider |-> p, status |-> "offline", usage |-> -1,
                           note |-> NeedsLogin(Loop), at |-> job[Loop].out.at]
               stale(r) == [r EXCEPT !.id = nextId, !.status = "stale",
                                     !.note = @ /\ r.status # "offline"]
    <3>1. /\ FailureRow(Loop) = {offline} \/ FailureRow(Loop) = {stale(r) : r \in job[Loop].existing}
          /\ job[Loop].failures >= OfflineThreshold => FailureRow(Loop) = {offline}
      BY DEF FailureRow
    <3>2. offline.provider = p /\ offline.status = "offline"
      OBVIOUS
    <3>3. ASSUME NEW r \in job[Loop].existing PROVE stale(r).provider = p /\ stale(r).status = "stale"
      <4>1. r \in rows /\ r.provider = p
        BY <2>3 DEF AloneInv, ExistingIsLatest, Latest, Newest
      <4>2. r \in Row
        BY <4>1 DEF Typed, TypeOK
      <4> QED BY <4>1, <4>2 DEF Row
    <3> HIDE DEF offline, stale
    <3> QED BY <2>1, <2>4, <3>1, <3>2, <3>3
  <2>6. \A q : Latest(q)' = IF q = p THEN {new} ELSE Latest(q)
    BY <2>2, <2>3, <2>5, InsertedIsNewest DEF Typed, Latest
  <2>7. JobTellsStory'
    BY <2>3 DEF JobTellsStory, FetchSteps, NoJob
  <2>8. ASSUME NEW q \in Providers, q = p PROVE Story(q)'
    BY <1>0, <1>1, <2>3, <2>4, <2>5, <2>6, <2>8 DEF Story
  <2>9. \A q \in Providers \ {p} : Polled(q)' => Story(q)'
    BY <1>4, <2>3, <2>6
  <2> QED BY <2>7, <2>8, <2>9 DEF StoryInv
<1> QED BY <1>5, <1>6, <1>7, <1>8, <1>10, <1>11

\* With no request thread, every step keeps the story of every provider.
LEMMA StoryStep ==
  ASSUME RefreshThreads = {}, Typed, Table, AloneInv, StoryInv, [Next]_vars
  PROVE  StoryInv'
<1> USE DEF Goto
<1>0. /\ job \in [Threads -> Job] /\ pc \in [Threads -> FetchSteps \cup LoopSteps \cup {"idle"}]
      /\ Loop \in Threads /\ sched \in [Providers -> Schedule] /\ NoProvider \notin Providers
  BY SetsAssumption DEF Typed, TypeOK, Threads
<1>1. ASSUME UNCHANGED rows PROVE \A p : Latest(p)' = Latest(p)
  BY <1>1 DEF Latest, Newest
\* A step of the loop outside a fetch, or of somebody else.
<1>2. ASSUME UNCHANGED <<fails, known, sched>>, \A p : Latest(p)' = Latest(p), job' = job,
             \/ pc[Loop] \in LoopSteps \ {"dead"} /\ pc'[Loop] \in LoopSteps \ {"dead"}
             \/ pc' = pc
      PROVE  StoryInv'
  <2>1. JobTellsStory'
    BY <1>0, <1>2 DEF StoryInv, JobTellsStory, ServesItsLast, FetchSteps, LoopSteps
  <2>2. pc'[Loop] = "dead" \/ pc[Loop] # "dead"
    BY <1>2
  <2> QED BY <1>2, <2>1, <2>2, StoryKept
<1>3. CASE FetchStep(Loop)
  <2>1. CASE \/ StoreReading(Loop) \/ ResetFailures(Loop) \/ IncrementFailures(Loop)
             \/ ScheduleAfterSuccess(Loop) \/ ScheduleAfterFailure(Loop) \/ RecordFailure(Loop)
    BY <2>1, RecordingStory
  <2>2. CASE \/ ReadPrevious(Loop) \/ FetchSucceeds(Loop) \/ FetchFails(Loop) \/ RefreshToken(Loop)
             \/ RetryFetch(Loop) \/ ReadExisting(Loop) \/ BackoffOverflows(Loop) \/ StoreCallFails(Loop)
    <3>1. UNCHANGED <<rows, fails, known, sched>>
      BY <2>2 DEF ReadPrevious, FetchSucceeds, FetchFails, RefreshToken, RetryFetch,
                  ReadExisting, BackoffOverflows, StoreCallFails, dbVars, memVars
    <3> QED BY <2>2, <3>1, QuietFetchStory
  <2> QED BY <1>3, <2>1, <2>2 DEF FetchStep
<1>4. ASSUME NEW p \in Providers, LoopScan(p) PROVE StoryInv'
  <2>1. UNCHANGED <<rows, fails>> /\ pc[Loop] = "scan" /\ \A q : Latest(q)' = Latest(q)
    BY <1>1, <1>4 DEF LoopScan, dbVars
  <2>2. job[Loop].provider = NoProvider /\ \A q \in Providers : Polled(q) => Story(q)
    BY <1>0, <2>1 DEF StoryInv, JobTellsStory, FetchSteps
  <2>3. CASE Goto(Loop, "exited") /\ UNCHANGED <<known, sched, job>>
    <3>1. pc'[Loop] = "exited"
      BY <1>0, <2>3
    <3> QED BY <1>2, <2>1, <2>3, <3>1 DEF LoopSteps
  <2>4. CASE /\ known' = known \cup {p} /\ sched' = [sched EXCEPT ![p] = ScheduleOf(p)]
             /\ Begin(Loop, p) \/ UNCHANGED <<pc, job>>
    \* A schedule made on first sight is not that of a polled provider.
    <3>1. ASSUME NEW q \in Providers PROVE Polled(q)' => Story(q)'
      <4>1. CASE q = p /\ p \notin known
        <5>1. sched'[q].failures = 0 /\ sched'[q].lastSuccess = Never
          BY <1>0, <2>4, <4>1 DEF ScheduleOf, DueNow
        <5> QED BY <5>1 DEF Polled
      <4>2. CASE q # p \/ p \in known
        <5>1. sched'[q] = sched[q] /\ (q \in known' <=> q \in known)
          BY <1>0, <2>4, <4>2 DEF ScheduleOf
        <5>2. Polled(q)' = Polled(q)
          BY <5>1 DEF Polled
        <5> QED BY <2>1, <2>2, <5>1, <5>2, StoryOfOther
      <4> QED BY <4>1, <4>2
    <3>2. JobTellsStory'
      <4>1. CASE Begin(Loop, p)
        <5>1. pc'[Loop] = "previous"
          BY <1>0, <4>1 DEF Begin
        <5> QED BY <5>1 DEF JobTellsStory, FetchSteps
      <4>2. CASE UNCHANGED <<pc, job>>
        BY <2>1, <2>2, <4>2 DEF JobTellsStory, FetchSteps
      <4> QED BY <2>4, <4>1, <4>2
    <3> QED BY <3>1, <3>2 DEF StoryInv
  <2> QED BY <1>4, <2>3, <2>4 DEF LoopScan
<1>5. CASE LoopTop \/ LoopScanned \/ LoopSleep \/ LoopWake
  <2>1. /\ UNCHANGED <<rows, fails, known, sched>> /\ job' = job
        /\ pc[Loop] \in LoopSteps \ {"dead"} /\ pc'[Loop] \in LoopSteps \ {"dead"}
    BY <1>0, <1>5 DEF LoopTop, LoopScanned, LoopSleep, LoopWake, LoopSteps, dbVars, memVars
  <2> QED BY <1>1, <1>2, <2>1
<1>6. CASE MaybePrune
  <2>1. \A p : Latest(p)' = Latest(p)
    BY <1>6, PruneKeepsNewest DEF MaybePrune, Latest, Typed
  <2>2. /\ UNCHANGED <<fails, known, sched>> /\ job' = job
        /\ pc[Loop] \in LoopSteps \ {"dead"} /\ pc'[Loop] \in LoopSteps \ {"dead"}
    BY <1>0, <1>6 DEF MaybePrune, LoopSteps
  <2> QED BY <1>2, <2>1, <2>2
<1>7. CASE (\E p \in Providers : Configure(p) \/ PauseCodex(p)) \/ Tick \/ Stop \/ UNCHANGED vars
  <2>1. UNCHANGED <<rows, fails, known, sched>> /\ job' = job /\ pc' = pc
    BY <1>7 DEF Configure, PauseCodex, Tick, Stop, vars, dbVars, memVars
  <2> QED BY <1>1, <1>2, <2>1
<1>8. CASE Restart
  <2>1. known' = {} /\ pc'[Loop] = "top" /\ job'[Loop] = NoJob
    BY <1>0, <1>8 DEF Restart, Idle
  <2> QED BY <2>1 DEF StoryInv, JobTellsStory, Polled, FetchSteps, NoJob
<1> QED BY <1>3, <1>4, <1>5, <1>6, <1>7, <1>8 DEF Next, LoopStep

\* As long as no request thread fetches: once this process has finished a fetch
\* of a provider, its schedule, its persisted counter and the reading it serves
\* agree, whatever database calls failed on the way.
THEOREM StoriesAlwaysAgree ==
  ASSUME RefreshThreads = {}
  PROVE  Spec => []StoriesAgree
<1>1. Spec => [](Typed /\ Table /\ FloorInv /\ AloneInv /\ StoryInv)
  <2>1. Init => Typed /\ Table /\ FloorInv /\ AloneInv /\ StoryInv
    BY InitTyped, InitTable, InitFloor, InitAlone, InitStory
  <2>2. Typed /\ Table /\ FloorInv /\ AloneInv /\ StoryInv /\ [Next]_vars
          => (Typed /\ Table /\ FloorInv /\ AloneInv /\ StoryInv)'
    BY NextTyped, NewestSteps, FloorStep, AloneStep, StoryStep
  <2> QED BY <2>1, <2>2, PTL DEF Spec
<1>2. StoryInv => StoriesAgree
  BY StoryInvSuffices
<1> QED BY <1>1, <1>2, PTL

=============================================================================

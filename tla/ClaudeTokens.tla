----------------------------- MODULE ClaudeTokens -----------------------------
(***************************************************************************)
(* The tokens of one Claude account: the pair in the credential store, the *)
(* pair the scheduler holds in memory, and the one the OAuth server still  *)
(* accepts. A fetch that is rejected rotates the pair (server/scheduler.py)*)
(* while enrolments save a new one (cli.py), reloads and start-ups read    *)
(* the store and install what they read (server/main.py).                  *)
(*                                                                         *)
(* The store is the atomic map that TokenStore implements; only the entry  *)
(* of this account matters here. A pair is known by its family, the login  *)
(* it descends from, and by the number of rotations since.                 *)
(***************************************************************************)
EXTENDS Naturals

CONSTANTS
  Fetchers,     \* the threads that fetch: the loop and those of fetch_now
  Enrolments,   \* runs of `usage-dashboard login claude`
  Reloaders,    \* the threads that reload after an enrolment of another provider
  Main,         \* the start-up of the server
  Seed,         \* the family of the environment's pair
  MaxRotations, \* bound: rotations of a family
  MaxRestarts,  \* bound: restarts of the server
  MayFail       \* may calls fail: the answer to a rotation lost, a store call that raises?

Families == Enrolments \cup {Seed}
Pairs == [family : Families, turn : 0..MaxRotations]
NoPair == [family |-> Seed, turn |-> MaxRotations + 1]
PairOrNone == Pairs \cup {NoPair}
First(f) == [family |-> f, turn |-> 0]
Procs == Fetchers \cup Enrolments \cup Reloaders \cup {Main}

ASSUME NamesAssumption ==
  /\ Fetchers \cap (Enrolments \cup Reloaders \cup {Main}) = {}
  /\ Enrolments \cap (Reloaders \cup {Main}) = {} /\ Main \notin Reloaders
  /\ Seed \notin Enrolments
  /\ MayFail \in BOOLEAN
  /\ MaxRotations \in Nat /\ MaxRestarts \in Nat

VARIABLES
  stored,     \* the account's entry in the token store
  access,     \* _claude_token
  refresh,    \* _claude_refresh_token
  newest,     \* the turn of each family the OAuth server accepts
  pc,
  held,       \* the pair a thread has in its locals
  seeded,     \* does the environment hold a pair?
  restarts,
  lost,       \* history: families whose newest pair nobody got hold of
  pending,    \* history: enrolments saved and not yet installed
  disturbed   \* history: since the start of the server two changes have overlapped

memory == <<access, refresh>>
world == <<newest, lost>>
server == <<seeded, restarts>>
vars == <<stored, memory, world, pc, held, server, pending, disturbed>>

Goto(t, step) == pc' = [pc EXCEPT ![t] = step]
Hold(t, pair) == held' = [held EXCEPT ![t] = pair]
\* A call returns: its locals are gone.
Return(t, step) == Goto(t, step) /\ Hold(t, NoPair)

-----------------------------------------------------------------------------
(* A refresh in a fetch: _try_refresh_claude and _do_refresh *)

\* The usage endpoint rejects the access token.
FetchRejected(t) ==
  /\ pc[t] = "idle" /\ pc[Main] = "running"
  /\ access # NoPair
  /\ Goto(t, "rejected")
  /\ UNCHANGED <<stored, memory, world, held, server, pending>>

ReadRefreshToken(t) ==
  /\ pc[t] = "rejected"
  /\ IF refresh = NoPair
     THEN Return(t, "idle")
     ELSE Hold(t, refresh) /\ Goto(t, "request")
  /\ UNCHANGED <<stored, memory, world, server, pending>>

\* The OAuth server takes the newest token of a family, and only once.
Rotate(t) ==
  LET f == held[t].family
      next == [family |-> f, turn |-> newest[f] + 1]
  IN  /\ pc[t] = "request"
      /\ held[t].turn = newest[f] /\ newest[f] < MaxRotations
      /\ newest' = [newest EXCEPT ![f] = @ + 1]
      /\ \/ Hold(t, next) /\ Goto(t, "save") /\ UNCHANGED lost
         \/ MayFail /\ lost' = lost \cup {f} /\ Return(t, "idle")
      /\ UNCHANGED <<stored, memory, server, pending>>

\* A spent token, or a request that fails: the fetch is recorded as failed.
RefreshFails(t) ==
  /\ pc[t] = "request"
  /\ Return(t, "idle")
  /\ UNCHANGED <<stored, memory, world, server, pending>>

\* A slip of SaveRotated: the new pair is used but not saved.
ForgetSave(t) ==
  /\ pc[t] = "save"
  /\ Goto(t, "set access")
  /\ UNCHANGED <<stored, memory, world, held, server, pending>>

SaveRotated(t) ==
  /\ pc[t] = "save"
  /\ stored' = held[t]
  /\ Goto(t, "set access")
  /\ UNCHANGED <<memory, world, held, server, pending>>

\* The save raises, before or after its rename, and the exception leaves the
\* fetch: nothing is assigned. (What it does to the loop is in Scheduler.)
SaveRotatedFails(t) ==
  /\ pc[t] = "save" /\ MayFail
  /\ \/ stored' = held[t] /\ UNCHANGED lost
     \/ lost' = lost \cup {held[t].family} /\ UNCHANGED stored
  /\ Return(t, "idle")
  /\ UNCHANGED <<memory, newest, server, pending>>

\* The two assignments, without _update_lock.
AssignAccess(t) ==
  /\ pc[t] = "set access"
  /\ access' = held[t]
  /\ Goto(t, "set refresh")
  /\ UNCHANGED <<stored, refresh, world, held, server, pending>>

AssignRefresh(t) ==
  /\ pc[t] = "set refresh"
  /\ refresh' = held[t]
  /\ Return(t, "idle")
  /\ UNCHANGED <<stored, access, world, server, pending>>

-----------------------------------------------------------------------------
(* An enrolment: login_claude *)

\* The official login and its check are done, the pair is read from its
\* temporary directory.
SignIn(e) ==
  /\ pc[e] = "not begun"
  /\ Hold(e, First(e))
  /\ Goto(e, "verified")
  /\ UNCHANGED <<stored, memory, world, server, pending>>

SaveEnrolled(e) ==
  /\ pc[e] = "verified"
  /\ stored' = held[e]
  /\ pending' = pending \cup {e}
  /\ Return(e, "saved")
  /\ UNCHANGED <<memory, world, server>>

-----------------------------------------------------------------------------
(* Start-up and reload: _resolve_claude_tokens, update_credentials *)

\* Main at the start, a reload after this enrolment, when it ran in the login
\* pane, or after one of another provider.
Resolving(x) ==
  \/ x = Main /\ pc[Main] = "start"
  \/ x \in Enrolments /\ pc[x] = "saved" /\ pc[Main] = "running"
  \/ x \in Reloaders /\ pc[x] = "idle" /\ pc[Main] = "running"

\* A slip of Resolve: the environment wins over the store.
ResolveSeedFirst(x) ==
  /\ Resolving(x)
  /\ Hold(x, IF seeded THEN First(Seed) ELSE stored)
  /\ Goto(x, IF seeded THEN "seed" ELSE "install access")
  /\ UNCHANGED <<stored, memory, world, server, pending>>

\* The stored pair if there is one, else the environment's.
Resolve(x) ==
  /\ Resolving(x)
  /\ Hold(x, IF stored = NoPair /\ seeded THEN First(Seed) ELSE stored)
  /\ Goto(x, IF stored = NoPair /\ seeded THEN "seed" ELSE "install access")
  /\ UNCHANGED <<stored, memory, world, server, pending>>

SaveSeed(x) ==
  /\ pc[x] = "seed"
  /\ stored' = held[x]
  /\ Goto(x, "install access")
  /\ UNCHANGED <<memory, world, held, server, pending>>

\* update_credentials; _update_lock keeps two of them apart.
InstallAccess(x) ==
  /\ pc[x] = "install access"
  /\ \A y \in Procs : pc[y] # "install refresh"
  /\ access' = held[x]
  /\ Goto(x, "install refresh")
  /\ UNCHANGED <<stored, refresh, world, held, server, pending>>

\* A slip of Installed: an enrolment ends its reload as if it could reload again.
InstalledAgain(x) == IF x = Main THEN "running" ELSE "idle"

\* Where a start-up or a reload ends.
Installed(x) == IF x = Main THEN "running" ELSE IF x \in Enrolments THEN "done" ELSE "idle"

\* A reload that cannot read the store is logged and given up. At the start-up
\* the server exits, which Restart covers.
ReloadFails(x) ==
  /\ MayFail /\ x # Main
  /\ Resolving(x)
  /\ Return(x, Installed(x))
  /\ UNCHANGED <<stored, memory, world, server, pending>>

\* A slip of InstallRefresh: only the access token is handed over.
ForgetRefresh(x) ==
  /\ pc[x] = "install refresh"
  /\ Return(x, Installed(x))
  /\ pending' = pending \ {x}
  /\ UNCHANGED <<stored, memory, world, server>>

InstallRefresh(x) ==
  /\ pc[x] = "install refresh"
  /\ refresh' = held[x]
  /\ Return(x, Installed(x))
  /\ pending' = pending \ {x}
  /\ UNCHANGED <<stored, access, world, server>>

AtFirst(t) == IF t = Main THEN "start" ELSE IF t \in Enrolments THEN "not begun" ELSE "idle"

\* The pod is killed or rolled: every process ends, enrolments among them, and
\* Main starts again, with a Secret that may have been edited. What was rotated
\* and not saved is lost.
Restart ==
  /\ restarts < MaxRestarts /\ restarts' = restarts + 1
  /\ seeded' \in BOOLEAN
  /\ pc' = [t \in Procs |-> IF t \in Enrolments /\ pc[t] # "not begun" THEN "done" ELSE AtFirst(t)]
  /\ lost' = lost \cup {held[t].family : t \in {u \in Fetchers : pc[u] = "save"}}
  /\ held' = [t \in Procs |-> NoPair]
  /\ access' = NoPair /\ refresh' = NoPair
  /\ pending' = {}
  /\ UNCHANGED <<stored, newest>>

-----------------------------------------------------------------------------

\* The changes that are under way: a refresh that has read its token, and a
\* saved enrolment, a start-up or a reload that has not installed its pair.
Refreshing(t) == pc[t] \in {"request", "save", "set access", "set refresh"}
Installing(x) == pc[x] \in {"seed", "install access", "install refresh"}
HandingOver == {x \in Procs : x \in pending \/ Installing(x)}
Overlap == \E x \in HandingOver : HandingOver # {x} \/ \E t \in Fetchers : Refreshing(t)

Init ==
  /\ stored = NoPair
  /\ access = NoPair /\ refresh = NoPair
  /\ newest = [f \in Families |-> 0]
  /\ pc = [t \in Procs |-> AtFirst(t)]
  /\ held = [t \in Procs |-> NoPair]
  /\ seeded \in BOOLEAN
  /\ restarts = 0 /\ lost = {} /\ pending = {} /\ disturbed = FALSE

FetchStep(t) ==
  \/ FetchRejected(t) \/ ReadRefreshToken(t) \/ Rotate(t) \/ RefreshFails(t)
  \/ SaveRotated(t) \/ SaveRotatedFails(t) \/ AssignAccess(t) \/ AssignRefresh(t)

InstallStep(x) ==
  Resolve(x) \/ SaveSeed(x) \/ ReloadFails(x) \/ InstallAccess(x) \/ InstallRefresh(x)

Step ==
  \/ \E t \in Fetchers : FetchStep(t)
  \/ \E e \in Enrolments : SignIn(e) \/ SaveEnrolled(e)
  \/ \E x \in Procs \ Fetchers : InstallStep(x)

\* A save that raises after its rename also parts memory from the store.
Half == \E t \in Fetchers : pc[t] = "save" /\ pc'[t] = "idle" /\ stored' = held[t]

Next ==
  \/ Step /\ disturbed' = (disturbed \/ Overlap' \/ Half)
  \/ Restart /\ disturbed' = FALSE

Spec == Init /\ [][Next]_vars

-----------------------------------------------------------------------------
(* Properties *)

FetchSteps == {"idle", "rejected", "request", "save", "set access", "set refresh"}
EnrolSteps == {"not begun", "verified", "saved", "done"}
ResolveSteps == {"seed", "install access", "install refresh"}

\* Types of the tokens in the store, in memory and in the threads' locals; each
\* thread is at a step of its own call.
TypeOK ==
  /\ {stored, access, refresh} \subseteq PairOrNone
  /\ newest \in [Families -> 0..MaxRotations]
  /\ pc \in [Procs -> FetchSteps \cup EnrolSteps \cup {"start", "running"} \cup ResolveSteps]
  /\ \A t \in Fetchers : pc[t] \in FetchSteps
  /\ \A e \in Enrolments : pc[e] \in EnrolSteps \cup ResolveSteps
  /\ \A r \in Reloaders : pc[r] \in {"idle"} \cup ResolveSteps
  /\ pc[Main] \in {"start", "running"} \cup ResolveSteps
  /\ held \in [Procs -> PairOrNone]
  /\ seeded \in BOOLEAN /\ restarts \in 0..MaxRestarts
  /\ lost \subseteq Families /\ pending \subseteq Enrolments /\ disturbed \in BOOLEAN

\* However fetches, enrolments and reloads interleave, the stored pair is the
\* newest of its family, unless that one is being saved or was lost on its way:
\* a restart can go on with what is stored.
StoreIsNewest ==
  stored # NoPair =>
    \/ stored.turn = newest[stored.family]
    \/ stored.family \in lost
    \/ \E t \in Fetchers : pc[t] = "save" /\ held[t] = [stored EXCEPT !.turn = newest[stored.family]]

\* As long as no two changes overlap: when none is under way, the scheduler works
\* with the stored pair, both halves of it.
MemoryFollowsStore ==
  ~ disturbed /\ HandingOver = {} /\ pc[Main] = "running" /\ (\A t \in Fetchers : ~ Refreshing(t))
    => access = stored /\ refresh = stored

\* As long as no two changes overlap: only an enrolment replaces a credential.
EnrolmentStands ==
  [][~ disturbed' /\ stored # NoPair /\ stored'.family # stored.family
       => \E e \in Enrolments : SaveEnrolled(e)]_vars
=============================================================================

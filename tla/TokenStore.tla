------------------------------ MODULE TokenStore ------------------------------
(***************************************************************************)
(* The credential store (server/token_store.py): one JSON file, read and   *)
(* rewritten by the threads of the server and by the processes of the      *)
(* enrolment CLI. Each call takes the lock of its process, then the file   *)
(* lock on a sidecar, reads the file afresh and, when it saves, replaces   *)
(* it by a temporary file of its own. A call that cannot have the file     *)
(* lock goes on without it. Processes die and the power fails in between.  *)
(*                                                                         *)
(* _data, which every call reloads before it looks, is not modelled.       *)
(***************************************************************************)
EXTENDS Naturals

CONSTANTS
  Keys,        \* what one kind of save sets: a token pair, a credential, a seed
               \* marker, a field of the metadata
  Values,
  Absent,      \* no such entry
  Corrupt,     \* content that is not a JSON object
  Changes,     \* the saves: new values, or Absent, for some of the keys
  Processes,   \* the server and the CLIs
  Threads,
  ProcessOf,   \* the process of a thread
  Nobody,
  MaxCrashes   \* bound: processes killed, power failures

Stores == [Keys -> Values \cup {Absent}]
Empty == [k \in Keys |-> Absent]
Contents == Stores \cup {Corrupt}
\* A read is a call that changes nothing.
Get == [k \in {} |-> Absent]
Calls == Changes \cup {Get}

ASSUME NamesAssumption ==
  /\ \A change \in Changes : \E keys \in (SUBSET Keys) \ {{}} : change \in [keys -> Values \cup {Absent}]
  /\ Corrupt \notin Stores
  /\ ProcessOf \in [Threads -> Processes]
  /\ Nobody \notin Threads
  /\ MaxCrashes \in Nat

VARIABLES
  file,     \* the token file; a missing one reads as Empty
  onDisk,   \* the contents one of which a power failure leaves
  temp,     \* the temporary file of each process; none, or half of one, is Corrupt
  mutex,    \* _thread_lock of each process
  locks,    \* the file lock a thread holds: "none", "shared" or "exclusive"
  pc,
  call,     \* the call of a thread
  data,     \* `data` of its _mutate
  ordered,  \* history: no call has gone on without the file lock
  mayHold,  \* history: the values each key may have, by the saves acknowledged and begun
  crashes

vars == <<file, onDisk, temp, mutex, locks, pc, call, data, ordered, mayHold, crashes>>
locking == <<mutex, locks, ordered>>

Goto(t, step) == pc' = [pc EXCEPT ![t] = step]
Working == {"mutex", "flock", "read", "open", "dump", "replace", "dirsync"}

\* The temporary file has the process id in its name.
TempOf(t) == ProcessOf[t]

-----------------------------------------------------------------------------
(* A call begins and returns *)

\* The keys of what a thread saves, while it does.
Saving(t, k) == pc[t] \in Working /\ k \in DOMAIN call[t]

Begin(t) ==
  /\ pc[t] = "idle"
  /\ \E c \in Calls :
       /\ call' = [call EXCEPT ![t] = c]
       /\ mayHold' = [k \in Keys |-> IF k \in DOMAIN c THEN mayHold[k] \cup {c[k]} ELSE mayHold[k]]
  /\ Goto(t, "mutex")
  /\ UNCHANGED <<file, onDisk, temp, locking, data, crashes>>

\* The two `with` are left, whether by a return or by an exception.
Leave(t) ==
  /\ mutex' = [mutex EXCEPT ![ProcessOf[t]] = Nobody]
  /\ locks' = [locks EXCEPT ![t] = "none"]
  /\ call' = [call EXCEPT ![t] = Get]
  /\ data' = [data EXCEPT ![t] = Empty]
  /\ Goto(t, "idle")

-----------------------------------------------------------------------------
(* _flock *)

TakeMutex(t) ==
  /\ pc[t] = "mutex"
  /\ mutex[ProcessOf[t]] = Nobody
  /\ mutex' = [mutex EXCEPT ![ProcessOf[t]] = t]
  /\ Goto(t, "flock")
  /\ UNCHANGED <<file, onDisk, temp, locks, call, data, ordered, mayHold, crashes>>

\* A slip of Mode: every call asks for a shared lock.
AlwaysShared(t) == "shared"
Mode(t) == IF call[t] = Get THEN "shared" ELSE "exclusive"

TakeFlock(t) ==
  /\ pc[t] = "flock"
  /\ \A u \in Threads : locks[u] = "none" \/ (locks[u] = "shared" /\ Mode(t) = "shared")
  /\ locks' = [locks EXCEPT ![t] = Mode(t)]
  /\ Goto(t, "read")
  /\ UNCHANGED <<file, onDisk, temp, mutex, call, data, ordered, mayHold, crashes>>

\* The lock file cannot be opened: "degrade to the in-process lock alone".
GoUnlocked(t) ==
  /\ pc[t] = "flock"
  /\ ordered' = FALSE
  /\ Goto(t, "read")
  /\ UNCHANGED <<file, onDisk, temp, mutex, locks, call, data, mayHold, crashes>>

-----------------------------------------------------------------------------
(* _read and _write *)

\* `apply(data)`: the saved keys get their values, a None removes the key.
\* A slip of Applied: what the save does not name is dropped.
OnlyTheChange(change, base) == change
Applied(change, base) == [k \in Keys |-> IF k \in DOMAIN change THEN change[k] ELSE base[k]]

\* A slip of Read: unreadable JSON is an empty store.
ReadSwallowing(t) ==
  /\ pc[t] = "read"
  /\ IF call[t] = Get
     THEN Leave(t)
     ELSE /\ data' = [data EXCEPT ![t] = Applied(call[t], IF file = Corrupt THEN Empty ELSE file)]
          /\ Goto(t, "open")
          /\ UNCHANGED <<mutex, locks, call>>
  /\ UNCHANGED <<file, onDisk, temp, ordered, mayHold, crashes>>

\* Corrupt content raises. A read returns here; a save applies its change.
Read(t) ==
  /\ pc[t] = "read"
  /\ IF file = Corrupt \/ call[t] = Get
     THEN Leave(t)
     ELSE /\ data' = [data EXCEPT ![t] = Applied(call[t], file)]
          /\ Goto(t, "open")
          /\ UNCHANGED <<mutex, locks, call>>
  /\ UNCHANGED <<file, onDisk, temp, ordered, mayHold, crashes>>

WriteTemp(t, content) == temp' = [temp EXCEPT ![TempOf(t)] = content]

\* os.open with O_TRUNC.
OpenTemp(t) ==
  /\ pc[t] = "open"
  /\ WriteTemp(t, Corrupt)
  /\ Goto(t, "dump")
  /\ UNCHANGED <<file, onDisk, locking, call, data, mayHold, crashes>>

\* json.dump, flush and fsync: from here the content survives a power failure.
DumpTemp(t) ==
  /\ pc[t] = "dump"
  /\ WriteTemp(t, data[t])
  /\ Goto(t, "replace")
  /\ UNCHANGED <<file, onDisk, locking, call, data, mayHold, crashes>>

\* The rename may or may not be on the disk yet.
Replace(t) ==
  /\ pc[t] = "replace"
  /\ file' = temp[TempOf(t)] /\ onDisk' = onDisk \cup {file'}
  /\ WriteTemp(t, Corrupt)
  /\ Goto(t, "dirsync")
  /\ UNCHANGED <<locking, call, data, mayHold, crashes>>

\* What the key may hold once t's save of it is acknowledged: that, or what
\* another save of it, under way, will put there.
Acknowledged(t) ==
  [k \in Keys |->
     IF k \in DOMAIN call[t]
     THEN {call[t][k]} \cup {call[u][k] : u \in {v \in Threads \ {t} : Saving(v, k)}}
     ELSE mayHold[k]]

\* A slip of SyncDirectory: the directory is not synced.
SkipSyncDirectory(t) ==
  /\ pc[t] = "dirsync"
  /\ mayHold' = Acknowledged(t)
  /\ Leave(t)
  /\ UNCHANGED <<file, onDisk, temp, ordered, crashes>>

\* fsync of the directory; the save returns.
SyncDirectory(t) ==
  /\ pc[t] = "dirsync"
  /\ onDisk' = {file}
  /\ mayHold' = Acknowledged(t)
  /\ Leave(t)
  /\ UNCHANGED <<file, temp, ordered, crashes>>

\* An OSError, at any step: the caller gets an exception, even when the file has
\* been replaced. What _write removes of its temporary file it would overwrite.
CallFails(t) ==
  /\ pc[t] \in Working \ {"mutex"}
  /\ Leave(t)
  /\ temp' = IF pc[t] \in {"flock", "read"} THEN temp ELSE [temp EXCEPT ![TempOf(t)] = Corrupt]
  /\ UNCHANGED <<file, onDisk, ordered, mayHold, crashes>>

-----------------------------------------------------------------------------
(* Crashes, and the operator *)

\* A process is killed: its locks are given up, its files stay.
Kill(p) ==
  LET dead == {t \in Threads : ProcessOf[t] = p}
  IN  /\ crashes < MaxCrashes /\ crashes' = crashes + 1
      /\ mutex' = [mutex EXCEPT ![p] = Nobody]
      /\ locks' = [t \in Threads |-> IF t \in dead THEN "none" ELSE locks[t]]
      /\ pc' = [t \in Threads |-> IF t \in dead THEN "idle" ELSE pc[t]]
      /\ call' = [t \in Threads |-> IF t \in dead THEN Get ELSE call[t]]
      /\ data' = [t \in Threads |-> IF t \in dead THEN Empty ELSE data[t]]
      /\ UNCHANGED <<file, onDisk, temp, ordered, mayHold>>

PowerFails ==
  /\ crashes < MaxCrashes /\ crashes' = crashes + 1
  /\ file' \in onDisk /\ onDisk' = {file'}
  /\ mutex' = [p \in Processes |-> Nobody]
  /\ locks' = [t \in Threads |-> "none"]
  /\ pc' = [t \in Threads |-> "idle"]
  /\ call' = [t \in Threads |-> Get]
  /\ data' = [t \in Threads |-> Empty]
  /\ UNCHANGED <<temp, ordered, mayHold>>

\* "Move it aside to start fresh", as the error says.
MoveAside ==
  /\ file = Corrupt
  /\ file' = Empty /\ onDisk' = {Empty}
  /\ mayHold' = [k \in Keys |-> mayHold[k] \cup {Absent}]
  /\ UNCHANGED <<temp, locking, pc, call, data, crashes>>

-----------------------------------------------------------------------------

Init ==
  /\ file \in {Empty, Corrupt} /\ onDisk = {file}
  /\ temp = [p \in Processes |-> Corrupt]
  /\ mutex = [p \in Processes |-> Nobody]
  /\ locks = [t \in Threads |-> "none"]
  /\ pc = [t \in Threads |-> "idle"]
  /\ call = [t \in Threads |-> Get]
  /\ data = [t \in Threads |-> Empty]
  /\ ordered = TRUE
  /\ mayHold = [k \in Keys |-> {Absent}]
  /\ crashes = 0

Step(t) ==
  \/ Begin(t) \/ TakeMutex(t) \/ TakeFlock(t) \/ GoUnlocked(t) \/ Read(t)
  \/ OpenTemp(t) \/ DumpTemp(t) \/ Replace(t) \/ SyncDirectory(t) \/ CallFails(t)

Next ==
  \/ \E t \in Threads : Step(t)
  \/ \E p \in Processes : Kill(p)
  \/ PowerFails \/ MoveAside

Spec == Init /\ [][Next]_vars

-----------------------------------------------------------------------------
(* Properties *)

\* Types of the state: what a save writes is a whole store, every entry of it
\* there, and the temporary file alone may hold half of one.
TypeOK ==
  /\ file \in Contents /\ onDisk \in SUBSET Contents
  /\ temp \in [Processes -> Contents]
  /\ mutex \in [Processes -> Threads \cup {Nobody}]
  /\ locks \in [Threads -> {"none", "shared", "exclusive"}]
  /\ pc \in [Threads -> Working \cup {"idle"}]
  /\ call \in [Threads -> Calls]
  /\ data \in [Threads -> Stores]
  /\ ordered \in BOOLEAN
  /\ mayHold \in [Keys -> SUBSET (Values \cup {Absent})]
  /\ crashes \in 0..MaxCrashes

\* As long as the file lock can be had: a save that returned is never lost, to
\* another save, to a failing one, to a killed process or to a power failure.
SavedStays ==
  ordered /\ file # Corrupt =>
    \A content \in onDisk \cup {file} :
      content # Corrupt /\ \A k \in Keys : content[k] \in mayHold[k]

\* No call and no crash makes the store unusable, with or without the file lock,
\* and no save replaces an unusable one: only the operator does.
FailsClosed ==
  [][/\ file' = Corrupt => file = Corrupt
     /\ file = Corrupt /\ file' # Corrupt => file' = Empty /\ pc' = pc]_vars

\* The store is the atomic map of AtomicStore.
Atomic == INSTANCE AtomicStore WITH store <- file, durable <- onDisk
IsAtomic == Atomic!Spec
=============================================================================

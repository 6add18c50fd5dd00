--------------------------- MODULE TokenStoreProofs ---------------------------
(***************************************************************************)
(* Theorems about TokenStore, for any number of processes, threads and     *)
(* crashes, and any saves: it implements AtomicStore, and a save that      *)
(* returned is never lost.                                                 *)
(***************************************************************************)
EXTENDS TokenStore, TLAPS

-----------------------------------------------------------------------------
(* Applying a change *)

\* A save names a key, and only sets what it names.
LEMMA ChangesAreSaves ==
  ASSUME NEW change \in Changes
  PROVE  /\ change # Get /\ DOMAIN change \subseteq Keys
         /\ \A k \in DOMAIN change : change[k] \in Values \cup {Absent}
<1>1. PICK keys \in (SUBSET Keys) \ {{}} : change \in [keys -> Values \cup {Absent}]
  BY NamesAssumption
<1>2. DOMAIN change = keys
  BY <1>1
<1>3. DOMAIN Get = {}
  BY DEF Get
<1> QED BY <1>1, <1>2, <1>3

LEMMA CallsSetKeys ==
  ASSUME NEW c \in Calls
  PROVE  DOMAIN c \subseteq Keys /\ \A k \in DOMAIN c : c[k] \in Values \cup {Absent}
<1>1. DOMAIN Get = {}
  BY DEF Get
<1> QED BY <1>1, ChangesAreSaves DEF Calls

LEMMA AppliedIsStore ==
  ASSUME NEW change \in Changes, NEW base \in Stores
  PROVE  /\ Applied(change, base) \in Stores
         /\ \A k \in Keys : Applied(change, base)[k] = IF k \in DOMAIN change THEN change[k] ELSE base[k]
  BY ChangesAreSaves DEF Applied, Stores

LEMMA EmptyIsStore == Empty \in Stores /\ Empty # Corrupt /\ \A k \in Keys : Empty[k] = Absent
  BY NamesAssumption DEF Empty, Stores

-----------------------------------------------------------------------------
(* The inductive invariant *)

\* Inside the thread lock, inside the file lock, and past the read of a save.
Inside == {"flock", "read", "open", "dump", "replace", "dirsync"}
Held == {"read", "open", "dump", "replace", "dirsync"}
Writing == {"open", "dump", "replace", "dirsync"}

\* One thread of a process at a time.
OneInside == \A t \in Threads : pc[t] \in Inside => mutex[ProcessOf[t]] = t

\* The file lock is held in its mode, and excludes.
Exclusive ==
  \A t, u \in Threads : t # u /\ locks[t] = "exclusive" => locks[u] = "none"
LockHeld ==
  \A t \in Threads :
    /\ locks[t] # "none" => pc[t] \in Held
    /\ ordered /\ pc[t] \in Held => locks[t] = Mode(t)

\* A save works on a whole store: without the lock on some store, with it on
\* the store that is in the file.
Prepared ==
  \A t \in Threads :
    /\ pc[t] \in Writing => call[t] \in Changes /\ file # Corrupt
    /\ pc[t] \in {"open", "dump", "replace"} =>
         /\ \E base \in Stores : data[t] = Applied(call[t], base)
         /\ ordered => data[t] = Applied(call[t], file)
    /\ pc[t] = "replace" => temp[TempOf(t)] = data[t]

\* The disk has a whole store too.
Whole == file \in onDisk /\ (file = Corrupt => onDisk = {Corrupt}) /\ (file # Corrupt => Corrupt \notin onDisk)

\* What a key may hold, what a save under way will put there, and what it has put.
Accounted ==
  /\ \A t \in Threads, k \in Keys : Saving(t, k) => call[t][k] \in mayHold[k]
  /\ ordered => \A t \in Threads : pc[t] = "dirsync" =>
       \A k \in Keys : k \in DOMAIN call[t] => file[k] = call[t][k]
  /\ SavedStays

Inv == TypeOK /\ OneInside /\ Exclusive /\ LockHeld /\ Prepared /\ Whole /\ Accounted

\* It holds at the start.
LEMMA InitInv == Init => Inv
<1> SUFFICES ASSUME Init PROVE Inv
  OBVIOUS
<1> USE DEF Init
<1>1. TypeOK
  BY EmptyIsStore, NamesAssumption DEF TypeOK, Contents, Calls, Working
<1>2. OneInside /\ Exclusive /\ LockHeld /\ Prepared /\ Whole
  BY DEF OneInside, Exclusive, LockHeld, Prepared, Whole, Inside, Held, Writing
<1>3. Accounted
  BY EmptyIsStore DEF Accounted, SavedStays, Saving, Working
<1> QED BY <1>1, <1>2, <1>3 DEF Inv

-----------------------------------------------------------------------------
(* Every action keeps it *)

\* Inside the thread lock there is one thread of a process.
LEMMA OtherProcess ==
  ASSUME Inv, NEW t \in Threads, NEW u \in Threads, t # u, pc[t] \in Inside, pc[u] \in Inside
  PROVE  ProcessOf[t] # ProcessOf[u]
  BY DEF Inv, OneInside

\* With the file lock in order, a save that has it is alone in it.
LEMMA AloneInLock ==
  ASSUME Inv, ordered, NEW t \in Threads, NEW u \in Threads, t # u, pc[t] \in Writing
  PROVE  pc[u] \notin Held
<1>1. call[t] \in Changes /\ call[t] # Get
  BY ChangesAreSaves DEF Inv, Prepared
<1>2. locks[t] = "exclusive"
  BY <1>1 DEF Inv, LockHeld, Mode, Writing, Held
<1>3. locks[u] = "none"
  BY <1>2 DEF Inv, Exclusive
<1> QED BY <1>3 DEF Inv, LockHeld, Mode

\* A call that leaves, by whatever way.
LEMMA LeaveInv ==
  ASSUME Inv, NEW t \in Threads, Leave(t), pc[t] \in Inside, UNCHANGED <<file, ordered>>,
         UNCHANGED temp \/ temp' = [temp EXCEPT ![TempOf(t)] = Corrupt],
         \/ UNCHANGED <<onDisk, mayHold>>
         \/ pc[t] = "dirsync" /\ onDisk' = {file} /\ mayHold' = Acknowledged(t)
  PROVE  OneInside' /\ Exclusive' /\ LockHeld' /\ Prepared' /\ Whole' /\ Accounted'
<1> USE DEF Inv, TypeOK
<1>1. \A u \in Threads : u # t => /\ pc'[u] = pc[u] /\ locks'[u] = locks[u]
                                  /\ call'[u] = call[u] /\ data'[u] = data[u]
  BY DEF Leave, Goto
<1>2. pc'[t] = "idle" /\ locks'[t] = "none"
  BY DEF Leave, Goto
<1>3. \A u \in Threads : u # t /\ pc[u] \in Inside =>
        ProcessOf[u] # ProcessOf[t] /\ ProcessOf[u] \in Processes
  BY OtherProcess, NamesAssumption
<1>4. OneInside'
  <2>1. mutex' = [mutex EXCEPT ![ProcessOf[t]] = Nobody]
    BY DEF Leave
  <2> QED BY <1>1, <1>2, <1>3, <2>1 DEF OneInside, Inside
<1>5. Exclusive' /\ LockHeld'
  BY <1>1, <1>2 DEF Exclusive, LockHeld, Held, Mode
<1>6. Prepared'
  <2>1. \A u \in Threads : u # t /\ pc[u] = "replace" => temp'[TempOf(u)] = temp[TempOf(u)]
    BY <1>3 DEF TempOf, Inside
  <2> QED BY <1>1, <1>2, <2>1 DEF Prepared, Writing
<1>7. Whole'
  BY DEF Whole
<1>8. Accounted'
  <2>1. \A u \in Threads, k \in Keys : Saving(u, k)' => u # t /\ Saving(u, k)
    BY <1>1, <1>2 DEF Saving, Working
  <2>2. CASE UNCHANGED <<onDisk, mayHold>>
    BY <1>1, <1>2, <2>1, <2>2 DEF Accounted, SavedStays
  <2>3. CASE pc[t] = "dirsync" /\ onDisk' = {file} /\ mayHold' = Acknowledged(t)
    <3>1. \A u \in Threads, k \in Keys : Saving(u, k)' => call'[u][k] \in mayHold'[k]
      BY <1>1, <2>1, <2>3 DEF Accounted, Acknowledged
    <3>2. ASSUME ordered PROVE \A k \in Keys : file # Corrupt => file[k] \in mayHold'[k]
      BY <2>3, <3>2 DEF Accounted, Acknowledged, SavedStays
    <3> QED BY <1>1, <1>2, <2>3, <3>1, <3>2 DEF Accounted, SavedStays, Whole
  <2> QED BY <2>2, <2>3
<1> QED BY <1>4, <1>5, <1>6, <1>7, <1>8

LEMMA LeaveTyped ==
  ASSUME Inv, NEW t \in Threads, Leave(t)
  PROVE  /\ mutex' \in [Processes -> Threads \cup {Nobody}]
         /\ locks' \in [Threads -> {"none", "shared", "exclusive"}]
         /\ pc' \in [Threads -> Working \cup {"idle"}]
         /\ call' \in [Threads -> Calls] /\ data' \in [Threads -> Stores]
  BY EmptyIsStore DEF Leave, Goto, Inv, TypeOK, Calls

LEMMA BeginInv ==
  ASSUME Inv, NEW t \in Threads, Begin(t)
  PROVE  Inv'
<1> USE DEF Inv, Goto, locking, TempOf
<1>0. TypeOK'
  BY CallsSetKeys DEF Begin, TypeOK, Contents, Calls, Working
<1>1. OneInside'
  BY NamesAssumption DEF Begin, OneInside, Inside, TypeOK
<1>2. Exclusive'
  BY NamesAssumption DEF Begin, Exclusive, TypeOK
<1>3. LockHeld'
  BY NamesAssumption DEF Begin, LockHeld, Held, Mode, TypeOK
<1>4. Prepared'
  BY NamesAssumption DEF Begin, Prepared, Writing, TypeOK
<1>5. Whole'
  BY NamesAssumption DEF Begin, Whole, TypeOK
<1>6. Accounted'
  BY CallsSetKeys DEF Begin, Accounted, SavedStays, Saving, Working, TypeOK
<1> QED BY <1>0, <1>1, <1>2, <1>3, <1>4, <1>5, <1>6

LEMMA TakeMutexInv ==
  ASSUME Inv, NEW t \in Threads, TakeMutex(t)
  PROVE  Inv'
<1> USE DEF Inv, Goto, locking, TempOf
<1>0. TypeOK'
  BY CallsSetKeys DEF TakeMutex, TypeOK, Contents, Calls, Working
<1>1. OneInside'
  <2> SUFFICES ASSUME NEW u \in Threads, pc'[u] \in Inside PROVE mutex'[ProcessOf[u]] = u
    BY DEF OneInside
  <2>1. CASE u = t
    BY <2>1, NamesAssumption DEF TakeMutex, TypeOK
  <2>2. CASE u # t
    <3>1. pc[u] \in Inside /\ mutex[ProcessOf[u]] = u
      BY <2>2 DEF TakeMutex, TypeOK, OneInside
    <3> QED BY <3>1, NamesAssumption DEF TakeMutex, TypeOK
  <2> QED BY <2>1, <2>2
<1>2. Exclusive'
  BY NamesAssumption DEF TakeMutex, Exclusive, TypeOK
<1>3. LockHeld'
  BY NamesAssumption DEF TakeMutex, LockHeld, Held, Mode, TypeOK
<1>4. Prepared'
  BY NamesAssumption DEF TakeMutex, Prepared, Writing, TypeOK
<1>5. Whole'
  BY NamesAssumption DEF TakeMutex, Whole, TypeOK
<1>6. Accounted'
  BY NamesAssumption DEF TakeMutex, Accounted, SavedStays, Saving, Working, TypeOK
<1> QED BY <1>0, <1>1, <1>2, <1>3, <1>4, <1>5, <1>6

LEMMA TakeFlockInv ==
  ASSUME Inv, NEW t \in Threads, TakeFlock(t)
  PROVE  Inv'
<1> USE DEF Inv, Goto, locking, TempOf
<1>0. TypeOK'
  BY CallsSetKeys DEF TakeFlock, TypeOK, Contents, Calls, Working, Mode
<1>1. OneInside'
  BY NamesAssumption DEF TakeFlock, OneInside, Inside, TypeOK
<1>2. Exclusive'
  BY NamesAssumption DEF TakeFlock, Exclusive, TypeOK
<1>3. LockHeld'
  BY NamesAssumption DEF TakeFlock, LockHeld, Held, Mode, TypeOK
<1>4. Prepared'
  BY NamesAssumption DEF TakeFlock, Prepared, Writing, TypeOK
<1>5. Whole'
  BY NamesAssumption DEF TakeFlock, Whole, TypeOK
<1>6. Accounted'
  BY NamesAssumption DEF TakeFlock, Accounted, SavedStays, Saving, Working, TypeOK
<1> QED BY <1>0, <1>1, <1>2, <1>3, <1>4, <1>5, <1>6

LEMMA GoUnlockedInv ==
  ASSUME Inv, NEW t \in Threads, GoUnlocked(t)
  PROVE  Inv'
<1> USE DEF Inv, Goto, locking, TempOf
<1>0. TypeOK'
  BY CallsSetKeys DEF GoUnlocked, TypeOK, Contents, Calls, Working
<1>1. OneInside'
  BY NamesAssumption DEF GoUnlocked, OneInside, Inside, TypeOK
<1>2. Exclusive'
  BY NamesAssumption DEF GoUnlocked, Exclusive, TypeOK
<1>3. LockHeld'
  BY NamesAssumption DEF GoUnlocked, LockHeld, Held, Mode, TypeOK
<1>4. Prepared'
  BY NamesAssumption DEF GoUnlocked, Prepared, Writing, TypeOK
<1>5. Whole'
  BY NamesAssumption DEF GoUnlocked, Whole, TypeOK
<1>6. Accounted'
  BY NamesAssumption DEF GoUnlocked, Accounted, SavedStays, Saving, Working, TypeOK
<1> QED BY <1>0, <1>1, <1>2, <1>3, <1>4, <1>5, <1>6

LEMMA ReadInv ==
  ASSUME Inv, NEW t \in Threads, Read(t)
  PROVE  Inv'
<1> USE DEF Inv
<1>1. CASE Leave(t)
  <2>1. OneInside' /\ Exclusive' /\ LockHeld' /\ Prepared' /\ Whole' /\ Accounted'
    BY <1>1, LeaveInv DEF Read, Inside
  <2>2. TypeOK'
    BY <1>1, LeaveTyped DEF Read, TypeOK
  <2> QED BY <2>1, <2>2
<1>2. CASE /\ file # Corrupt /\ call[t] # Get
           /\ data' = [data EXCEPT ![t] = Applied(call[t], file)]
           /\ Goto(t, "open") /\ UNCHANGED <<mutex, locks, call>>
  <2>1. call[t] \in Changes /\ file \in Stores
    BY <1>2 DEF TypeOK, Calls, Contents
  <2>2. Applied(call[t], file) \in Stores
    BY <2>1, AppliedIsStore
  <2> USE DEF Read, Goto
  <2>3. TypeOK'
    BY <1>2, <2>2 DEF TypeOK, Working
  <2>4. OneInside' /\ Exclusive' /\ LockHeld'
    BY <1>2 DEF TypeOK, OneInside, Inside, Exclusive, LockHeld, Held, Mode
  <2>5. Prepared'
    BY <1>2, <2>1 DEF TypeOK, Prepared, Writing, TempOf
  <2>6. Whole' /\ Accounted'
    BY <1>2 DEF TypeOK, Whole, Accounted, SavedStays, Saving, Working
  <2> QED BY <2>3, <2>4, <2>5, <2>6
<1> QED BY <1>1, <1>2 DEF Read

LEMMA OpenTempInv ==
  ASSUME Inv, NEW t \in Threads, OpenTemp(t)
  PROVE  Inv'
<1> USE DEF Inv, Goto, locking, TempOf
<1>0. TypeOK'
  BY CallsSetKeys DEF OpenTemp, TypeOK, Contents, Calls, Working, WriteTemp
<1>1. OneInside'
  BY NamesAssumption DEF OpenTemp, OneInside, Inside, TypeOK
<1>2. Exclusive'
  BY NamesAssumption DEF OpenTemp, Exclusive, TypeOK
<1>3. LockHeld'
  BY NamesAssumption DEF OpenTemp, LockHeld, Held, Mode, TypeOK
<1>4. Prepared'
  <2>1. \A u \in Threads : u # t /\ pc[u] = "replace" => temp'[ProcessOf[u]] = temp[ProcessOf[u]]
    BY OtherProcess, NamesAssumption DEF OpenTemp, WriteTemp, TypeOK, Inside
  <2> QED BY <2>1 DEF OpenTemp, Prepared, Writing, TypeOK
<1>5. Whole'
  BY NamesAssumption DEF OpenTemp, Whole, TypeOK
<1>6. Accounted'
  BY NamesAssumption DEF OpenTemp, Accounted, SavedStays, Saving, Working, TypeOK
<1> QED BY <1>0, <1>1, <1>2, <1>3, <1>4, <1>5, <1>6

LEMMA DumpTempInv ==
  ASSUME Inv, NEW t \in Threads, DumpTemp(t)
  PROVE  Inv'
<1> USE DEF Inv, Goto, locking, TempOf
<1>0. TypeOK'
  BY CallsSetKeys DEF DumpTemp, TypeOK, Contents, Calls, Working, WriteTemp
<1>1. OneInside'
  BY NamesAssumption DEF DumpTemp, OneInside, Inside, TypeOK
<1>2. Exclusive'
  BY NamesAssumption DEF DumpTemp, Exclusive, TypeOK
<1>3. LockHeld'
  BY NamesAssumption DEF DumpTemp, LockHeld, Held, Mode, TypeOK
<1>4. Prepared'
  <2>1. \A u \in Threads : u # t /\ pc[u] = "replace" => temp'[ProcessOf[u]] = temp[ProcessOf[u]]
    BY OtherProcess, NamesAssumption DEF DumpTemp, WriteTemp, TypeOK, Inside
  <2>2. temp'[ProcessOf[t]] = data[t]
    BY NamesAssumption DEF DumpTemp, WriteTemp, TypeOK
  <2> QED BY <2>1, <2>2 DEF DumpTemp, Prepared, Writing, TypeOK
<1>5. Whole'
  BY NamesAssumption DEF DumpTemp, Whole, TypeOK
<1>6. Accounted'
  BY NamesAssumption DEF DumpTemp, Accounted, SavedStays, Saving, Working, TypeOK
<1> QED BY <1>0, <1>1, <1>2, <1>3, <1>4, <1>5, <1>6

LEMMA ReplaceInv ==
  ASSUME Inv, NEW t \in Threads, Replace(t)
  PROVE  Inv'
<1> USE DEF Inv, Goto, locking, TempOf
<1>7. file' = data[t] /\ data[t] \in Stores /\ file # Corrupt
  BY DEF Replace, Prepared, Writing, TypeOK
<1>8. file' # Corrupt
  BY <1>7, NamesAssumption
<1>0. TypeOK'
  BY <1>7, <1>8, NamesAssumption DEF Replace, WriteTemp, TypeOK, Contents, Working
<1>1. OneInside'
  BY NamesAssumption DEF Replace, OneInside, Inside, TypeOK
<1>2. Exclusive'
  BY NamesAssumption DEF Replace, Exclusive, TypeOK
<1>3. LockHeld'
  BY NamesAssumption DEF Replace, LockHeld, Held, Mode, TypeOK
<1>4. Prepared'
  <2>1. \A u \in Threads : u # t /\ pc[u] = "replace" => temp'[ProcessOf[u]] = temp[ProcessOf[u]]
    BY OtherProcess, NamesAssumption DEF Replace, WriteTemp, TypeOK, Inside
  <2>2. ordered => \A u \in Threads : u # t => pc[u] \notin Held
    BY AloneInLock DEF Replace, Writing
  <2> QED BY <1>7, <1>8, <2>1, <2>2 DEF Replace, Prepared, Writing, Held, TypeOK
<1>5. Whole'
  BY <1>7, <1>8 DEF Replace, Whole
<1>6. Accounted'
  <2>1. \A u \in Threads, k \in Keys : Saving(u, k)' => Saving(u, k)
    BY DEF Replace, Saving, Working, TypeOK
  <2>2. UNCHANGED <<call, mayHold, ordered>>
    BY DEF Replace
  <2>3. ASSUME ordered
        PROVE  /\ \A k \in Keys : file'[k] \in mayHold[k]
               /\ \A k \in Keys : k \in DOMAIN call[t] => file'[k] = call[t][k]
    <3>1. file' = Applied(call[t], file) /\ call[t] \in Changes /\ file \in Stores
      BY <1>7, <2>3 DEF Replace, Prepared, Writing, TypeOK, Contents
    <3>2. \A k \in Keys : file'[k] = IF k \in DOMAIN call[t] THEN call[t][k] ELSE file[k]
      BY <3>1, AppliedIsStore
    <3>3. \A k \in Keys : k \in DOMAIN call[t] => call[t][k] \in mayHold[k]
      BY DEF Replace, Accounted, Saving, Working
    <3>4. \A k \in Keys : file[k] \in mayHold[k]
      BY <1>7, <2>3 DEF Accounted, SavedStays
    <3> QED BY <3>2, <3>3, <3>4
  <2>4. ordered => \A u \in Threads : u # t => pc'[u] # "dirsync"
    BY AloneInLock DEF Replace, Writing, Held, TypeOK
  <2>5. onDisk' = onDisk \cup {file'}
    BY DEF Replace
  <2>6. SavedStays'
    BY <1>7, <1>8, <2>2, <2>3, <2>5 DEF Accounted, SavedStays
  <2> QED BY <2>1, <2>2, <2>3, <2>4, <2>6 DEF Accounted
<1> QED BY <1>0, <1>1, <1>2, <1>3, <1>4, <1>5, <1>6

LEMMA SyncDirectoryInv ==
  ASSUME Inv, NEW t \in Threads, SyncDirectory(t)
  PROVE  Inv'
<1>1. OneInside' /\ Exclusive' /\ LockHeld' /\ Prepared' /\ Whole' /\ Accounted'
  BY LeaveInv DEF SyncDirectory, Inside
<1>2. Acknowledged(t) \in [Keys -> SUBSET (Values \cup {Absent})]
  <2>1. \A u \in Threads, k \in Keys : k \in DOMAIN call[u] => call[u][k] \in Values \cup {Absent}
    BY CallsSetKeys DEF Inv, TypeOK
  <2>2. mayHold \in [Keys -> SUBSET (Values \cup {Absent})]
    BY DEF Inv, TypeOK
  <2> QED BY <2>1, <2>2 DEF Acknowledged, Saving
<1>3. TypeOK'
  BY <1>2, LeaveTyped DEF SyncDirectory, Inv, TypeOK
<1> QED BY <1>1, <1>3 DEF Inv

LEMMA CallFailsInv ==
  ASSUME Inv, NEW t \in Threads, CallFails(t)
  PROVE  Inv'
<1>1. OneInside' /\ Exclusive' /\ LockHeld' /\ Prepared' /\ Whole' /\ Accounted'
  BY LeaveInv DEF CallFails, Inside, Working
<1>2. temp' \in [Processes -> Contents]
  BY NamesAssumption DEF CallFails, Inv, TypeOK, Contents
<1>3. TypeOK'
  BY <1>2, LeaveTyped DEF CallFails, Inv, TypeOK
<1> QED BY <1>1, <1>3 DEF Inv

\* Every thread in dead is back at the start, its locks given up.
LEMMA KillInv ==
  ASSUME Inv, NEW p \in Processes, Kill(p)
  PROVE  Inv'
<1> USE DEF Inv
<1>1. \A t \in Threads : IF ProcessOf[t] = p
                         THEN pc'[t] = "idle" /\ locks'[t] = "none"
                         ELSE /\ pc'[t] = pc[t] /\ locks'[t] = locks[t] /\ call'[t] = call[t]
                              /\ data'[t] = data[t] /\ mutex'[ProcessOf[t]] = mutex[ProcessOf[t]]
  BY NamesAssumption DEF Kill, TypeOK
<1>2. UNCHANGED <<file, onDisk, temp, ordered, mayHold>>
  BY DEF Kill
<1>3. TypeOK'
  BY EmptyIsStore, NamesAssumption DEF Kill, TypeOK, Calls
<1>4. OneInside' /\ Exclusive' /\ LockHeld'
  BY <1>1, <1>2 DEF OneInside, Inside, Exclusive, LockHeld, Held, Mode
<1>5. Prepared' /\ Whole'
  BY <1>1, <1>2 DEF Prepared, Writing, Whole, TempOf
<1>6. Accounted'
  BY <1>1, <1>2 DEF Accounted, SavedStays, Saving, Working
<1> QED BY <1>3, <1>4, <1>5, <1>6

LEMMA PowerFailsInv ==
  ASSUME Inv, PowerFails
  PROVE  Inv'
<1> USE DEF Inv
<1>1. \A t \in Threads : pc'[t] = "idle" /\ locks'[t] = "none"
  BY DEF PowerFails
<1>2. file' \in onDisk /\ onDisk' = {file'} /\ UNCHANGED <<temp, ordered, mayHold>>
  BY DEF PowerFails
<1>3. TypeOK'
  BY EmptyIsStore, NamesAssumption DEF PowerFails, TypeOK, Calls
<1>4. OneInside' /\ Exclusive' /\ LockHeld' /\ Prepared' /\ Whole'
  BY <1>1, <1>2 DEF OneInside, Inside, Exclusive, LockHeld, Held, Prepared, Writing, Whole
<1>5. Accounted'
  BY <1>1, <1>2 DEF Accounted, SavedStays, Saving, Working, Whole
<1> QED BY <1>3, <1>4, <1>5

LEMMA MoveAsideInv ==
  ASSUME Inv, MoveAside
  PROVE  Inv'
<1> USE DEF Inv, locking
<1>1. \A t \in Threads : pc[t] \notin Writing
  BY DEF MoveAside, Prepared
<1>2. TypeOK'
  BY EmptyIsStore DEF MoveAside, TypeOK, Contents
<1>3. OneInside' /\ Exclusive' /\ LockHeld'
  BY DEF MoveAside, OneInside, Exclusive, LockHeld, Mode
<1>4. Prepared' /\ Whole'
  BY <1>1, EmptyIsStore DEF MoveAside, Prepared, Writing, Whole
<1>5. Accounted'
  BY <1>1, EmptyIsStore DEF MoveAside, Accounted, SavedStays, Saving, Writing, TypeOK
<1> QED BY <1>2, <1>3, <1>4, <1>5

\* Every step keeps the invariant.
LEMMA InvStep == Inv /\ [Next]_vars => Inv'
<1> SUFFICES ASSUME Inv, [Next]_vars PROVE Inv'
  OBVIOUS
<1>1. ASSUME NEW t \in Threads, Step(t) PROVE Inv'
  BY <1>1, BeginInv, TakeMutexInv, TakeFlockInv, GoUnlockedInv, ReadInv, OpenTempInv, DumpTempInv,
     ReplaceInv, SyncDirectoryInv, CallFailsInv DEF Step
<1>2. CASE UNCHANGED vars
  BY <1>2 DEF vars, Inv, TypeOK, OneInside, Exclusive, LockHeld, Mode, Prepared, TempOf, Whole, Accounted,
              SavedStays, Saving
<1> QED BY <1>1, <1>2, KillInv, PowerFailsInv, MoveAsideInv DEF Next

\* The invariant holds in every state.
THEOREM InvHolds == Spec => []Inv
  BY InitInv, InvStep, PTL DEF Spec

-----------------------------------------------------------------------------
(* Results *)

\* The state always has its types.
THEOREM StoreTypeCorrect == Spec => []TypeOK
<1>1. Inv => TypeOK
  BY DEF Inv
<1> QED BY <1>1, InvHolds, PTL

\* As long as the file lock can be had, a save that returned is never lost.
THEOREM SavedStaysSaved == Spec => []SavedStays
<1>1. Inv => SavedStays
  BY DEF Inv, Accounted
<1> QED BY <1>1, InvHolds, PTL

\* Steps that leave the file, the disk and the order of locks alone.
LEMMA QuietSteps ==
  ASSUME Inv, NEW t \in Threads, Step(t), ~ Replace(t), ~ SyncDirectory(t), ~ GoUnlocked(t)
  PROVE  UNCHANGED <<file, onDisk, ordered>>
  BY DEF Step, Begin, TakeMutex, TakeFlock, Read, OpenTemp, DumpTemp, CallFails, locking

\* No step makes the store unusable or replaces an unusable one, but the operator's.
THEOREM StoreFailsClosed == Spec => FailsClosed
<1> DEFINE Closed == /\ file' = Corrupt => file = Corrupt
                     /\ file = Corrupt /\ file' # Corrupt => file' = Empty /\ pc' = pc
<1>1. ASSUME Inv, [Next]_vars PROVE Closed
  <2>1. CASE \E t \in Threads : Step(t)
    <3>1. PICK t \in Threads : Step(t)
      BY <2>1
    <3>2. CASE Replace(t)
      <4>1. file' = data[t] /\ data[t] \in Stores /\ file # Corrupt
        BY <1>1, <3>2 DEF Replace, Inv, Prepared, Writing, TypeOK
      <4> QED BY <4>1, NamesAssumption
    <3>3. CASE SyncDirectory(t) \/ GoUnlocked(t)
      BY <3>3 DEF SyncDirectory, GoUnlocked
    <3> QED BY <1>1, <3>1, <3>2, <3>3, QuietSteps
  <2>2. CASE \E p \in Processes : Kill(p)
    BY <2>2 DEF Kill
  <2>3. CASE PowerFails
    BY <1>1, <2>3 DEF PowerFails, Inv, Whole
  <2>4. CASE MoveAside
    BY <2>4, EmptyIsStore DEF MoveAside, locking
  <2>5. CASE UNCHANGED vars
    BY <2>5 DEF vars
  <2> QED BY <1>1, <2>1, <2>2, <2>3, <2>4, <2>5 DEF Next
<1>2. Inv /\ [Next]_vars => [Closed]_vars
  BY <1>1
<1> QED BY <1>2, InvHolds, PTL DEF Spec, FailsClosed

\* The store implements the atomic map: every save takes effect at its rename.
THEOREM StoreIsAtomic == Spec => IsAtomic
<1> USE DEF Atomic!Stores, Atomic!Empty, Atomic!Applied
<1>1. Init => Atomic!Init
  BY DEF Init, Atomic!Init, Empty, Stores
<1>2. ASSUME Inv, [Next]_vars PROVE [Atomic!Next]_<<file, onDisk, ordered>>
  <2>1. ASSUME NEW t \in Threads, Step(t)
        PROVE  [Atomic!Next]_<<file, onDisk, ordered>>
    <3>1. CASE Replace(t)
      <4>1. /\ file' = data[t] /\ onDisk' = onDisk \cup {file'} /\ UNCHANGED ordered
            /\ file # Corrupt /\ call[t] \in Changes
            /\ \E base \in Stores : data[t] = Applied(call[t], base)
            /\ ordered => data[t] = Applied(call[t], file)
        BY <1>2, <3>1 DEF Replace, locking, Inv, Prepared, Writing
      <4>2. Atomic!Save(call[t])
        BY <4>1 DEF Atomic!Save, Applied, Stores
      <4> QED BY <4>1, <4>2 DEF Atomic!Next
    <3>2. CASE SyncDirectory(t)
      BY <3>2 DEF SyncDirectory, Atomic!Next, Atomic!Settle
    <3>3. CASE GoUnlocked(t)
      BY <3>3 DEF GoUnlocked, Atomic!Next, Atomic!LoseOrder
    <3> QED BY <1>2, <2>1, <3>1, <3>2, <3>3, QuietSteps
  <2>2. CASE \E p \in Processes : Kill(p)
    BY <2>2 DEF Kill
  <2>3. CASE PowerFails
    BY <2>3 DEF PowerFails, Atomic!Next, Atomic!LosePower
  <2>4. CASE MoveAside
    BY <2>4 DEF MoveAside, locking, Empty, Atomic!Next, Atomic!MoveAside
  <2>5. CASE UNCHANGED vars
    BY <2>5 DEF vars
  <2> QED BY <1>2, <2>1, <2>2, <2>3, <2>4, <2>5 DEF Next
<1>3. Inv /\ [Next]_vars => [Atomic!Next]_<<file, onDisk, ordered>>
  BY <1>2
<1> QED BY <1>1, <1>3, InvHolds, PTL DEF Spec, IsAtomic, Atomic!Spec
=============================================================================

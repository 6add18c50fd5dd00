-------------------------- MODULE ClaudeTokensProofs --------------------------
(***************************************************************************)
(* Theorems about ClaudeTokens, for any number of fetching threads,        *)
(* enrolments, reloads, rotations and restarts: the stored pair is the     *)
(* newest of its family.                                                   *)
(***************************************************************************)
EXTENDS ClaudeTokens, TLAPS

-----------------------------------------------------------------------------
(* Pairs *)

\* No pair is NoPair, and a pair is its family and its turn.
LEMMA PairFacts ==
  /\ \A p \in PairOrNone : p.family \in Families /\ p.turn \in 0..(MaxRotations + 1)
  /\ \A p \in PairOrNone : p # NoPair => p \in Pairs
  /\ \A p \in Pairs : p # NoPair /\ p.turn \in 0..MaxRotations
  /\ \A p, q \in PairOrNone : p.family = q.family /\ p.turn = q.turn => p = q
  /\ NoPair \in PairOrNone /\ NoPair.family = Seed
<1>1. MaxRotations \in Nat
  BY NamesAssumption
<1> QED BY <1>1 DEF PairOrNone, Pairs, NoPair, Families

\* The bounds count from zero.
LEMMA Bounds == 0 \in 0..MaxRotations /\ 0 \in 0..MaxRestarts
<1>1. MaxRotations \in Nat /\ MaxRestarts \in Nat
  BY NamesAssumption
<1> QED BY <1>1

\* A login is a pair of its family, not rotated yet.
LEMMA FirstFacts ==
  ASSUME NEW f \in Families
  PROVE  First(f) \in Pairs /\ First(f).family = f /\ First(f).turn = 0
<1>1. MaxRotations \in Nat
  BY NamesAssumption
<1> QED BY <1>1 DEF First, Pairs

-----------------------------------------------------------------------------
(* The inductive invariant *)

Written(p) == p = NoPair \/ p.turn <= newest[p.family]

\* No pair is ahead of the OAuth server.
NotAhead ==
  /\ Written(stored) /\ Written(refresh)
  /\ \A t \in Procs : Written(held[t])

\* A pair that is being saved is the newest, and nobody else has it.
SoleSaver ==
  \A t \in Fetchers : pc[t] = "save" =>
    /\ held[t] # NoPair /\ held[t].turn = newest[held[t].family]
    /\ stored # held[t] /\ refresh # held[t]
    /\ \A u \in Procs \ {t} : held[u] # held[t]

\* A login that is not saved yet is known to its enrolment alone.
Unsaved(e) == pc[e] \in {"not begun", "verified"}
LoginUnknown ==
  \A e \in Enrolments :
    /\ Unsaved(e) => /\ newest[e] = 0 /\ stored.family # e /\ refresh.family # e
                     /\ \A u \in Procs \ {e} : held[u].family # e
    /\ pc[e] = "verified" => held[e] = First(e)

\* Until it is stored, the environment's pair is known to the start-up alone.
SeedPair(p) == p # NoPair /\ p.family = Seed
SeedUnknown ==
  stored = NoPair \/ pc[Main] = "seed" =>
    /\ newest[Seed] = 0 /\ ~ SeedPair(refresh)
    /\ \A u \in Procs : SeedPair(held[u]) => u = Main /\ pc[Main] = "seed"

\* Only the start-up saves it, and a server that runs has it in its store.
OnlyMainSeeds ==
  /\ \A x \in Procs : pc[x] = "seed" => x = Main /\ held[x] = First(Seed)
  /\ seeded = TRUE /\ pc[Main] \in {"install access", "install refresh", "running"} => stored # NoPair

\* Nothing is fetched before the start-up is done.
NoFetchBefore == pc[Main] # "running" => \A t \in Fetchers : pc[t] = "idle"

Inv ==
  /\ TypeOK /\ NotAhead /\ SoleSaver /\ LoginUnknown /\ SeedUnknown
  /\ OnlyMainSeeds /\ NoFetchBefore /\ StoreIsNewest

LEMMA InitInv == Init => Inv
<1> SUFFICES ASSUME Init PROVE Inv
  OBVIOUS
<1> USE DEF Init, AtFirst
<1>1. NoPair \in PairOrNone /\ NoPair.family = Seed /\ Seed \notin Enrolments
  BY PairFacts, NamesAssumption
<1>2. \A t \in Fetchers : t \in Procs /\ t # Main /\ pc[t] = "idle"
  BY NamesAssumption DEF Procs
<1>3. \A e \in Enrolments : e \in Procs /\ e # Main /\ pc[e] = "not begun"
  BY NamesAssumption DEF Procs
<1>4. \A r \in Reloaders : r \in Procs /\ pc[r] = "idle"
  BY NamesAssumption DEF Procs
<1>5. Main \in Procs /\ pc[Main] = "start"
  BY NamesAssumption DEF Procs
<1>6. TypeOK
  <2>1. pc \in [Procs -> FetchSteps \cup EnrolSteps \cup {"start", "running"} \cup ResolveSteps]
    BY <1>2, <1>3, <1>4, <1>5 DEF Procs, FetchSteps, EnrolSteps, ResolveSteps
  <2>2. /\ newest \in [Families -> 0..MaxRotations] /\ held \in [Procs -> PairOrNone]
        /\ {stored, access, refresh} \subseteq PairOrNone /\ restarts \in 0..MaxRestarts
    <3>2. newest \in [Families -> 0..MaxRotations]
      BY Bounds, Zenon
    <3>3. held \in [Procs -> PairOrNone] /\ {stored, access, refresh} \subseteq PairOrNone
      BY <1>1
    <3> QED BY Bounds, <3>2, <3>3
  <2> QED BY <2>1, <2>2, <1>2, <1>3, <1>4, <1>5 DEF TypeOK, FetchSteps, EnrolSteps, ResolveSteps
<1>7. NotAhead
  BY DEF NotAhead, Written
<1>8. SoleSaver /\ NoFetchBefore
  BY <1>2 DEF SoleSaver, NoFetchBefore
<1>9. LoginUnknown
  BY <1>1, <1>3 DEF LoginUnknown, Unsaved, Families
<1>10. SeedUnknown /\ OnlyMainSeeds
  <2>1. \A x \in Procs : pc[x] # "seed"
    BY <1>2, <1>3, <1>4, <1>5 DEF Procs
  <2> QED BY <1>5, <2>1 DEF SeedUnknown, OnlyMainSeeds, SeedPair, Families
<1>11. StoreIsNewest
  BY DEF StoreIsNewest
<1> QED BY <1>6, <1>7, <1>8, <1>9, <1>10, <1>11 DEF Inv

-----------------------------------------------------------------------------
(* Steps of one thread *)

\* The names of the threads are distinct.
LEMMA ThreadNames ==
  /\ \A t \in Fetchers : t \in Procs /\ t \notin Enrolments /\ t \notin Reloaders /\ t # Main
  /\ \A t \in Enrolments : t \in Procs /\ t \notin Fetchers /\ t \notin Reloaders /\ t # Main
  /\ \A t \in Reloaders : t \in Procs /\ t \notin Fetchers /\ t \notin Enrolments /\ t # Main
  /\ Main \in Procs /\ \A t \in Procs \ Fetchers : t \in Enrolments \/ t \in Reloaders \/ t = Main
  BY NamesAssumption DEF Procs

\* The steps of each thread.
StepsOf(t) ==
  IF t \in Fetchers THEN FetchSteps
  ELSE ResolveSteps \cup (IF t \in Enrolments THEN EnrolSteps
                          ELSE IF t = Main THEN {"start", "running"} ELSE {"idle"})

\* Every other thread stays where it is.
OthersStay(t) == \A u \in Procs \ {t} : pc'[u] = pc[u] /\ held'[u] = held[u]

\* A thread that goes to a step of its own, with a pair or without, keeps the types.
LEMMA TypedStep ==
  ASSUME TypeOK, NEW t \in Procs, NEW step \in StepsOf(t), NEW pair \in PairOrNone,
         pc' = [pc EXCEPT ![t] = step], held' = [held EXCEPT ![t] = pair],
         {stored', access', refresh'} \subseteq PairOrNone, newest' \in [Families -> 0..MaxRotations],
         UNCHANGED <<seeded, restarts>>, lost' \subseteq Families, pending' \subseteq Enrolments,
         disturbed' \in BOOLEAN
  PROVE  TypeOK' /\ OthersStay(t) /\ pc'[t] = step /\ held'[t] = pair
<1>1. DOMAIN pc = Procs /\ DOMAIN held = Procs /\ held' \in [Procs -> PairOrNone]
  BY DEF TypeOK
<1>2. OthersStay(t) /\ pc'[t] = step /\ held'[t] = pair
  BY <1>1 DEF OthersStay
<1>3. step \in FetchSteps \cup EnrolSteps \cup {"start", "running"} \cup ResolveSteps
  BY DEF StepsOf, FetchSteps
<1>4. pc' \in [Procs -> FetchSteps \cup EnrolSteps \cup {"start", "running"} \cup ResolveSteps]
  BY <1>3 DEF TypeOK
<1>5. \A u \in Procs : u # t => pc'[u] = pc[u]
  BY <1>2 DEF OthersStay
<1>6. /\ \A u \in Fetchers : pc'[u] \in FetchSteps
      /\ \A e \in Enrolments : pc'[e] \in EnrolSteps \cup ResolveSteps
      /\ \A r \in Reloaders : pc'[r] \in {"idle"} \cup ResolveSteps
      /\ pc'[Main] \in {"start", "running"} \cup ResolveSteps
  BY <1>2, <1>5, ThreadNames DEF StepsOf, TypeOK
<1>7. seeded' \in BOOLEAN /\ restarts' \in 0..MaxRestarts
  BY DEF TypeOK
<1> QED BY <1>1, <1>2, <1>4, <1>6, <1>7 DEF TypeOK

\* The kind of step that most actions are: a thread copies a pair that the store or
\* the memory holds, or hands its own to the memory, and nothing else.
Copies(t) ==
  /\ UNCHANGED <<stored, newest, lost, seeded>>
  /\ OthersStay(t)
  /\ pc[t] \notin {"save", "seed"}
  /\ pc'[t] \notin {"save", "seed", "not begun", "verified", "start"}
  /\ \/ held'[t] \in {held[t], NoPair, refresh}
     \/ held'[t] = stored /\ (t = Main \/ pc[Main] = "running")
  /\ refresh' \in {refresh, held[t]}
  /\ t \in Fetchers => pc[Main] = "running"
  /\ t = Main => pc[Main] # "running" /\ (pc[Main] = "start" => ~ (stored = NoPair /\ seeded = TRUE))

\* Such steps keep the invariant.
LEMMA CopiesInv ==
  ASSUME Inv, NEW t \in Procs, Copies(t), TypeOK'
  PROVE  Inv'
<1> USE DEF Copies
<1>1. stored' = stored /\ newest' = newest /\ lost' = lost /\ seeded' = seeded
  OBVIOUS
<1>2. \A u \in Procs : u # t => pc'[u] = pc[u] /\ held'[u] = held[u]
  BY DEF OthersStay
<1>3. /\ TypeOK /\ NotAhead /\ SoleSaver /\ LoginUnknown /\ SeedUnknown
      /\ OnlyMainSeeds /\ NoFetchBefore /\ StoreIsNewest
  BY DEF Inv
<1>4. \A p : Written(p)' <=> Written(p)
  BY <1>1 DEF Written
<1>5. NotAhead'
  BY <1>1, <1>2, <1>3, <1>4 DEF NotAhead, Written
<1>6. SoleSaver'
  <2> SUFFICES ASSUME NEW u \in Fetchers, pc'[u] = "save"
               PROVE  /\ held'[u] # NoPair /\ held'[u].turn = newest[held'[u].family]
                      /\ stored # held'[u] /\ refresh' # held'[u]
                      /\ \A v \in Procs \ {u} : held'[v] # held'[u]
    BY <1>1 DEF SoleSaver
  <2>1. u # t /\ u \in Procs
    BY ThreadNames
  <2>2. pc[u] = "save" /\ held'[u] = held[u]
    BY <1>2, <2>1
  <2>3. /\ held[u] # NoPair /\ held[u].turn = newest[held[u].family]
        /\ stored # held[u] /\ refresh # held[u]
        /\ \A v \in Procs \ {u} : held[v] # held[u]
    BY <1>3, <2>2 DEF SoleSaver
  <2>4. \A v \in Procs \ {u} : held'[v] # held[u]
    BY <1>2, <2>1, <2>3
  <2> QED BY <2>1, <2>2, <2>3, <2>4
<1>7. LoginUnknown'
  <2>1. NoPair.family = Seed /\ Seed \notin Enrolments
    BY PairFacts, NamesAssumption
  <2> SUFFICES ASSUME NEW e \in Enrolments, pc'[e] \in {"not begun", "verified"}
               PROVE  /\ newest[e] = 0 /\ stored.family # e /\ refresh'.family # e
                      /\ \A u \in Procs \ {e} : held'[u].family # e
                      /\ pc'[e] = "verified" => held'[e] = First(e)
    BY <1>1 DEF LoginUnknown, Unsaved
  <2>2. e # t /\ e \in Procs
    BY ThreadNames
  <2>3. pc[e] = pc'[e] /\ held'[e] = held[e]
    BY <1>2, <2>2
  <2>4. /\ newest[e] = 0 /\ stored.family # e /\ refresh.family # e
        /\ \A u \in Procs \ {e} : held[u].family # e
        /\ pc[e] = "verified" => held[e] = First(e)
    BY <1>3, <2>3 DEF LoginUnknown, Unsaved
  <2> QED BY <1>2, <2>1, <2>2, <2>3, <2>4
<1>8. SeedUnknown'
  <2> SUFFICES ASSUME stored = NoPair \/ pc'[Main] = "seed"
               PROVE  /\ newest[Seed] = 0 /\ ~ SeedPair(refresh')
                      /\ \A u \in Procs : SeedPair(held'[u]) => u = Main /\ pc'[Main] = "seed"
    BY <1>1 DEF SeedUnknown, SeedPair
  <2>1. pc'[Main] = "seed" <=> pc[Main] = "seed"
    BY <1>2, ThreadNames
  <2>2. /\ newest[Seed] = 0 /\ ~ SeedPair(refresh)
        /\ \A u \in Procs : SeedPair(held[u]) => u = Main /\ pc[Main] = "seed"
    BY <1>3, <2>1 DEF SeedUnknown
  <2>3. ~ SeedPair(held[t]) \/ (t = Main /\ pc[Main] = "seed")
    BY <2>2
  <2>4. ~ SeedPair(held[t])
    BY <2>3
  <2>5. ~ SeedPair(NoPair)
    BY DEF SeedPair
  <2>6. stored = NoPair \/ pc[Main] = "seed"
    BY <2>1
  <2>7. CASE stored = NoPair
    BY <1>2, <2>1, <2>2, <2>4, <2>5, <2>7
  <2>8. CASE stored # NoPair
    <3>1. pc[Main] = "seed" /\ t # Main
      BY <2>6, <2>8
    <3>2. held'[t] \in {held[t], NoPair, refresh}
      BY <3>1
    <3> QED BY <1>2, <2>1, <2>2, <2>4, <2>5, <3>2
  <2> QED BY <2>7, <2>8
<1>9. OnlyMainSeeds'
  <2>1. \A x \in Procs : pc'[x] = "seed" => x = Main /\ held'[x] = First(Seed)
    BY <1>2, <1>3 DEF OnlyMainSeeds
  <2>2. ASSUME seeded = TRUE, pc'[Main] \in {"install access", "install refresh", "running"}
        PROVE  stored # NoPair
    <3>1. CASE t = Main
      <4>1. pc[Main] \in {"start", "install access", "install refresh"}
        BY <1>3, <3>1 DEF TypeOK, ResolveSteps
      <4> QED BY <1>3, <2>2, <3>1, <4>1 DEF OnlyMainSeeds
    <3>2. CASE t # Main
      BY <1>2, <1>3, <2>2, <3>2, ThreadNames DEF OnlyMainSeeds
    <3> QED BY <3>1, <3>2
  <2> QED BY <1>1, <2>1, <2>2 DEF OnlyMainSeeds
<1>10. NoFetchBefore'
  BY <1>2, <1>3, ThreadNames DEF NoFetchBefore
<1>11. StoreIsNewest'
  BY <1>1, <1>2, <1>3, ThreadNames DEF StoreIsNewest
<1> QED BY <1>3, <1>5, <1>6, <1>7, <1>8, <1>9, <1>10, <1>11 DEF Inv

-----------------------------------------------------------------------------
(* Which actions are such steps *)

LEMMA FetchCopies ==
  ASSUME Inv, NEW t \in Fetchers, disturbed' \in BOOLEAN,
         FetchRejected(t) \/ ReadRefreshToken(t) \/ RefreshFails(t) \/ AssignAccess(t) \/ AssignRefresh(t)
  PROVE  Copies(t) /\ TypeOK'
<1> USE ThreadNames
<1>1. TypeOK /\ NoPair \in PairOrNone /\ t \in Procs /\ t # Main /\ StepsOf(t) = FetchSteps
  BY PairFacts DEF Inv, StepsOf
<1>2. held[t] \in PairOrNone /\ {stored, access, refresh} \subseteq PairOrNone
  BY <1>1 DEF TypeOK
<1>3. held = [held EXCEPT ![t] = held[t]]
  BY <1>1 DEF TypeOK
<1>4. pc[t] # "idle" => pc[Main] = "running"
  BY DEF Inv, NoFetchBefore
<1>5. newest \in [Families -> 0..MaxRotations] /\ lost \subseteq Families /\ pending \subseteq Enrolments
  BY <1>1 DEF TypeOK
<1>6. CASE FetchRejected(t)
  <2>1. TypeOK' /\ OthersStay(t) /\ pc'[t] = "rejected" /\ held'[t] = held[t]
    BY <1>1, <1>2, <1>3, <1>5, <1>6, TypedStep DEF FetchRejected, Goto, FetchSteps, memory, world, server
  <2> QED BY <1>1, <1>6, <2>1 DEF Copies, FetchRejected, memory, world, server
<1>7. CASE ReadRefreshToken(t)
  <2>1. PICK step \in {"idle", "request"}, pair \in {NoPair, refresh} :
           pc' = [pc EXCEPT ![t] = step] /\ held' = [held EXCEPT ![t] = pair]
    BY <1>7 DEF ReadRefreshToken, Return, Goto, Hold
  <2>2. TypeOK' /\ OthersStay(t) /\ pc'[t] = step /\ held'[t] = pair
    BY <1>1, <1>2, <1>5, <1>7, <2>1, TypedStep DEF ReadRefreshToken, FetchSteps, memory, world, server
  <2> QED BY <1>1, <1>4, <1>7, <2>2 DEF Copies, ReadRefreshToken, memory, world, server
<1>8. CASE RefreshFails(t)
  <2>1. TypeOK' /\ OthersStay(t) /\ pc'[t] = "idle" /\ held'[t] = NoPair
    BY <1>1, <1>2, <1>5, <1>8, TypedStep DEF RefreshFails, Return, Goto, Hold, FetchSteps, memory, world, server
  <2> QED BY <1>1, <1>4, <1>8, <2>1 DEF Copies, RefreshFails, memory, world, server
<1>9. CASE AssignAccess(t)
  <2>1. TypeOK' /\ OthersStay(t) /\ pc'[t] = "set refresh" /\ held'[t] = held[t]
    BY <1>1, <1>2, <1>3, <1>5, <1>9, TypedStep DEF AssignAccess, Goto, FetchSteps, world, server
  <2> QED BY <1>1, <1>4, <1>9, <2>1 DEF Copies, AssignAccess, world, server
<1>10. CASE AssignRefresh(t)
  <2>1. TypeOK' /\ OthersStay(t) /\ pc'[t] = "idle" /\ held'[t] = NoPair
    BY <1>1, <1>2, <1>5, <1>10, TypedStep DEF AssignRefresh, Return, Goto, Hold, FetchSteps, world, server
  <2> QED BY <1>1, <1>4, <1>10, <2>1 DEF Copies, AssignRefresh, world, server
<1> QED BY <1>6, <1>7, <1>8, <1>9, <1>10

LEMMA InstallCopies ==
  ASSUME Inv, NEW x \in Procs \ Fetchers, disturbed' \in BOOLEAN,
         \/ Resolve(x) /\ ~ (stored = NoPair /\ seeded = TRUE)
         \/ ReloadFails(x) \/ InstallAccess(x) \/ InstallRefresh(x)
  PROVE  Copies(x) /\ TypeOK'
<1>1. TypeOK /\ NoPair \in PairOrNone
  BY PairFacts DEF Inv
<1>2. held[x] \in PairOrNone /\ {stored, access, refresh} \subseteq PairOrNone
  BY <1>1 DEF TypeOK
<1>3. held = [held EXCEPT ![x] = held[x]]
  BY <1>1 DEF TypeOK
<1>4. newest \in [Families -> 0..MaxRotations] /\ lost \subseteq Families /\ pending \subseteq Enrolments
  BY <1>1 DEF TypeOK
<1>5. ResolveSteps \subseteq StepsOf(x) /\ Installed(x) \in StepsOf(x)
  BY ThreadNames DEF StepsOf, Installed, EnrolSteps
<1>6. Installed(x) \in {"running", "done", "idle"}
  BY DEF Installed
<1>7. CASE Resolve(x) /\ ~ (stored = NoPair /\ seeded = TRUE)
  <2>1. held' = [held EXCEPT ![x] = stored] /\ pc' = [pc EXCEPT ![x] = "install access"]
    BY <1>7, Zenon DEF Resolve, Hold, Goto
  <2>2. TypeOK' /\ OthersStay(x) /\ pc'[x] = "install access" /\ held'[x] = stored
    BY <1>1, <1>2, <1>4, <1>5, <1>7, <2>1, TypedStep DEF Resolve, ResolveSteps, memory, world, server
  <2>3. /\ x = Main => pc[Main] = "start"
        /\ x = Main \/ pc[Main] = "running"
        /\ pc[x] \in {"start", "saved", "idle"}
    BY <1>7, ThreadNames DEF Resolve, Resolving
  <2> QED BY <1>7, <2>2, <2>3 DEF Copies, Resolve, memory, world, server
<1>8. CASE ReloadFails(x)
  <2>1. TypeOK' /\ OthersStay(x) /\ pc'[x] = Installed(x) /\ held'[x] = NoPair
    BY <1>1, <1>2, <1>4, <1>5, <1>8, TypedStep DEF ReloadFails, Return, Goto, Hold, memory, world, server
  <2>2. pc[x] \in {"start", "saved", "idle"} /\ x # Main
    BY <1>8 DEF ReloadFails, Resolving
  <2> QED BY <1>6, <1>8, <2>1, <2>2 DEF Copies, ReloadFails, memory, world, server
<1>9. CASE InstallAccess(x)
  <2>1. TypeOK' /\ OthersStay(x) /\ pc'[x] = "install refresh" /\ held'[x] = held[x]
    BY <1>1, <1>2, <1>3, <1>4, <1>5, <1>9, TypedStep DEF InstallAccess, Goto, ResolveSteps, world, server
  <2> QED BY <1>9, <2>1 DEF Copies, InstallAccess, world, server
<1>10. CASE InstallRefresh(x)
  <2>1. TypeOK' /\ OthersStay(x) /\ pc'[x] = Installed(x) /\ held'[x] = NoPair
    BY <1>1, <1>2, <1>4, <1>5, <1>10, TypedStep DEF InstallRefresh, Return, Goto, Hold, world, server
  <2> QED BY <1>6, <1>10, <2>1 DEF Copies, InstallRefresh, world, server
<1> QED BY <1>7, <1>8, <1>9, <1>10

-----------------------------------------------------------------------------
(* A rotation and its save *)

\* A thread that is to rotate or to save is at work while the server runs.
LEMMA Running ==
  ASSUME Inv, NEW t \in Fetchers, pc[t] # "idle"
  PROVE  /\ pc[Main] = "running" /\ t \in Procs /\ t # Main /\ StepsOf(t) = FetchSteps
         /\ TypeOK /\ held[t] \in PairOrNone /\ {stored, access, refresh} \subseteq PairOrNone
         /\ held = [held EXCEPT ![t] = held[t]] /\ NoPair \in PairOrNone
         /\ newest \in [Families -> 0..MaxRotations] /\ lost \subseteq Families /\ pending \subseteq Enrolments
<1>1. TypeOK /\ NoFetchBefore
  BY DEF Inv
<1> QED BY <1>1, ThreadNames, PairFacts DEF TypeOK, NoFetchBefore, StepsOf

\* What the conditions on those who do not run need.
LEMMA StaysRunning ==
  ASSUME Inv, NEW t \in Fetchers, pc[Main] = "running", OthersStay(t), pc'[t] \in FetchSteps,
         seeded' = seeded, stored' = stored \/ stored' # NoPair
  PROVE  OnlyMainSeeds' /\ NoFetchBefore' /\ pc'[Main] = "running"
<1>1. pc'[Main] = "running"
  BY ThreadNames DEF OthersStay
<1>2. \A x \in Procs : pc'[x] # "seed"
  BY <1>1, ThreadNames DEF OthersStay, Inv, OnlyMainSeeds, FetchSteps
<1>3. seeded' = TRUE => stored' # NoPair
  BY DEF Inv, OnlyMainSeeds
<1> QED BY <1>1, <1>2, <1>3 DEF OnlyMainSeeds, NoFetchBefore

LEMMA RotateInv ==
  ASSUME Inv, NEW t \in Fetchers, Rotate(t), disturbed' \in BOOLEAN
  PROVE  Inv'
<1> DEFINE f == held[t].family
           next == [family |-> f, turn |-> newest[f] + 1]
<1>1. pc[t] = "request" /\ held[t].turn = newest[f] /\ newest[f] < MaxRotations
  BY DEF Rotate
<1>2. /\ pc[Main] = "running" /\ t \in Procs /\ t # Main /\ StepsOf(t) = FetchSteps
      /\ TypeOK /\ held[t] \in PairOrNone /\ {stored, access, refresh} \subseteq PairOrNone
      /\ held = [held EXCEPT ![t] = held[t]] /\ NoPair \in PairOrNone
      /\ newest \in [Families -> 0..MaxRotations] /\ lost \subseteq Families /\ pending \subseteq Enrolments
  BY <1>1, Running
<1>3. MaxRotations \in Nat /\ f \in Families /\ newest[f] \in 0..MaxRotations
  BY <1>2, PairFacts, NamesAssumption
<1>4. newest' = [newest EXCEPT ![f] = newest[f] + 1] /\ UNCHANGED <<stored, access, refresh, seeded, restarts, pending>>
  BY DEF Rotate, memory, server
<1>5. newest' \in [Families -> 0..MaxRotations]
  BY <1>1, <1>2, <1>3, <1>4
<1>6. newest'[f] = newest[f] + 1 /\ \A g \in Families \ {f} : newest'[g] = newest[g]
  BY <1>2, <1>3, <1>4
<1>7. next \in Pairs /\ next \in PairOrNone /\ next.family = f /\ next.turn = newest'[f]
  BY <1>1, <1>3, <1>6 DEF Pairs, PairOrNone
<1>8. PICK step \in {"save", "idle"}, pair \in {next, NoPair} :
        /\ pc' = [pc EXCEPT ![t] = step] /\ held' = [held EXCEPT ![t] = pair]
        /\ \/ step = "save" /\ pair = next /\ lost' = lost
           \/ step = "idle" /\ pair = NoPair /\ lost' = lost \cup {f}
  BY DEF Rotate, Return, Goto, Hold
<1>9. TypeOK' /\ OthersStay(t) /\ pc'[t] = step /\ held'[t] = pair
  <2>1. step \in StepsOf(t) /\ pair \in PairOrNone /\ lost' \subseteq Families
    BY <1>2, <1>3, <1>7, <1>8 DEF FetchSteps
  <2> QED BY <1>2, <1>4, <1>5, <1>8, <2>1, TypedStep
<1>10. \A u \in Procs \ {t} : pc'[u] = pc[u] /\ held'[u] = held[u] /\ held[u] \in PairOrNone
  BY <1>2, <1>9 DEF OthersStay, TypeOK
\* What was written is behind the new pair.
<1>11. \A p \in PairOrNone : Written(p) => Written(p)' /\ p # next
  <2> SUFFICES ASSUME NEW p \in PairOrNone, Written(p) PROVE Written(p)' /\ p # next
    OBVIOUS
  <2>1. p.family \in Families /\ newest[p.family] \in 0..MaxRotations
    BY <1>2, PairFacts
  <2>2. CASE p = NoPair
    BY <1>7, <2>2, PairFacts DEF Written
  <2>3. CASE p # NoPair
    <3>1. p.turn <= newest[p.family] /\ p.turn \in 0..MaxRotations
      BY <2>3, PairFacts DEF Written
    <3>2. CASE p.family = f
      <4>1. p.turn <= newest[f] + 1 /\ p.turn # newest[f] + 1
        BY <1>3, <3>1, <3>2
      <4> QED BY <1>6, <1>7, <3>2, <4>1 DEF Written
    <3>3. CASE p.family # f
      BY <1>6, <1>7, <2>1, <3>1, <3>3 DEF Written
    <3> QED BY <3>2, <3>3
  <2> QED BY <2>2, <2>3
<1>12. NotAhead'
  <2>1. Written(stored)' /\ Written(refresh)'
    BY <1>2, <1>4, <1>11 DEF Inv, NotAhead, Written
  <2>2. \A u \in Procs \ {t} : Written(held[u])'
    <3>1. \A u \in Procs \ {t} : Written(held[u])
      BY DEF Inv, NotAhead
    <3> QED BY <1>10, <1>11, <3>1 DEF Written
  <2>3. Written(held[t])'
    BY <1>3, <1>5, <1>7, <1>8, <1>9 DEF Written
  <2> QED BY <2>1, <2>2, <2>3 DEF NotAhead
\* Nobody else saves a pair of this family.
<1>13. \A u \in Fetchers \ {t} : pc[u] = "save" => held[u].family # f
  <2> SUFFICES ASSUME NEW u \in Fetchers \ {t}, pc[u] = "save", held[u].family = f PROVE FALSE
    OBVIOUS
  <2>1. held[u].turn = newest[f] /\ held[t] # held[u]
    BY <1>2 DEF Inv, SoleSaver
  <2>2. held[u] \in PairOrNone
    BY <1>10, ThreadNames
  <2> QED BY <1>1, <1>2, <2>1, <2>2, PairFacts
<1>14. SoleSaver'
  <2> SUFFICES ASSUME NEW u \in Fetchers, pc'[u] = "save"
               PROVE  /\ held'[u] # NoPair /\ held'[u].turn = newest'[held'[u].family]
                      /\ stored # held'[u] /\ refresh # held'[u]
                      /\ \A v \in Procs \ {u} : held'[v] # held'[u]
    BY <1>4 DEF SoleSaver
  <2>1. CASE u = t
    <3>1. held'[u] = next
      BY <1>8, <1>9, <2>1
    <3>2. Written(stored) /\ Written(refresh) /\ \A v \in Procs : Written(held[v])
      BY DEF Inv, NotAhead
    <3> QED BY <1>2, <1>7, <1>10, <1>11, <2>1, <3>1, <3>2, PairFacts
  <2>2. CASE u # t
    <3>1. u \in Procs /\ pc[u] = "save" /\ held'[u] = held[u] /\ held[u].family # f
      BY <1>10, <1>13, <2>2, ThreadNames
    <3>2. /\ held[u] # NoPair /\ held[u].turn = newest[held[u].family]
          /\ stored # held[u] /\ refresh # held[u]
          /\ \A v \in Procs \ {u} : held[v] # held[u]
      BY <3>1 DEF Inv, SoleSaver
    <3>3. newest'[held[u].family] = newest[held[u].family]
      BY <1>6, <1>10, <2>2, <3>1, PairFacts
    <3>4. held'[t] # held[u]
      BY <1>7, <1>8, <1>9, <3>1, <3>2
    <3> QED BY <1>10, <3>1, <3>2, <3>3, <3>4
  <2> QED BY <2>1, <2>2
<1>15. LoginUnknown'
  <2> SUFFICES ASSUME NEW e \in Enrolments, pc'[e] \in {"not begun", "verified"}
               PROVE  /\ newest'[e] = 0 /\ stored.family # e /\ refresh.family # e
                      /\ \A u \in Procs \ {e} : held'[u].family # e
                      /\ pc'[e] = "verified" => held'[e] = First(e)
    BY <1>4 DEF LoginUnknown, Unsaved
  <2>1. e \in Procs /\ e # t /\ pc[e] = pc'[e] /\ held'[e] = held[e] /\ e \in Families
    BY <1>10, ThreadNames DEF Families
  <2>2. /\ newest[e] = 0 /\ stored.family # e /\ refresh.family # e
        /\ \A u \in Procs \ {e} : held[u].family # e
        /\ pc[e] = "verified" => held[e] = First(e)
    BY <2>1 DEF Inv, LoginUnknown, Unsaved
  <2>3. f # e /\ NoPair.family # e
    BY <1>2, <2>1, <2>2, PairFacts, NamesAssumption
  <2>4. newest'[e] = 0
    BY <1>6, <2>1, <2>2, <2>3
  <2>5. held'[t].family # e
    BY <1>7, <1>8, <1>9, <2>3
  <2> QED BY <1>10, <2>1, <2>2, <2>4, <2>5
<1>16. OnlyMainSeeds' /\ NoFetchBefore' /\ pc'[Main] = "running"
  BY <1>2, <1>4, <1>8, <1>9, StaysRunning DEF FetchSteps
<1>17. SeedUnknown'
  <2> SUFFICES ASSUME stored = NoPair
               PROVE  /\ newest'[Seed] = 0 /\ ~ SeedPair(refresh)
                      /\ \A u \in Procs : ~ SeedPair(held'[u])
    BY <1>4, <1>16 DEF SeedUnknown, SeedPair
  <2>1. /\ newest[Seed] = 0 /\ ~ SeedPair(refresh) /\ \A u \in Procs : ~ SeedPair(held[u])
    BY <1>2 DEF Inv, SeedUnknown
  <2>2. held[t] # NoPair
    BY <1>1, <1>3, PairFacts DEF NoPair
  <2>3. f # Seed
    BY <1>2, <2>1, <2>2 DEF SeedPair
  <2>4. ~ SeedPair(next) /\ ~ SeedPair(NoPair)
    BY <1>7, <2>3 DEF SeedPair
  <2> QED BY <1>6, <1>8, <1>9, <1>10, <2>1, <2>3, <2>4 DEF Families
<1>18. StoreIsNewest'
  <2> SUFFICES ASSUME stored # NoPair, stored.family \notin lost'
               PROVE  \/ stored.turn = newest'[stored.family]
                      \/ \E u \in Fetchers : pc'[u] = "save"
                           /\ held'[u] = [stored EXCEPT !.turn = newest'[stored.family]]
    BY <1>4 DEF StoreIsNewest
  <2>1. \/ stored.turn = newest[stored.family]
        \/ \E u \in Fetchers : pc[u] = "save" /\ held[u] = [stored EXCEPT !.turn = newest[stored.family]]
    BY <1>8 DEF Inv, StoreIsNewest
  <2>2. stored \in Pairs /\ stored.family \in Families
    BY <1>2, PairFacts
  <2>3. CASE stored.family = f
    <3>1. pc'[t] = "save" /\ held'[t] = next
      BY <1>8, <1>9, <2>3
    <3>2. next = [stored EXCEPT !.turn = newest'[stored.family]]
      BY <1>6, <2>2, <2>3 DEF Pairs
    <3> QED BY <3>1, <3>2
  <2>4. CASE stored.family # f
    <3>1. newest'[stored.family] = newest[stored.family]
      BY <1>6, <2>2, <2>4
    <3>2. \A u \in Fetchers : pc[u] = "save" => u \in Procs \ {t}
      BY <1>1, ThreadNames
    <3> QED BY <1>10, <2>1, <3>1, <3>2
  <2> QED BY <2>3, <2>4
<1> QED BY <1>9, <1>12, <1>14, <1>15, <1>16, <1>17, <1>18 DEF Inv
LEMMA SaveRotatedInv ==
  ASSUME Inv, NEW t \in Fetchers, SaveRotated(t) \/ SaveRotatedFails(t), disturbed' \in BOOLEAN
  PROVE  Inv'
<1>1. pc[t] = "save"
  BY DEF SaveRotated, SaveRotatedFails
<1>2. /\ pc[Main] = "running" /\ t \in Procs /\ t # Main /\ StepsOf(t) = FetchSteps
      /\ TypeOK /\ held[t] \in PairOrNone /\ {stored, access, refresh} \subseteq PairOrNone
      /\ held = [held EXCEPT ![t] = held[t]] /\ NoPair \in PairOrNone
      /\ newest \in [Families -> 0..MaxRotations] /\ lost \subseteq Families /\ pending \subseteq Enrolments
  BY <1>1, Running
<1>3. /\ held[t] # NoPair /\ held[t].turn = newest[held[t].family] /\ held[t].family \in Families
      /\ stored # held[t] /\ refresh # held[t]
      /\ \A u \in Procs \ {t} : held[u] # held[t]
  BY <1>1, <1>2, PairFacts DEF Inv, SoleSaver
<1>4. UNCHANGED <<access, refresh, newest, seeded, restarts, pending>>
  BY DEF SaveRotated, SaveRotatedFails, memory, world, server
<1>5. PICK step \in {"set access", "idle"}, pair \in {held[t], NoPair} :
        /\ pc' = [pc EXCEPT ![t] = step] /\ held' = [held EXCEPT ![t] = pair]
        /\ \/ stored' = held[t] /\ lost' = lost
           \/ stored' = stored /\ lost' = lost \cup {held[t].family}
  <2>1. CASE SaveRotated(t)
    BY <1>2, <2>1 DEF SaveRotated, Goto, world
  <2>2. CASE SaveRotatedFails(t)
    BY <2>2 DEF SaveRotatedFails, Return, Goto, Hold
  <2> QED BY <2>1, <2>2
<1>6. TypeOK' /\ OthersStay(t) /\ pc'[t] = step /\ held'[t] = pair
  <2>1. step \in StepsOf(t) /\ pair \in PairOrNone /\ lost' \subseteq Families
    BY <1>2, <1>3, <1>5 DEF FetchSteps
  <2>2. {stored', access', refresh'} \subseteq PairOrNone
    BY <1>2, <1>4, <1>5
  <2>3. newest' \in [Families -> 0..MaxRotations] /\ pending' \subseteq Enrolments
    BY <1>2, <1>4
  <2> QED BY <1>2, <1>4, <1>5, <2>1, <2>2, <2>3, TypedStep
<1>7. \A u \in Procs \ {t} : pc'[u] = pc[u] /\ held'[u] = held[u]
  BY <1>6 DEF OthersStay
<1>8. stored' \in {stored, held[t]} /\ newest' = newest /\ refresh' = refresh
  BY <1>4, <1>5
<1>9. NotAhead'
  <2>1. Written(stored) /\ Written(refresh) /\ \A u \in Procs : Written(held[u])
    BY DEF Inv, NotAhead
  <2>2. Written(stored)' /\ Written(refresh)'
    BY <1>2, <1>8, <2>1 DEF Written
  <2>3. \A u \in Procs \ {t} : Written(held[u])'
    BY <1>7, <1>8, <2>1 DEF Written
  <2>4. Written(held[t])'
    BY <1>2, <1>5, <1>6, <1>8, <2>1 DEF Written
  <2> QED BY <2>2, <2>3, <2>4 DEF NotAhead
<1>10. SoleSaver'
  <2> SUFFICES ASSUME NEW u \in Fetchers, pc'[u] = "save"
               PROVE  /\ held'[u] # NoPair /\ held'[u].turn = newest[held'[u].family]
                      /\ stored' # held'[u] /\ refresh # held'[u]
                      /\ \A v \in Procs \ {u} : held'[v] # held'[u]
    BY <1>8 DEF SoleSaver
  <2>1. u # t /\ u \in Procs
    BY <1>5, <1>6, ThreadNames
  <2>2. pc[u] = "save" /\ held'[u] = held[u]
    BY <1>7, <2>1
  <2>3. /\ held[u] # NoPair /\ held[u].turn = newest[held[u].family]
        /\ stored # held[u] /\ refresh # held[u]
        /\ \A v \in Procs \ {u} : held[v] # held[u]
    BY <2>2 DEF Inv, SoleSaver
  <2>4. \A v \in Procs \ {u} : held'[v] # held[u]
    BY <1>2, <1>5, <1>6, <1>7, <2>1, <2>3
  <2> QED BY <1>2, <1>8, <2>1, <2>2, <2>3, <2>4
<1>11. LoginUnknown'
  <2> SUFFICES ASSUME NEW e \in Enrolments, pc'[e] \in {"not begun", "verified"}
               PROVE  /\ newest[e] = 0 /\ stored'.family # e /\ refresh.family # e
                      /\ \A u \in Procs \ {e} : held'[u].family # e
                      /\ pc'[e] = "verified" => held'[e] = First(e)
    BY <1>8 DEF LoginUnknown, Unsaved
  <2>1. e \in Procs /\ e # t /\ pc[e] = pc'[e] /\ held'[e] = held[e]
    BY <1>7, ThreadNames
  <2>2. /\ newest[e] = 0 /\ stored.family # e /\ refresh.family # e
        /\ \A u \in Procs \ {e} : held[u].family # e
        /\ pc[e] = "verified" => held[e] = First(e)
    BY <2>1 DEF Inv, LoginUnknown, Unsaved
  <2>3. held[t].family # e /\ NoPair.family # e
    BY <1>2, <2>1, <2>2, PairFacts, NamesAssumption
  <2> QED BY <1>5, <1>6, <1>7, <1>8, <2>1, <2>2, <2>3
<1>12. OnlyMainSeeds' /\ NoFetchBefore' /\ pc'[Main] = "running"
  BY <1>2, <1>3, <1>4, <1>5, <1>6, StaysRunning DEF FetchSteps
<1>13. SeedUnknown'
  <2> SUFFICES ASSUME stored' = NoPair
               PROVE  /\ newest[Seed] = 0 /\ ~ SeedPair(refresh)
                      /\ \A u \in Procs : ~ SeedPair(held'[u])
    BY <1>8, <1>12 DEF SeedUnknown, SeedPair
  <2>1. /\ newest[Seed] = 0 /\ ~ SeedPair(refresh) /\ \A u \in Procs : ~ SeedPair(held[u])
    BY <1>2, <1>3, <1>8 DEF Inv, SeedUnknown
  <2>2. ~ SeedPair(NoPair)
    BY DEF SeedPair
  <2> QED BY <1>2, <1>5, <1>6, <1>7, <2>1, <2>2
<1>14. StoreIsNewest'
  <2>1. CASE stored' = held[t]
    BY <1>3, <1>8, <2>1 DEF StoreIsNewest
  <2>2. CASE stored' # held[t]
    <3>1. stored' = stored /\ lost' = lost \cup {held[t].family}
      BY <1>5, <2>2
    <3> SUFFICES ASSUME stored # NoPair, stored.family \notin lost'
                 PROVE  \/ stored.turn = newest[stored.family]
                        \/ \E u \in Fetchers : pc'[u] = "save"
                             /\ held'[u] = [stored EXCEPT !.turn = newest[stored.family]]
      BY <1>8, <3>1 DEF StoreIsNewest
    <3>2. \/ stored.turn = newest[stored.family]
          \/ \E u \in Fetchers : pc[u] = "save" /\ held[u] = [stored EXCEPT !.turn = newest[stored.family]]
      BY <3>1 DEF Inv, StoreIsNewest
    <3>3. ASSUME NEW u \in Fetchers, pc[u] = "save", held[u] = [stored EXCEPT !.turn = newest[stored.family]]
          PROVE  pc'[u] = "save" /\ held'[u] = held[u]
      <4>1. stored \in Pairs
        BY <1>2, PairFacts
      <4>2. held[u].family = stored.family
        BY <3>3, <4>1 DEF Pairs
      <4>3. u # t
        BY <3>1, <4>2
      <4> QED BY <1>7, <3>3, <4>3, ThreadNames
    <3> QED BY <3>2, <3>3
  <2> QED BY <2>1, <2>2
<1> QED BY <1>6, <1>9, <1>10, <1>11, <1>12, <1>13, <1>14 DEF Inv
-----------------------------------------------------------------------------
(* An enrolment *)

LEMMA SignInInv ==
  ASSUME Inv, NEW e \in Enrolments, SignIn(e), disturbed' \in BOOLEAN
  PROVE  Inv'
<1>1. /\ pc[e] = "not begun" /\ pc' = [pc EXCEPT ![e] = "verified"] /\ held' = [held EXCEPT ![e] = First(e)]
      /\ UNCHANGED <<stored, access, refresh, newest, lost, seeded, restarts, pending>>
  BY DEF SignIn, Goto, Hold, memory, world, server
<1>2. e \in Families /\ First(e) \in PairOrNone /\ First(e).family = e /\ First(e).turn = 0 /\ First(e) # NoPair
  BY FirstFacts, PairFacts DEF Families, PairOrNone
<1>3. e \in Procs /\ e # Main /\ e \notin Fetchers /\ e # Seed /\ "verified" \in StepsOf(e)
  BY ThreadNames, NamesAssumption DEF StepsOf, EnrolSteps
<1>4. TypeOK
  BY DEF Inv
<1>5. TypeOK' /\ OthersStay(e) /\ pc'[e] = "verified" /\ held'[e] = First(e)
  BY <1>1, <1>2, <1>3, <1>4, TypedStep DEF TypeOK
<1>6. \A u \in Procs \ {e} : pc'[u] = pc[u] /\ held'[u] = held[u]
  BY <1>5 DEF OthersStay
\* Nobody has a pair of this login yet.
<1>7. /\ newest[e] = 0 /\ stored.family # e /\ refresh.family # e
      /\ \A u \in Procs \ {e} : held[u].family # e
  BY <1>1 DEF Inv, LoginUnknown, Unsaved
<1>8. NotAhead'
  <2>1. Written(stored) /\ Written(refresh) /\ \A u \in Procs : Written(held[u])
    BY DEF Inv, NotAhead
  <2>2. Written(stored)' /\ Written(refresh)' /\ \A u \in Procs \ {e} : Written(held[u])'
    BY <1>1, <1>6, <2>1 DEF Written
  <2>3. Written(held[e])'
    <3>1. newest'[e] = 0 /\ held'[e] = First(e)
      BY <1>1, <1>5, <1>7
    <3> QED BY <1>2, <3>1 DEF Written
  <2> QED BY <2>2, <2>3 DEF NotAhead
<1>9. SoleSaver'
  <2> SUFFICES ASSUME NEW u \in Fetchers, pc'[u] = "save"
               PROVE  /\ held'[u] # NoPair /\ held'[u].turn = newest[held'[u].family]
                      /\ stored # held'[u] /\ refresh # held'[u]
                      /\ \A v \in Procs \ {u} : held'[v] # held'[u]
    BY <1>1 DEF SoleSaver
  <2>1. u \in Procs \ {e} /\ pc[u] = "save" /\ held'[u] = held[u]
    BY <1>3, <1>6, ThreadNames
  <2>2. /\ held[u] # NoPair /\ held[u].turn = newest[held[u].family]
        /\ stored # held[u] /\ refresh # held[u]
        /\ \A v \in Procs \ {u} : held[v] # held[u]
    BY <2>1 DEF Inv, SoleSaver
  <2>3. held[u] # First(e)
    BY <1>2, <1>7, <2>1
  <2> QED BY <1>5, <1>6, <2>1, <2>2, <2>3
<1>10. LoginUnknown'
  <2> SUFFICES ASSUME NEW d \in Enrolments, pc'[d] \in {"not begun", "verified"}
               PROVE  /\ newest[d] = 0 /\ stored.family # d /\ refresh.family # d
                      /\ \A u \in Procs \ {d} : held'[u].family # d
                      /\ pc'[d] = "verified" => held'[d] = First(d)
    BY <1>1 DEF LoginUnknown, Unsaved
  <2>1. CASE d = e
    BY <1>5, <1>6, <1>7, <2>1
  <2>2. CASE d # e
    <3>1. pc[d] = pc'[d] /\ held'[d] = held[d]
      BY <1>6, <2>2, ThreadNames
    <3>2. /\ newest[d] = 0 /\ stored.family # d /\ refresh.family # d
          /\ \A u \in Procs \ {d} : held[u].family # d
          /\ pc[d] = "verified" => held[d] = First(d)
      BY <3>1 DEF Inv, LoginUnknown, Unsaved
    <3> QED BY <1>2, <1>5, <1>6, <2>2, <3>1, <3>2
  <2> QED BY <2>1, <2>2
<1>11. SeedUnknown'
  <2>1. ~ SeedPair(held'[e]) /\ pc'[Main] = pc[Main]
    BY <1>2, <1>3, <1>5, <1>6, ThreadNames DEF SeedPair
  <2> SUFFICES ASSUME stored = NoPair \/ pc[Main] = "seed"
               PROVE  /\ newest[Seed] = 0 /\ ~ SeedPair(refresh)
                      /\ \A u \in Procs : SeedPair(held'[u]) => u = Main /\ pc[Main] = "seed"
    BY <1>1, <2>1 DEF SeedUnknown, SeedPair
  <2>2. /\ newest[Seed] = 0 /\ ~ SeedPair(refresh)
        /\ \A u \in Procs : SeedPair(held[u]) => u = Main /\ pc[Main] = "seed"
    BY DEF Inv, SeedUnknown
  <2> QED BY <1>6, <2>1, <2>2
<1>12. OnlyMainSeeds' /\ NoFetchBefore'
  <2>1. pc'[Main] = pc[Main] /\ \A u \in Fetchers : pc'[u] = pc[u]
    BY <1>3, <1>6, ThreadNames
  <2>2. \A x \in Procs : pc'[x] = "seed" => x = Main /\ held'[x] = First(Seed)
    BY <1>5, <1>6 DEF Inv, OnlyMainSeeds
  <2> QED BY <1>1, <2>1, <2>2 DEF Inv, OnlyMainSeeds, NoFetchBefore
<1>13. StoreIsNewest'
  <2>1. \A u \in Fetchers : pc'[u] = pc[u] /\ held'[u] = held[u]
    BY <1>3, <1>6, ThreadNames
  <2> QED BY <1>1, <2>1 DEF Inv, StoreIsNewest
<1> QED BY <1>5, <1>8, <1>9, <1>10, <1>11, <1>12, <1>13 DEF Inv

LEMMA SaveEnrolledInv ==
  ASSUME Inv, NEW e \in Enrolments, SaveEnrolled(e), disturbed' \in BOOLEAN
  PROVE  Inv'
<1>1. /\ pc[e] = "verified" /\ stored' = held[e] /\ pending' = pending \cup {e}
      /\ pc' = [pc EXCEPT ![e] = "saved"] /\ held' = [held EXCEPT ![e] = NoPair]
      /\ UNCHANGED <<access, refresh, newest, lost, seeded, restarts>>
  BY DEF SaveEnrolled, Return, Goto, Hold, memory, world, server
<1>2. e \in Families /\ First(e) \in PairOrNone /\ First(e).family = e /\ First(e).turn = 0 /\ First(e) # NoPair
  BY FirstFacts, PairFacts DEF Families, PairOrNone
<1>3. e \in Procs /\ e # Main /\ e \notin Fetchers /\ e # Seed /\ "saved" \in StepsOf(e)
  BY ThreadNames, NamesAssumption DEF StepsOf, EnrolSteps
<1>4. TypeOK /\ NoPair \in PairOrNone /\ NoPair.family = Seed
  BY PairFacts DEF Inv
<1>5. /\ newest[e] = 0 /\ refresh.family # e /\ held[e] = First(e)
      /\ \A u \in Procs \ {e} : held[u].family # e
  BY <1>1 DEF Inv, LoginUnknown, Unsaved
<1>6. TypeOK' /\ OthersStay(e) /\ pc'[e] = "saved" /\ held'[e] = NoPair
  <2>1. {stored', access', refresh'} \subseteq PairOrNone
    BY <1>1, <1>2, <1>4, <1>5 DEF TypeOK
  <2>2. newest' \in [Families -> 0..MaxRotations] /\ lost' \subseteq Families /\ pending' \subseteq Enrolments
    BY <1>1, <1>4 DEF TypeOK
  <2> QED BY <1>1, <1>3, <1>4, <2>1, <2>2, TypedStep
<1>7. \A u \in Procs \ {e} : pc'[u] = pc[u] /\ held'[u] = held[u]
  BY <1>6 DEF OthersStay
<1>8. stored' = First(e)
  BY <1>1, <1>5
<1>9. NotAhead'
  <2>1. Written(refresh) /\ \A u \in Procs : Written(held[u])
    BY DEF Inv, NotAhead
  <2>2. Written(refresh)' /\ \A u \in Procs \ {e} : Written(held[u])'
    BY <1>1, <1>7, <2>1 DEF Written
  <2>3. Written(stored)'
    BY <1>1, <1>2, <1>5, <1>8 DEF Written
  <2>4. Written(held[e])'
    BY <1>6 DEF Written
  <2> QED BY <2>2, <2>3, <2>4 DEF NotAhead
<1>10. SoleSaver'
  <2> SUFFICES ASSUME NEW u \in Fetchers, pc'[u] = "save"
               PROVE  /\ held'[u] # NoPair /\ held'[u].turn = newest[held'[u].family]
                      /\ stored' # held'[u] /\ refresh # held'[u]
                      /\ \A v \in Procs \ {u} : held'[v] # held'[u]
    BY <1>1 DEF SoleSaver
  <2>1. u \in Procs \ {e} /\ pc[u] = "save" /\ held'[u] = held[u]
    BY <1>3, <1>7, ThreadNames
  <2>2. /\ held[u] # NoPair /\ held[u].turn = newest[held[u].family]
        /\ refresh # held[u] /\ \A v \in Procs \ {u} : held[v] # held[u]
    BY <2>1 DEF Inv, SoleSaver
  <2>3. held[u] # First(e)
    BY <1>2, <1>5, <2>1
  <2> QED BY <1>6, <1>7, <1>8, <2>1, <2>2, <2>3
<1>11. LoginUnknown'
  <2> SUFFICES ASSUME NEW d \in Enrolments, pc'[d] \in {"not begun", "verified"}
               PROVE  /\ newest[d] = 0 /\ stored'.family # d /\ refresh.family # d
                      /\ \A u \in Procs \ {d} : held'[u].family # d
                      /\ pc'[d] = "verified" => held'[d] = First(d)
    BY <1>1 DEF LoginUnknown, Unsaved
  <2>1. d # e /\ d # Seed
    BY <1>6, NamesAssumption
  <2>2. pc[d] = pc'[d] /\ held'[d] = held[d]
    BY <1>7, <2>1, ThreadNames
  <2>3. /\ newest[d] = 0 /\ refresh.family # d
        /\ \A u \in Procs \ {d} : held[u].family # d
        /\ pc[d] = "verified" => held[d] = First(d)
    BY <2>2 DEF Inv, LoginUnknown, Unsaved
  <2> QED BY <1>2, <1>4, <1>6, <1>7, <1>8, <2>1, <2>2, <2>3
<1>12. pc'[Main] = pc[Main] /\ \A u \in Fetchers : pc'[u] = pc[u] /\ held'[u] = held[u]
  BY <1>3, <1>7, ThreadNames
<1>13. SeedUnknown'
  <2> SUFFICES ASSUME pc[Main] = "seed"
               PROVE  /\ newest[Seed] = 0 /\ ~ SeedPair(refresh)
                      /\ \A u \in Procs : SeedPair(held'[u]) => u = Main /\ pc[Main] = "seed"
    BY <1>1, <1>2, <1>8, <1>12 DEF SeedUnknown, SeedPair
  <2>1. /\ newest[Seed] = 0 /\ ~ SeedPair(refresh)
        /\ \A u \in Procs : SeedPair(held[u]) => u = Main /\ pc[Main] = "seed"
    BY DEF Inv, SeedUnknown
  <2>2. ~ SeedPair(held'[e])
    BY <1>6 DEF SeedPair
  <2> QED BY <1>7, <2>1, <2>2
<1>14. OnlyMainSeeds' /\ NoFetchBefore'
  <2>1. \A x \in Procs : pc'[x] = "seed" => x = Main /\ held'[x] = First(Seed)
    BY <1>6, <1>7 DEF Inv, OnlyMainSeeds
  <2> QED BY <1>2, <1>8, <1>12, <2>1 DEF Inv, OnlyMainSeeds, NoFetchBefore
<1>15. StoreIsNewest'
  BY <1>1, <1>2, <1>5, <1>8 DEF StoreIsNewest
<1> QED BY <1>6, <1>9, <1>10, <1>11, <1>13, <1>14, <1>15 DEF Inv
-----------------------------------------------------------------------------
(* The start-up with the environment's pair, and a restart *)

LEMMA ResolveSeedInv ==
  ASSUME Inv, NEW x \in Procs \ Fetchers, Resolve(x), stored = NoPair, seeded = TRUE, disturbed' \in BOOLEAN
  PROVE  Inv'
<1>1. x = Main /\ pc[Main] = "start"
  BY DEF Resolve, Resolving, Inv, OnlyMainSeeds
<1>2. /\ pc' = [pc EXCEPT ![Main] = "seed"] /\ held' = [held EXCEPT ![Main] = First(Seed)]
      /\ UNCHANGED <<stored, access, refresh, newest, lost, seeded, restarts, pending>>
  BY <1>1 DEF Resolve, Goto, Hold, memory, world, server
<1>3. Seed \in Families /\ First(Seed) \in PairOrNone /\ First(Seed).family = Seed /\ First(Seed).turn = 0
  BY FirstFacts DEF Families, PairOrNone
<1>4. Main \in Procs /\ Main \notin Fetchers /\ Main \notin Enrolments /\ "seed" \in StepsOf(Main) /\ Seed \notin Enrolments
  BY ThreadNames, NamesAssumption DEF StepsOf, ResolveSteps
<1>5. TypeOK
  BY DEF Inv
<1>6. TypeOK' /\ OthersStay(Main) /\ pc'[Main] = "seed" /\ held'[Main] = First(Seed)
  BY <1>2, <1>3, <1>4, <1>5, TypedStep DEF TypeOK
<1>7. \A u \in Procs \ {Main} : pc'[u] = pc[u] /\ held'[u] = held[u]
  BY <1>6 DEF OthersStay
<1>8. newest[Seed] = 0 /\ ~ SeedPair(refresh) /\ \A u \in Procs : ~ SeedPair(held[u])
  BY <1>1 DEF Inv, SeedUnknown
<1>9. \A t \in Fetchers : pc'[t] = "idle"
  BY <1>1, <1>4, <1>7, ThreadNames DEF Inv, NoFetchBefore
<1>10. NotAhead'
  <2>1. Written(stored) /\ Written(refresh) /\ \A u \in Procs : Written(held[u])
    BY DEF Inv, NotAhead
  <2>2. newest' = newest /\ stored' = stored /\ refresh' = refresh
    BY <1>2
  <2>3. Written(stored)' /\ Written(refresh)' /\ \A u \in Procs \ {Main} : Written(held[u])'
    BY <1>7, <2>1, <2>2 DEF Written
  <2>4. Written(held[Main])'
    BY <1>3, <1>6, <1>8, <2>2 DEF Written
  <2> QED BY <2>3, <2>4 DEF NotAhead
<1>11. SoleSaver' /\ NoFetchBefore'
  BY <1>9 DEF SoleSaver, NoFetchBefore
<1>12. LoginUnknown'
  <2> SUFFICES ASSUME NEW e \in Enrolments, pc'[e] \in {"not begun", "verified"}
               PROVE  /\ newest[e] = 0 /\ stored.family # e /\ refresh.family # e
                      /\ \A u \in Procs \ {e} : held'[u].family # e
                      /\ pc'[e] = "verified" => held'[e] = First(e)
    BY <1>2 DEF LoginUnknown, Unsaved
  <2>1. e # Main /\ e # Seed /\ pc[e] = pc'[e] /\ held'[e] = held[e]
    BY <1>4, <1>7, ThreadNames
  <2>2. /\ newest[e] = 0 /\ stored.family # e /\ refresh.family # e
        /\ \A u \in Procs \ {e} : held[u].family # e
        /\ pc[e] = "verified" => held[e] = First(e)
    BY <2>1 DEF Inv, LoginUnknown, Unsaved
  <2> QED BY <1>3, <1>6, <1>7, <2>1, <2>2
<1>13. SeedUnknown'
  <2>1. \A u \in Procs : SeedPair(held'[u]) => u = Main
    BY <1>7, <1>8 DEF SeedPair
  <2> QED BY <1>2, <1>6, <1>8, <2>1 DEF SeedUnknown, SeedPair
<1>14. OnlyMainSeeds'
  <2>1. \A y \in Procs : pc'[y] = "seed" => y = Main
    BY <1>7 DEF Inv, OnlyMainSeeds
  <2> QED BY <1>6, <2>1 DEF OnlyMainSeeds
<1>15. StoreIsNewest'
  BY <1>2 DEF StoreIsNewest
<1> QED BY <1>6, <1>10, <1>11, <1>12, <1>13, <1>14, <1>15 DEF Inv

LEMMA SaveSeedInv ==
  ASSUME Inv, NEW x \in Procs \ Fetchers, SaveSeed(x), disturbed' \in BOOLEAN
  PROVE  Inv'
<1>1. x = Main /\ pc[Main] = "seed" /\ held[Main] = First(Seed)
  BY DEF SaveSeed, Inv, OnlyMainSeeds
<1>2. /\ stored' = First(Seed) /\ pc' = [pc EXCEPT ![Main] = "install access"]
      /\ UNCHANGED <<access, refresh, newest, lost, seeded, restarts, pending, held>>
  BY <1>1 DEF SaveSeed, Goto, memory, world, server
<1>3. /\ Seed \in Families /\ First(Seed) \in PairOrNone /\ First(Seed).family = Seed
      /\ First(Seed).turn = 0 /\ First(Seed) # NoPair
  BY FirstFacts, PairFacts DEF Families, PairOrNone
<1>4. /\ Main \in Procs /\ Main \notin Fetchers /\ Main \notin Enrolments
      /\ "install access" \in StepsOf(Main) /\ Seed \notin Enrolments
  BY ThreadNames, NamesAssumption DEF StepsOf, ResolveSteps
<1>5. TypeOK
  BY DEF Inv
<1>6. TypeOK' /\ OthersStay(Main) /\ pc'[Main] = "install access" /\ held' = held
  <2>1. held' = [held EXCEPT ![Main] = held[Main]] /\ held[Main] \in PairOrNone
    BY <1>2, <1>4, <1>5 DEF TypeOK
  <2>2. {stored', access', refresh'} \subseteq PairOrNone
    BY <1>2, <1>3, <1>5 DEF TypeOK
  <2> QED BY <1>2, <1>4, <1>5, <2>1, <2>2, TypedStep DEF TypeOK
<1>7. \A u \in Procs \ {Main} : pc'[u] = pc[u]
  BY <1>6 DEF OthersStay
<1>8. newest[Seed] = 0 /\ newest' = newest /\ refresh' = refresh
  BY <1>1, <1>2 DEF Inv, SeedUnknown
<1>9. \A t \in Fetchers : pc'[t] = "idle"
  BY <1>1, <1>4, <1>7, ThreadNames DEF Inv, NoFetchBefore
<1>10. NotAhead'
  <2>1. Written(refresh) /\ \A u \in Procs : Written(held[u])
    BY DEF Inv, NotAhead
  <2>2. Written(refresh)' /\ \A u \in Procs : Written(held[u])'
    BY <1>6, <1>8, <2>1 DEF Written
  <2>3. Written(stored)'
    <3>1. newest'[Seed] = 0 /\ stored' = First(Seed)
      BY <1>2, <1>8
    <3> QED BY <1>3, <3>1 DEF Written
  <2> QED BY <2>2, <2>3 DEF NotAhead
<1>11. SoleSaver' /\ NoFetchBefore'
  BY <1>9 DEF SoleSaver, NoFetchBefore
<1>12. LoginUnknown'
  <2> SUFFICES ASSUME NEW e \in Enrolments, pc'[e] \in {"not begun", "verified"}
               PROVE  /\ newest[e] = 0 /\ stored'.family # e /\ refresh.family # e
                      /\ \A u \in Procs \ {e} : held[u].family # e
                      /\ pc'[e] = "verified" => held[e] = First(e)
    BY <1>6, <1>8 DEF LoginUnknown, Unsaved
  <2>1. e # Main /\ e # Seed /\ pc[e] = pc'[e]
    BY <1>4, <1>7, ThreadNames
  <2>2. /\ newest[e] = 0 /\ refresh.family # e
        /\ \A u \in Procs \ {e} : held[u].family # e
        /\ pc[e] = "verified" => held[e] = First(e)
    BY <2>1 DEF Inv, LoginUnknown, Unsaved
  <2> QED BY <1>2, <1>3, <2>1, <2>2
<1>13. SeedUnknown'
  BY <1>2, <1>3, <1>6 DEF SeedUnknown
<1>14. OnlyMainSeeds'
  <2>1. \A y \in Procs : pc'[y] # "seed"
    BY <1>6, <1>7 DEF Inv, OnlyMainSeeds
  <2> QED BY <1>2, <1>3, <2>1 DEF OnlyMainSeeds
<1>15. StoreIsNewest'
  BY <1>2, <1>3, <1>8 DEF StoreIsNewest
<1> QED BY <1>6, <1>10, <1>11, <1>12, <1>13, <1>14, <1>15 DEF Inv

LEMMA RestartInv ==
  ASSUME Inv, Restart, disturbed' = FALSE
  PROVE  Inv'
<1>1. /\ stored' = stored /\ newest' = newest /\ refresh' = NoPair /\ access' = NoPair
      /\ held' = [t \in Procs |-> NoPair] /\ pending' = {} /\ seeded' \in BOOLEAN
      /\ restarts < MaxRestarts /\ restarts' = restarts + 1
      /\ lost' = lost \cup {held[t].family : t \in {u \in Fetchers : pc[u] = "save"}}
  BY DEF Restart
<1>2. TypeOK /\ NoPair \in PairOrNone /\ NoPair.family = Seed /\ Seed \notin Enrolments
  BY PairFacts, NamesAssumption DEF Inv
<1>3. \A t \in Procs : pc'[t] = IF t \in Enrolments /\ pc[t] # "not begun" THEN "done" ELSE AtFirst(t)
  BY DEF Restart
<1>4. /\ pc'[Main] = "start" /\ Main \in Procs
      /\ \A t \in Fetchers : t \in Procs /\ pc'[t] = "idle"
      /\ \A r \in Reloaders : pc'[r] = "idle"
      /\ \A e \in Enrolments : pc'[e] \in {"done", "not begun"} /\ (pc'[e] = "not begun" => pc[e] = "not begun")
  BY <1>3, ThreadNames DEF AtFirst
<1>5. \A t \in Procs : pc'[t] # "seed" /\ held'[t] = NoPair
  BY <1>1, <1>3 DEF AtFirst
<1>6. TypeOK'
  <2>1. pc' \in [Procs -> FetchSteps \cup EnrolSteps \cup {"start", "running"} \cup ResolveSteps]
    BY <1>2 DEF Restart, AtFirst, TypeOK, FetchSteps, EnrolSteps
  <2>2. lost' \subseteq Families
    <3>1. \A t \in Fetchers : held[t] \in PairOrNone
      BY <1>2, ThreadNames DEF TypeOK
    <3>2. \A t \in Fetchers : held[t].family \in Families
      BY <3>1, PairFacts
    <3> QED BY <1>1, <1>2, <3>2 DEF TypeOK
  <2>3. restarts' \in 0..MaxRestarts
    <3>1. restarts \in 0..MaxRestarts /\ MaxRestarts \in Nat
      BY <1>2, NamesAssumption DEF TypeOK
    <3> QED BY <1>1, <3>1
  <2>4. /\ \A t \in Fetchers : pc'[t] \in FetchSteps
        /\ \A e \in Enrolments : pc'[e] \in EnrolSteps \cup ResolveSteps
        /\ \A q \in Reloaders : pc'[q] \in {"idle"} \cup ResolveSteps
        /\ pc'[Main] \in {"start", "running"} \cup ResolveSteps
    BY <1>4 DEF FetchSteps, EnrolSteps
  <2>5. /\ {stored', access', refresh'} \subseteq PairOrNone /\ newest' \in [Families -> 0..MaxRotations]
        /\ held' \in [Procs -> PairOrNone]
    BY <1>1, <1>2 DEF TypeOK
  <2>6. pending' \subseteq Enrolments /\ disturbed' \in BOOLEAN /\ seeded' \in BOOLEAN
    BY <1>1
  <2> QED BY <2>1, <2>2, <2>3, <2>4, <2>5, <2>6 DEF TypeOK
<1>7. NotAhead'
  BY <1>1, <1>5 DEF Inv, NotAhead, Written
<1>8. SoleSaver' /\ NoFetchBefore'
  BY <1>4 DEF SoleSaver, NoFetchBefore
<1>9. LoginUnknown'
  BY <1>1, <1>2, <1>4, <1>5 DEF Inv, LoginUnknown, Unsaved
<1>10. SeedUnknown'
  <2>1. ~ SeedPair(NoPair)
    BY DEF SeedPair
  <2> QED BY <1>1, <1>4, <1>5, <2>1 DEF Inv, SeedUnknown, SeedPair
<1>11. OnlyMainSeeds'
  BY <1>4, <1>5 DEF OnlyMainSeeds
<1>12. StoreIsNewest'
  <2> SUFFICES ASSUME stored # NoPair, stored.family \notin lost'
               PROVE  stored.turn = newest[stored.family]
    BY <1>1 DEF StoreIsNewest
  <2>1. \/ stored.turn = newest[stored.family]
        \/ \E u \in Fetchers : pc[u] = "save" /\ held[u] = [stored EXCEPT !.turn = newest[stored.family]]
    BY <1>1 DEF Inv, StoreIsNewest
  <2>2. stored \in Pairs
    BY <1>2, PairFacts DEF TypeOK
  <2>3. \A u \in Fetchers : pc[u] = "save" => held[u].family # stored.family
    BY <1>1
  <2> QED BY <2>1, <2>2, <2>3 DEF Pairs
<1> QED BY <1>6, <1>7, <1>8, <1>9, <1>10, <1>11, <1>12 DEF Inv

-----------------------------------------------------------------------------
(* Results *)

LEMMA InvStep == Inv /\ [Next]_vars => Inv'
<1> SUFFICES ASSUME Inv, [Next]_vars PROVE Inv'
  OBVIOUS
<1>1. CASE Step /\ disturbed' = (disturbed \/ Overlap' \/ Half)
  <2>1. disturbed' \in BOOLEAN
    BY <1>1
  <2>2. ASSUME NEW t \in Fetchers, FetchStep(t) PROVE Inv'
    <3>1. CASE Rotate(t)
      BY <2>1, <3>1, RotateInv
    <3>2. CASE SaveRotated(t) \/ SaveRotatedFails(t)
      BY <2>1, <3>2, SaveRotatedInv
    <3>3. CASE FetchRejected(t) \/ ReadRefreshToken(t) \/ RefreshFails(t) \/ AssignAccess(t) \/ AssignRefresh(t)
      BY <2>1, <3>3, FetchCopies, CopiesInv, ThreadNames
    <3> QED BY <2>2, <3>1, <3>2, <3>3 DEF FetchStep
  <2>3. ASSUME NEW e \in Enrolments, SignIn(e) \/ SaveEnrolled(e) PROVE Inv'
    BY <2>1, <2>3, SignInInv, SaveEnrolledInv
  <2>4. ASSUME NEW x \in Procs \ Fetchers, InstallStep(x) PROVE Inv'
    <3>1. CASE SaveSeed(x)
      BY <2>1, <3>1, SaveSeedInv
    <3>2. CASE Resolve(x) /\ stored = NoPair /\ seeded = TRUE
      BY <2>1, <3>2, ResolveSeedInv
    <3>3. CASE \/ Resolve(x) /\ ~ (stored = NoPair /\ seeded = TRUE)
               \/ ReloadFails(x) \/ InstallAccess(x) \/ InstallRefresh(x)
      BY <2>1, <3>3, InstallCopies, CopiesInv
    <3> QED BY <2>4, <3>1, <3>2, <3>3 DEF InstallStep
  <2> QED BY <1>1, <2>2, <2>3, <2>4 DEF Step
<1>2. CASE Restart /\ disturbed' = FALSE
  BY <1>2, RestartInv
<1>3. CASE UNCHANGED vars
  BY <1>3 DEF vars, memory, world, server, Inv, TypeOK, NotAhead, Written, SoleSaver, LoginUnknown, Unsaved,
              SeedUnknown, SeedPair, OnlyMainSeeds, NoFetchBefore, StoreIsNewest
<1> QED BY <1>1, <1>2, <1>3 DEF Next

\* The invariant holds in every state.
THEOREM InvHolds == Spec => []Inv
  BY InitInv, InvStep, PTL DEF Spec

\* The state always has its types, and each thread is at a step of its own call.
THEOREM TokensTypeCorrect == Spec => []TypeOK
<1>1. Inv => TypeOK
  BY DEF Inv
<1> QED BY <1>1, InvHolds, PTL

\* However refreshes, enrolments, reloads and restarts interleave, the stored pair
\* is the newest of its family, unless that one is being saved or was lost.
THEOREM StoredIsNewest == Spec => []StoreIsNewest
<1>1. Inv => StoreIsNewest
  BY DEF Inv
<1> QED BY <1>1, InvHolds, PTL

-----------------------------------------------------------------------------
(* As long as no two changes overlap: memory follows the store *)

\* Who installs a pair installs the stored one, and a start-up that is about to
\* save the environment's pair overwrites nothing.
HandsOverStored ==
  \A x \in Procs :
    /\ pc[x] \in {"install access", "install refresh"} => held[x] = stored
    /\ pc[x] = "install refresh" => access = stored
    /\ pc[x] = "seed" => stored = NoPair

\* One rotation at a time: refreshes descend from the refresh token in memory, and
\* until that one is replaced by the pair of a rotation, it is spent for all the
\* others, which hold it or an older one.
Rotated(t) == pc[t] \in {"save", "set access", "set refresh"}
OneRotation ==
  /\ \A t \in Fetchers : Refreshing(t) =>
       held[t] # NoPair /\ refresh # NoPair /\ held[t].family = refresh.family
  /\ \A t \in Fetchers : Rotated(t) =>
       /\ held[t].turn = newest[held[t].family]
       /\ refresh.turn < newest[refresh.family]
       /\ \A u \in Fetchers \ {t} : Refreshing(u) =>
            pc[u] = "request" /\ held[u].turn < newest[held[u].family]

\* The two halves in memory are the stored pair, or a fetch is assigning it.
Assigning(t) == pc[t] \in {"set access", "set refresh"}
TwoHalves ==
  HandingOver = {} /\ pc[Main] = "running" =>
    /\ (\A t \in Fetchers : ~ Assigning(t)) => access = stored /\ refresh = stored
    /\ \A t \in Fetchers : /\ Assigning(t) => held[t] = stored
                           /\ pc[t] = "set refresh" => access = stored

Calm == ~ Overlap /\ HandsOverStored /\ OneRotation /\ TwoHalves
CalmInv == disturbed = FALSE => Calm

LEMMA InitCalm == Init => CalmInv
<1> SUFFICES ASSUME Init PROVE Calm
  BY DEF CalmInv
<1>1. /\ \A t \in Procs : pc[t] \in {"start", "not begun", "idle"}
      /\ pc[Main] = "start" /\ pending = {}
  BY NamesAssumption, ThreadNames DEF Init, AtFirst
<1>2. HandingOver = {}
  BY <1>1 DEF HandingOver, Installing
<1>3. ~ Overlap
  BY <1>2 DEF Overlap
<1> QED BY <1>1, <1>3, ThreadNames
        DEF Calm, HandsOverStored, OneRotation, TwoHalves, Refreshing, Rotated

\* While a fetch refreshes nothing is being handed over.
LEMMA NothingHandedOver ==
  ASSUME ~ Overlap, NEW t \in Fetchers, Refreshing(t)
  PROVE  HandingOver = {} /\ \A x \in Procs : ~ Installing(x)
  BY DEF Overlap, HandingOver

\* The numbers behind the pairs.
LEMMA Turns ==
  ASSUME TypeOK
  PROVE  /\ \A f \in Families : newest[f] \in Nat
         /\ \A t \in Procs : held[t].turn \in Nat /\ held[t].family \in Families
         /\ refresh.turn \in Nat /\ refresh.family \in Families
<1>1. MaxRotations \in Nat
  BY NamesAssumption
<1>2. \A p \in PairOrNone : p.turn \in Nat /\ p.family \in Families
  BY <1>1, PairFacts
<1>3. \A f \in Families : newest[f] \in Nat
  BY <1>1 DEF TypeOK
<1> QED BY <1>2, <1>3 DEF TypeOK

\* Around a step of a fetching thread.
LEMMA FetchFrame ==
  ASSUME Inv, ~ Overlap, NEW t \in Fetchers, FetchStep(t)
  PROVE  /\ OthersStay(t) /\ t \in Procs /\ pc'[t] \in FetchSteps
         /\ \A u \in Fetchers : u \in Procs
         /\ HandingOver' = HandingOver
         /\ pc[Main] = "running" /\ pc'[Main] = "running"
<1>1. DOMAIN pc = Procs /\ DOMAIN held = Procs /\ pc[t] \in FetchSteps
  BY DEF Inv, TypeOK
<1>2. t \in Procs /\ t # Main /\ \A u \in Fetchers : u \in Procs
  BY ThreadNames
<1>3. OthersStay(t) /\ pc'[t] \in FetchSteps
  BY <1>1, <1>2 DEF FetchStep, FetchRejected, ReadRefreshToken, Rotate, RefreshFails, SaveRotated,
     SaveRotatedFails, AssignAccess, AssignRefresh, Goto, Hold, Return, OthersStay, FetchSteps
<1>4. pending' = pending
  BY DEF FetchStep, FetchRejected, ReadRefreshToken, Rotate, RefreshFails, SaveRotated,
     SaveRotatedFails, AssignAccess, AssignRefresh
<1>5. \A x \in Procs : Installing(x)' <=> Installing(x)
  BY <1>1, <1>2, <1>3 DEF OthersStay, Installing, FetchSteps
<1>6. HandingOver' = HandingOver
  BY <1>4, <1>5 DEF HandingOver
<1>7. pc[Main] = "running"
  BY Running DEF FetchStep, FetchRejected, ReadRefreshToken, Rotate, RefreshFails, SaveRotated,
     SaveRotatedFails, AssignAccess, AssignRefresh
<1> QED BY <1>2, <1>3, <1>6, <1>7, ThreadNames DEF OthersStay

\* A step of a fetching thread that is not a half failure of its save.
LEMMA FetchCalm ==
  ASSUME Inv, Calm, NEW t \in Fetchers, FetchStep(t), ~ Half
  PROVE  /\ Calm' \/ Overlap'
         /\ stored # NoPair => stored'.family = stored.family
<1>1. TypeOK /\ ~ Overlap /\ HandsOverStored /\ OneRotation /\ TwoHalves /\ NotAhead
  BY DEF Inv, Calm
<1>2. /\ DOMAIN pc = Procs /\ DOMAIN held = Procs /\ newest \in [Families -> 0..MaxRotations]
      /\ Families = Enrolments \cup {Seed}
  BY <1>1 DEF TypeOK, Families
<1>3. /\ OthersStay(t) /\ t \in Procs /\ HandingOver' = HandingOver
      /\ pc[Main] = "running" /\ pc'[Main] = "running" /\ pc'[t] \in FetchSteps
      /\ \A u \in Fetchers : u \in Procs
  BY <1>1, FetchFrame
<1>4. \A u \in Procs : u # t => pc'[u] = pc[u] /\ held'[u] = held[u]
  BY <1>3 DEF OthersStay
<1>5. /\ \A f \in Families : newest[f] \in Nat
      /\ \A u \in Procs : held[u].turn \in Nat /\ held[u].family \in Families
      /\ refresh.turn \in Nat /\ refresh.family \in Families
  BY <1>1, Turns
<1>6. ASSUME Refreshing(t) PROVE HandingOver = {} /\ \A x \in Procs : ~ Installing(x)
  BY <1>1, <1>6, NothingHandedOver
\* Nothing is handed over as long as the thread leaves the store and memory alone.
<1>7. ASSUME Refreshing(t) \/ UNCHANGED <<stored, access>> PROVE HandsOverStored'
  <2>1. CASE Refreshing(t)
    <3>1. \A x \in Procs : x # t => ~ Installing(x)'
      BY <1>4, <1>6, <2>1 DEF Installing
    <3> QED BY <1>3, <3>1 DEF HandsOverStored, Installing, FetchSteps
  <2>2. CASE UNCHANGED <<stored, access>>
    BY <1>1, <1>3, <1>4, <2>2 DEF HandsOverStored, FetchSteps
  <2> QED BY <1>7, <2>1, <2>2
<1>8. ASSUME HandsOverStored', OneRotation', TwoHalves' PROVE Calm' \/ Overlap'
  BY <1>8 DEF Calm
\* The thread has not read a token, or gives its pair up.
<1>9. ASSUME UNCHANGED <<stored, memory, newest>>, ~ Refreshing(t)', ~ Assigning(t)
      PROVE  (Calm' /\ stored' = stored) \/ Overlap'
  <2>1. HandsOverStored'
    BY <1>7, <1>9 DEF memory
  <2>2. pc'[t] \notin {"request", "save", "set access", "set refresh"}
    BY <1>9 DEF Refreshing
  <2>3. OneRotation'
    BY <1>1, <1>3, <1>4, <1>9, <2>2 DEF OneRotation, Rotated, Refreshing, memory
  <2>4. TwoHalves'
    BY <1>1, <1>3, <1>4, <1>9, <2>2 DEF TwoHalves, Assigning, memory
  <2> QED BY <1>8, <1>9, <2>1, <2>3, <2>4
<1>10. CASE FetchRejected(t) \/ RefreshFails(t)
  <2>1. pc'[t] \in {"rejected", "idle"} /\ pc[t] \in {"idle", "request"}
    BY <1>2, <1>3, <1>10 DEF FetchRejected, RefreshFails, Return, Goto
  <2>2. UNCHANGED <<stored, memory, newest>>
    BY <1>10 DEF FetchRejected, RefreshFails, world
  <2> QED BY <1>9, <2>1, <2>2 DEF Refreshing, Assigning
<1>11. CASE ReadRefreshToken(t)
  <2>1. UNCHANGED <<stored, memory, newest>> /\ pc[t] = "rejected"
    BY <1>11 DEF ReadRefreshToken, world
  <2>2. CASE refresh = NoPair
    <3>1. pc'[t] = "idle"
      BY <1>2, <1>3, <1>11, <2>2 DEF ReadRefreshToken, Return, Goto
    <3> QED BY <1>9, <2>1, <3>1 DEF Refreshing, Assigning
  <2>3. CASE refresh # NoPair
    <3>1. pc'[t] = "request" /\ held'[t] = refresh
      BY <1>2, <1>3, <1>11, <2>3 DEF ReadRefreshToken, Goto, Hold
    <3>2. HandsOverStored'
      BY <1>7, <2>1 DEF memory
    <3>3. OneRotation'
      <4>1. \A u \in Fetchers : Refreshing(u)' =>
              held'[u] # NoPair /\ refresh # NoPair /\ held'[u].family = refresh.family
        BY <1>1, <1>3, <1>4, <2>3, <3>1 DEF OneRotation, Refreshing
      <4>2. ASSUME NEW u \in Fetchers, Rotated(u)'
            PROVE  /\ held'[u].turn = newest[held'[u].family]
                   /\ refresh.turn < newest[refresh.family]
                   /\ \A v \in Fetchers \ {u} : Refreshing(v)' =>
                        pc'[v] = "request" /\ held'[v].turn < newest[held'[v].family]
        <5>1. u # t /\ Rotated(u) /\ held'[u] = held[u]
          BY <1>3, <1>4, <3>1, <4>2 DEF Rotated
        <5>2. /\ held[u].turn = newest[held[u].family] /\ refresh.turn < newest[refresh.family]
              /\ \A v \in Fetchers \ {u} : Refreshing(v) =>
                   pc[v] = "request" /\ held[v].turn < newest[held[v].family]
          BY <1>1, <5>1 DEF OneRotation
        <5> QED BY <1>3, <1>4, <3>1, <5>1, <5>2 DEF Refreshing
      <4> QED BY <2>1, <4>1, <4>2 DEF OneRotation, memory
    <3>4. TwoHalves'
      BY <1>1, <1>3, <1>4, <2>1, <3>1 DEF TwoHalves, Assigning, memory
    <3> QED BY <1>8, <2>1, <3>2, <3>3, <3>4
  <2> QED BY <2>2, <2>3
<1>12. CASE Rotate(t)
  <2> DEFINE f == held[t].family
  <2>1. /\ UNCHANGED <<stored, memory>> /\ pc[t] = "request" /\ held[t].turn = newest[f]
        /\ newest' = [newest EXCEPT ![f] = newest[f] + 1] /\ f \in Families
    BY <1>3, <1>5, <1>12 DEF Rotate
  <2>2. newest'[f] = newest[f] + 1 /\ \A g \in Families \ {f} : newest'[g] = newest[g]
    BY <1>2, <2>1
  <2>3. \/ /\ pc'[t] = "save" /\ held'[t] # NoPair
           /\ held'[t].family = f /\ held'[t].turn = newest[f] + 1
        \/ pc'[t] = "idle"
    <3>1. \/ Hold(t, [family |-> f, turn |-> newest[f] + 1]) /\ Goto(t, "save")
          \/ Return(t, "idle")
      BY <1>12 DEF Rotate
    <3>2. CASE Hold(t, [family |-> f, turn |-> newest[f] + 1]) /\ Goto(t, "save")
      <4>1. /\ pc'[t] = "save"
            /\ held'[t].family = f /\ held'[t].turn = newest[f] + 1
        BY <1>2, <1>3, <3>2 DEF Hold, Goto
      <4>2. newest[f] < MaxRotations /\ newest[f] \in Nat /\ MaxRotations \in Nat
        BY <1>5, <1>12, <2>1, NamesAssumption DEF Rotate
      <4>3. NoPair.turn = MaxRotations + 1
        BY DEF NoPair
      <4> QED BY <4>1, <4>2, <4>3
    <3>3. CASE Return(t, "idle")
      BY <1>2, <1>3, <3>3 DEF Return, Goto
    <3> QED BY <3>1, <3>2, <3>3
  <2>4. f = refresh.family
    BY <1>1, <2>1 DEF OneRotation, Refreshing
  \* Its token was the newest: no other rotation is on its way.
  <2>5. \A u \in Fetchers : ~ Rotated(u)
    <3> SUFFICES ASSUME NEW u \in Fetchers, Rotated(u) PROVE FALSE
      OBVIOUS
    <3>1. u # t /\ Refreshing(t)
      BY <2>1 DEF Rotated, Refreshing
    <3>2. held[t].turn < newest[f]
      BY <1>1, <3>1 DEF OneRotation
    <3> QED BY <1>3, <1>5, <2>1, <3>2
  <2>6. /\ refresh # NoPair /\ refresh.turn <= newest[f]
        /\ \A u \in Fetchers : Refreshing(u) => held[u].family = f /\ held[u].turn <= newest[f]
    <3>1. /\ refresh # NoPair
          /\ \A u \in Fetchers : Refreshing(u) => held[u] # NoPair /\ held[u].family = f
      BY <1>1, <2>1, <2>4 DEF OneRotation, Refreshing
    <3> QED BY <1>1, <1>3, <2>4, <3>1 DEF NotAhead, Written
  <2>7. HandsOverStored'
    BY <1>7, <2>1 DEF Refreshing
  <2>8. TwoHalves'
    BY <1>1, <1>3, <1>4, <2>1, <2>3 DEF TwoHalves, Assigning, memory
  <2>9. \A u \in Fetchers \ {t} : Refreshing(u)' =>
          /\ pc'[u] = "request" /\ held'[u] = held[u]
          /\ held[u] # NoPair /\ held[u].family = f /\ held[u].turn < newest[f] + 1
    <3> SUFFICES ASSUME NEW u \in Fetchers \ {t}, Refreshing(u)'
                 PROVE  /\ pc'[u] = "request" /\ held'[u] = held[u]
                        /\ held[u] # NoPair /\ held[u].family = f /\ held[u].turn < newest[f] + 1
      OBVIOUS
    <3>1. pc'[u] = pc[u] /\ held'[u] = held[u] /\ Refreshing(u)
      BY <1>3, <1>4 DEF Refreshing
    <3>2. pc[u] = "request"
      BY <2>5, <3>1 DEF Refreshing, Rotated
    <3>3. held[u] # NoPair
      BY <1>1, <3>1 DEF OneRotation
    <3> QED BY <1>3, <1>5, <2>1, <2>6, <3>1, <3>2, <3>3
  <2>10. OneRotation'
    <3>1. \A u \in Fetchers : Refreshing(u)' =>
            held'[u] # NoPair /\ refresh # NoPair /\ held'[u].family = refresh.family
      <4>1. CASE pc'[t] = "idle"
        BY <2>4, <2>6, <2>9, <4>1 DEF Refreshing
      <4>2. CASE pc'[t] = "save"
        BY <2>3, <2>4, <2>6, <2>9, <4>2
      <4> QED BY <2>3, <4>1, <4>2
    <3>2. ASSUME NEW u \in Fetchers, Rotated(u)'
          PROVE  /\ held'[u].turn = newest'[held'[u].family]
                 /\ refresh.turn < newest'[refresh.family]
                 /\ \A v \in Fetchers \ {u} : Refreshing(v)' =>
                      pc'[v] = "request" /\ held'[v].turn < newest'[held'[v].family]
      <4>1. u = t
        BY <1>3, <1>4, <2>5, <3>2 DEF Rotated
      <4>2. pc'[t] = "save" /\ held'[t].family = f /\ held'[t].turn = newest[f] + 1
        BY <2>3, <3>2, <4>1 DEF Rotated
      <4>3. refresh.turn < newest[f] + 1
        BY <1>5, <2>1, <2>6
      <4> QED BY <2>2, <2>4, <2>9, <4>1, <4>2, <4>3
    <3> QED BY <2>1, <3>1, <3>2 DEF OneRotation, memory
  <2> QED BY <1>8, <2>1, <2>7, <2>8, <2>10
<1>13. CASE SaveRotated(t)
  <2>1. /\ UNCHANGED <<memory, newest>> /\ pc[t] = "save" /\ stored' = held[t]
        /\ pc'[t] = "set access" /\ held'[t] = held[t]
    BY <1>2, <1>3, <1>13 DEF SaveRotated, Goto, world
  <2>2. Refreshing(t) /\ Rotated(t)
    BY <2>1 DEF Refreshing, Rotated
  <2>3. \A u \in Fetchers \ {t} : Refreshing(u) => pc[u] = "request"
    BY <1>1, <2>2 DEF OneRotation
  <2>4. \A u \in Fetchers : ~ Assigning(u)
    BY <2>1, <2>3 DEF Assigning, Refreshing
  <2>5. refresh = stored /\ held[t].family = refresh.family
    BY <1>1, <1>3, <1>6, <2>2, <2>4 DEF TwoHalves, OneRotation
  <2>6. HandsOverStored'
    BY <1>7, <2>2
  <2>7. OneRotation'
    <3>1. \A u \in Fetchers : /\ held'[u] = held[u] /\ (Refreshing(u)' <=> Refreshing(u))
                              /\ (Rotated(u)' <=> Rotated(u)) /\ (u # t => pc'[u] = pc[u])
      BY <1>3, <1>4, <2>1 DEF Refreshing, Rotated
    <3>2. ASSUME NEW u \in Fetchers, Rotated(u) PROVE u = t
      <4>1. Refreshing(u) /\ pc[u] # "request"
        BY <3>2 DEF Refreshing, Rotated
      <4> QED BY <2>3, <4>1
    <3> QED BY <1>1, <2>1, <3>1, <3>2 DEF OneRotation, memory
  <2>8. TwoHalves'
    <3>1. \A u \in Fetchers : u # t => ~ Assigning(u)'
      BY <1>3, <1>4, <2>4 DEF Assigning
    <3> QED BY <2>1, <3>1 DEF TwoHalves, Assigning
  <2> QED BY <1>8, <2>1, <2>5, <2>6, <2>7, <2>8
<1>14. CASE SaveRotatedFails(t)
  <2>1. UNCHANGED <<memory, newest>> /\ pc[t] = "save" /\ pc'[t] = "idle"
    BY <1>2, <1>3, <1>14 DEF SaveRotatedFails, Return, Goto
  <2>2. stored' # held[t]
    BY <2>1 DEF Half
  <2>3. stored' = stored
    BY <1>14, <2>2 DEF SaveRotatedFails
  <2> QED BY <1>9, <2>1, <2>3 DEF Refreshing, Assigning
<1>15. CASE AssignAccess(t)
  <2>1. /\ UNCHANGED <<stored, refresh, newest>> /\ pc[t] = "set access" /\ access' = held[t]
        /\ pc'[t] = "set refresh" /\ held'[t] = held[t]
    BY <1>2, <1>3, <1>15 DEF AssignAccess, Goto, world
  <2>2. Refreshing(t) /\ Rotated(t) /\ Assigning(t)
    BY <2>1 DEF Refreshing, Rotated, Assigning
  <2>3. \A u \in Fetchers \ {t} : Refreshing(u) => pc[u] = "request"
    BY <1>1, <2>2 DEF OneRotation
  <2>4. held[t] = stored
    BY <1>1, <1>3, <1>6, <2>2 DEF TwoHalves
  <2>5. HandsOverStored'
    BY <1>7, <2>2
  <2>6. OneRotation'
    <3>1. \A u \in Fetchers : /\ held'[u] = held[u] /\ (Refreshing(u)' <=> Refreshing(u))
                              /\ (Rotated(u)' <=> Rotated(u)) /\ (u # t => pc'[u] = pc[u])
      BY <1>3, <1>4, <2>1 DEF Refreshing, Rotated
    <3>2. ASSUME NEW u \in Fetchers, Rotated(u) PROVE u = t
      <4>1. Refreshing(u) /\ pc[u] # "request"
        BY <3>2 DEF Refreshing, Rotated
      <4> QED BY <2>3, <4>1
    <3> QED BY <1>1, <2>1, <3>1, <3>2 DEF OneRotation, memory
  <2>7. TwoHalves'
    <3>1. \A u \in Fetchers : u # t => ~ Assigning(u)'
      BY <1>3, <1>4, <2>3 DEF Assigning, Refreshing
    <3> QED BY <2>1, <2>4, <3>1 DEF TwoHalves, Assigning
  <2> QED BY <1>8, <2>1, <2>5, <2>6, <2>7
<1>16. CASE AssignRefresh(t)
  <2>1. /\ UNCHANGED <<stored, access, newest>> /\ pc[t] = "set refresh" /\ refresh' = held[t]
        /\ pc'[t] = "idle"
    BY <1>2, <1>3, <1>16 DEF AssignRefresh, Return, Goto, world
  <2>2. Refreshing(t) /\ Rotated(t) /\ Assigning(t)
    BY <2>1 DEF Refreshing, Rotated, Assigning
  <2>3. \A u \in Fetchers \ {t} : Refreshing(u) => pc[u] = "request"
    BY <1>1, <2>2 DEF OneRotation
  <2>4. held[t] = stored /\ access = stored
    BY <1>1, <1>3, <1>6, <2>1, <2>2 DEF TwoHalves
  <2>5. HandsOverStored'
    BY <1>7, <2>2
  <2>6. \A u \in Fetchers : ~ Rotated(u)' /\ ~ Assigning(u)' /\ (Refreshing(u)' => Refreshing(u) /\ held'[u] = held[u])
    BY <1>3, <1>4, <2>1, <2>3 DEF Refreshing, Rotated, Assigning
  <2>7. held[t] # NoPair /\ held[t].family = refresh.family
    BY <1>1, <2>2 DEF OneRotation
  <2>8. OneRotation'
    BY <1>1, <2>1, <2>6, <2>7 DEF OneRotation
  <2>9. TwoHalves'
    BY <2>1, <2>4, <2>6 DEF TwoHalves, Assigning
  <2> QED BY <1>8, <2>1, <2>5, <2>8, <2>9
<1> QED BY <1>10, <1>11, <1>12, <1>13, <1>14, <1>15, <1>16 DEF FetchStep

LEMMA EnrolmentCalm ==
  ASSUME Inv, Calm, ~ Overlap', NEW e \in Enrolments, SignIn(e) \/ SaveEnrolled(e)
  PROVE  Calm'
<1>1. TypeOK /\ HandsOverStored /\ OneRotation /\ TwoHalves
  BY DEF Inv, Calm
<1>2. DOMAIN pc = Procs /\ DOMAIN held = Procs /\ e \in Procs \ Fetchers /\ e # Main
  BY <1>1, ThreadNames DEF TypeOK
<1>3. \A u \in Procs : u # e => pc'[u] = pc[u] /\ held'[u] = held[u]
  BY <1>2 DEF SignIn, SaveEnrolled, Return, Goto, Hold
<1>4. \A t \in Fetchers : t \in Procs /\ t # e /\ pc'[t] = pc[t] /\ held'[t] = held[t]
  BY <1>2, <1>3, ThreadNames
<1>5. UNCHANGED <<memory, newest>> /\ pc[e] \in {"not begun", "verified"} /\ pc'[e] \in {"verified", "saved"}
  BY <1>2 DEF SignIn, SaveEnrolled, Return, Goto, world
<1>6. OneRotation'
  BY <1>1, <1>4, <1>5 DEF OneRotation, Refreshing, Rotated, memory
<1>7. \A y \in Procs : Installing(y)' <=> Installing(y)
  BY <1>3, <1>5 DEF Installing
<1>8. CASE SignIn(e)
  <2>1. UNCHANGED <<stored, pending>>
    BY <1>8 DEF SignIn
  <2>2. HandsOverStored'
    BY <1>1, <1>3, <1>5, <2>1 DEF HandsOverStored, memory
  <2>3. HandingOver' = HandingOver /\ pc'[Main] = pc[Main]
    BY <1>2, <1>3, <1>7, <2>1, ThreadNames DEF HandingOver
  <2>4. TwoHalves'
    BY <1>1, <1>4, <1>5, <2>1, <2>3 DEF TwoHalves, Assigning, memory
  <2> QED BY <1>6, <2>2, <2>4 DEF Calm
<1>9. CASE SaveEnrolled(e)
  <2>1. e \in HandingOver'
    BY <1>2, <1>9 DEF SaveEnrolled, HandingOver
  <2>2. \A y \in Procs : Installing(y)' => y = e
    <3>1. \A y \in Procs : Installing(y)' => y \in HandingOver'
      BY DEF HandingOver
    <3> QED BY <2>1, <3>1 DEF Overlap
  <2>3. \A y \in Procs : ~ Installing(y)'
    BY <1>5, <2>2 DEF Installing
  <2>4. HandsOverStored'
    BY <2>3 DEF HandsOverStored, Installing
  <2>5. TwoHalves'
    BY <2>1 DEF TwoHalves
  <2> QED BY <1>6, <2>4, <2>5 DEF Calm
<1> QED BY <1>8, <1>9

LEMMA InstallCalm ==
  ASSUME Inv, Calm, ~ Overlap', NEW x \in Procs \ Fetchers, InstallStep(x)
  PROVE  /\ Calm'
         /\ stored # NoPair => stored' = stored
<1>1. TypeOK /\ ~ Overlap /\ HandsOverStored /\ OneRotation /\ TwoHalves
  BY DEF Inv, Calm
<1>2. /\ DOMAIN pc = Procs /\ DOMAIN held = Procs
      /\ \A t \in Fetchers : pc[t] \in FetchSteps
  BY <1>1 DEF TypeOK
<1>3. /\ \A u \in Procs : u # x => pc'[u] = pc[u] /\ held'[u] = held[u]
      /\ newest' = newest
  BY <1>2 DEF InstallStep, Resolve, SaveSeed, ReloadFails, InstallAccess, InstallRefresh,
              Return, Goto, Hold, world
<1>4. \A t \in Fetchers : t \in Procs /\ t # x /\ pc'[t] = pc[t] /\ held'[t] = held[t]
  BY <1>3, ThreadNames
\* A thread that is handing over, before the step or after it, is the only one.
<1>5. ASSUME Installing(x) \/ Installing(x)'
      PROVE  /\ \A y \in Procs : Installing(y) \/ Installing(y)' => y = x
             /\ \A t \in Fetchers : ~ Refreshing(t) /\ ~ Refreshing(t)'
  <2>1. CASE Installing(x)
    <3>1. x \in HandingOver /\ \A y \in Procs : Installing(y) => y \in HandingOver
      BY <2>1 DEF HandingOver
    <3>2. HandingOver = {x} /\ \A t \in Fetchers : ~ Refreshing(t)
      BY <1>1, <3>1 DEF Overlap
    <3> QED BY <1>3, <1>4, <3>1, <3>2 DEF Installing, Refreshing
  <2>2. CASE Installing(x)'
    <3>1. x \in HandingOver' /\ \A y \in Procs : Installing(y)' => y \in HandingOver'
      BY <2>2 DEF HandingOver
    <3>2. HandingOver' = {x} /\ \A t \in Fetchers : ~ Refreshing(t)'
      BY <3>1 DEF Overlap
    <3> QED BY <1>3, <1>4, <3>1, <3>2 DEF Installing, Refreshing
  <2> QED BY <1>5, <2>1, <2>2
<1>6. ASSUME \A t \in Fetchers : ~ Refreshing(t)' PROVE OneRotation'
  BY <1>6 DEF OneRotation, Rotated, Refreshing
<1>7. ASSUME Installing(x)' PROVE TwoHalves'
  <2>1. x \in HandingOver'
    BY <1>7 DEF HandingOver
  <2> QED BY <2>1 DEF TwoHalves
<1>8. CASE Resolve(x)
  <2>1. UNCHANGED <<stored, memory>>
    BY <1>8 DEF Resolve
  <2>2. \/ pc'[x] = "seed" /\ stored = NoPair
        \/ pc'[x] = "install access" /\ held'[x] = stored
    BY <1>2, <1>8 DEF Resolve, Goto, Hold
  <2>3. Installing(x)'
    BY <2>2 DEF Installing
  <2>4. HandsOverStored'
    BY <1>5, <2>1, <2>2, <2>3 DEF HandsOverStored, Installing
  <2> QED BY <1>5, <1>6, <1>7, <2>1, <2>3, <2>4 DEF Calm
<1>9. CASE SaveSeed(x)
  <2>1. /\ pc[x] = "seed" /\ stored' = held[x] /\ UNCHANGED memory
        /\ pc'[x] = "install access" /\ held'[x] = held[x]
    BY <1>2, <1>9 DEF SaveSeed, Goto
  <2>2. Installing(x)' /\ stored = NoPair
    BY <1>1, <2>1 DEF Installing, HandsOverStored
  <2>3. HandsOverStored'
    BY <1>5, <2>1, <2>2 DEF HandsOverStored, Installing
  <2> QED BY <1>5, <1>6, <1>7, <2>2, <2>3 DEF Calm
<1>10. CASE ReloadFails(x)
  <2>1. /\ UNCHANGED <<stored, memory, pending>> /\ x # Main
        /\ pc[x] \in {"saved", "idle"} /\ pc'[x] \in {"done", "idle"}
    BY <1>2, <1>10 DEF ReloadFails, Resolving, Return, Goto, Installed
  <2>2. \A y \in Procs : Installing(y)' <=> Installing(y)
    BY <1>3, <2>1 DEF Installing
  <2>3. HandsOverStored'
    BY <1>1, <1>3, <2>1 DEF HandsOverStored, memory
  <2>4. OneRotation'
    BY <1>1, <1>3, <1>4, <2>1 DEF OneRotation, Rotated, Refreshing, memory
  <2>5. HandingOver' = HandingOver /\ pc'[Main] = pc[Main]
    BY <1>3, <2>1, <2>2, ThreadNames DEF HandingOver
  <2>6. TwoHalves'
    BY <1>1, <1>4, <2>1, <2>5 DEF TwoHalves, Assigning, memory
  <2> QED BY <2>1, <2>3, <2>4, <2>6 DEF Calm
<1>11. CASE InstallAccess(x)
  <2>1. /\ pc[x] = "install access" /\ access' = held[x] /\ UNCHANGED <<stored, refresh>>
        /\ pc'[x] = "install refresh" /\ held'[x] = held[x]
    BY <1>2, <1>11 DEF InstallAccess, Goto
  <2>2. Installing(x)' /\ held[x] = stored
    BY <1>1, <2>1 DEF Installing, HandsOverStored
  <2>3. HandsOverStored'
    BY <1>5, <2>1, <2>2 DEF HandsOverStored, Installing
  <2> QED BY <1>5, <1>6, <1>7, <2>1, <2>2, <2>3 DEF Calm
<1>12. CASE InstallRefresh(x)
  <2>1. /\ pc[x] = "install refresh" /\ refresh' = held[x] /\ UNCHANGED <<stored, access>>
        /\ pc'[x] \in {"running", "done", "idle"}
    BY <1>2, <1>12 DEF InstallRefresh, Return, Goto, Installed
  <2>2. Installing(x) /\ held[x] = stored /\ access = stored
    BY <1>1, <2>1 DEF Installing, HandsOverStored
  <2>3. \A y \in Procs : ~ Installing(y)'
    BY <1>5, <2>1, <2>2 DEF Installing
  <2>4. HandsOverStored'
    BY <2>3 DEF HandsOverStored, Installing
  <2>5. TwoHalves'
    BY <1>5, <2>1, <2>2 DEF TwoHalves, Assigning, Refreshing
  <2> QED BY <1>5, <1>6, <2>1, <2>2, <2>4, <2>5 DEF Calm
<1> QED BY <1>8, <1>9, <1>10, <1>11, <1>12 DEF InstallStep

\* A restart leaves nothing under way and nothing in memory.
LEMMA RestartCalm ==
  ASSUME Inv, Restart
  PROVE  Calm'
<1>1. /\ \A t \in Procs : pc'[t] \in {"start", "not begun", "idle", "done"}
      /\ pc'[Main] = "start" /\ pending' = {}
  BY ThreadNames DEF Restart, AtFirst
<1>2. HandingOver' = {}
  BY <1>1 DEF HandingOver, Installing
<1>3. ~ Overlap'
  BY <1>2 DEF Overlap
<1> QED BY <1>1, <1>3, ThreadNames
        DEF Calm, HandsOverStored, OneRotation, TwoHalves, Refreshing, Rotated

\* Undisturbed steps keep the peace, and only an enrolment's save changes the
\* family of a stored credential.
LEMMA CalmStep ==
  ASSUME Inv, CalmInv, [Next]_vars
  PROVE  /\ CalmInv'
         /\ ~ disturbed' /\ stored # NoPair /\ stored'.family # stored.family
              => \E e \in Enrolments : SaveEnrolled(e)
<1>0. disturbed \in BOOLEAN
  BY DEF Inv, TypeOK
<1>1. CASE Step /\ disturbed' = (disturbed \/ Overlap' \/ Half)
  <2> SUFFICES ASSUME disturbed' = FALSE
               PROVE  /\ Calm'
                      /\ stored # NoPair /\ stored'.family # stored.family
                           => \E e \in Enrolments : SaveEnrolled(e)
    BY <1>0, <1>1 DEF CalmInv
  <2>1. disturbed = FALSE /\ ~ Overlap' /\ ~ Half
    BY <1>0, <1>1
  <2>2. Calm
    BY <2>1 DEF CalmInv
  <2>3. ASSUME NEW t \in Fetchers, FetchStep(t)
        PROVE  Calm' /\ (stored # NoPair => stored'.family = stored.family)
    BY <2>1, <2>2, <2>3, FetchCalm
  <2>4. ASSUME NEW e \in Enrolments, SignIn(e) \/ SaveEnrolled(e)
        PROVE  /\ Calm'
               /\ stored # NoPair /\ stored'.family # stored.family
                    => \E f \in Enrolments : SaveEnrolled(f)
    <3>1. Calm'
      BY <2>1, <2>2, <2>4, EnrolmentCalm
    <3>2. SaveEnrolled(e) \/ stored' = stored
      BY <2>4 DEF SignIn
    <3> QED BY <3>1, <3>2
  <2>5. ASSUME NEW x \in Procs \ Fetchers, InstallStep(x)
        PROVE  Calm' /\ (stored # NoPair => stored' = stored)
    BY <2>1, <2>2, <2>5, InstallCalm
  <2> QED BY <1>1, <2>3, <2>4, <2>5 DEF Step
<1>2. CASE Restart /\ disturbed' = FALSE
  <2>1. Calm' /\ stored' = stored
    BY <1>2, RestartCalm DEF Restart
  <2> QED BY <2>1 DEF CalmInv
<1>3. CASE UNCHANGED vars
  <2>1. UNCHANGED <<stored, access, refresh, newest, pc, held, pending, disturbed>>
    BY <1>3 DEF vars, memory, world
  <2>2. Calm' = Calm
    BY <2>1 DEF Calm, Overlap, HandingOver, Installing, HandsOverStored, OneRotation, TwoHalves,
                Refreshing, Rotated, Assigning
  <2> QED BY <2>1, <2>2 DEF CalmInv
<1> QED BY <1>1, <1>2, <1>3 DEF Next

THEOREM CalmHolds == Spec => [](Inv /\ CalmInv)
<1>1. Init => Inv /\ CalmInv
  BY InitInv, InitCalm
<1>2. Inv /\ CalmInv /\ [Next]_vars => (Inv /\ CalmInv)'
  BY InvStep, CalmStep
<1> QED BY <1>1, <1>2, PTL DEF Spec

\* As long as no two changes overlap: whenever none is under way the scheduler
\* works with the stored pair, both halves of it.
THEOREM MemoryIsStored == Spec => []MemoryFollowsStore
<1>1. Inv /\ CalmInv => MemoryFollowsStore
  BY DEF CalmInv, Calm, TwoHalves, Assigning, Refreshing, MemoryFollowsStore, Inv, TypeOK
<1> QED BY <1>1, CalmHolds, PTL

\* As long as no two changes overlap: only an enrolment replaces a credential by
\* one of another login; a rotation and a start-up never do.
THEOREM EnrolledStands == Spec => EnrolmentStands
<1>1. Inv /\ CalmInv /\ [Next]_vars =>
        [~ disturbed' /\ stored # NoPair /\ stored'.family # stored.family
           => \E e \in Enrolments : SaveEnrolled(e)]_vars
  BY CalmStep
<1> QED BY <1>1, CalmHolds, PTL DEF Spec, EnrolmentStands

=============================================================================

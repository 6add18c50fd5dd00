----------------------------- MODULE PanelProofs -----------------------------
(***************************************************************************)
(* Theorems about Panel, for any number of brightness levels and steps,    *)
(* any length of the day and the week, any schedules, readings and roomy   *)
(* screens: the panel is lit when it should be at the end of every frame,  *)
(* whatever windows the schedules have; what it remembers of its           *)
(* backlight is so; the brightness a user chose is the one it wakes to,    *)
(* over any number of restarts; a refresh that was accepted is looked at;  *)
(* and a finger means one thing, as what the layout places lies apart.     *)
(***************************************************************************)
EXTENDS Panel, FiniteSetTheorems, SequenceTheorems, NaturalsInduction, WellFoundedInduction, TLAPS

-----------------------------------------------------------------------------
(* Rounding *)

LEMMA Divides ==
  ASSUME NEW n \in Nat, NEW d \in Nat \ {0}
  PROVE  /\ n \div d \in Nat /\ n % d \in 0 .. (d - 1)
         /\ n = d * (n \div d) + (n % d)
OBVIOUS

LEMMA BetweenIs ==
  ASSUME NEW low \in Int, NEW x \in Int, NEW high \in Int, low <= high
  PROVE  Between(low, x, high) = IF x < low THEN low ELSE IF x > high THEN high ELSE x
BY DEF Between, Max, Min

LEMMA MaxIs ==
  ASSUME NEW x \in Int
  PROVE  Max({1, x}) = IF x < 1 THEN 1 ELSE x
BY DEF Max

\* What is rounded is off by a half at most.
LEMMA Halves ==
  ASSUME NEW n \in Nat, NEW d \in Nat \ {0}
  PROVE  /\ Round(n, d) \in Nat
         /\ 2 * (d * Round(n, d)) <= 2 * n + d
         /\ 2 * n <= 2 * (d * Round(n, d)) + d
<1> DEFINE q == n \div d
           r == n % d
<1>1. q \in Nat /\ r \in 0 .. (d - 1) /\ n = d * q + r
  BY Divides
<1>2. Round(n, d) = IF 2 * r < d \/ (2 * r = d /\ q % 2 = 0) THEN q ELSE q + 1
  BY DEF Round
<1>3. d * (q + 1) = d * q + d
  BY <1>1
<1> HIDE DEF q, r
<1>4. (Round(n, d) = q /\ 2 * r <= d) \/ (Round(n, d) = q + 1 /\ 2 * r >= d)
  BY <1>1, <1>2
<1> QED BY <1>1, <1>3, <1>4

\* A number that is off by less is what it rounds to.
LEMMA Nearest ==
  ASSUME NEW n \in Nat, NEW d \in Nat \ {0}, NEW k \in Nat,
         2 * n < 2 * (d * k) + d, 2 * (d * k) < 2 * n + d
  PROVE  Round(n, d) = k
<1> DEFINE m == Round(n, d)
<1>1. m \in Nat /\ 2 * (d * m) <= 2 * n + d /\ 2 * n <= 2 * (d * m) + d
  BY Halves
<1> HIDE DEF m
<1>2. ASSUME m > k
      PROVE  FALSE
  <2>1. d * m >= d * k + d
    BY <1>1, <1>2
  <2> QED BY <1>1, <2>1
<1>3. ASSUME m < k
      PROVE  FALSE
  <2>1. d * k >= d * m + d
    BY <1>1, <1>3
  <2> QED BY <1>1, <2>1
<1> QED BY <1>1, <1>2, <1>3 DEF m

\* k parts of d, rounded to parts of m: no more than there are.
LEMMA PartOf ==
  ASSUME NEW m \in Nat \ {0}, NEW d \in Nat \ {0}, NEW k \in 0 .. d
  PROVE  Round(k * m, d) \in 0 .. m
<1> DEFINE r == Round(k * m, d)
<1>1. k * m \in Nat /\ k * m <= d * m
  BY Z3
<1>2. r \in Nat /\ 2 * (d * r) <= 2 * (k * m) + d
  BY <1>1, Halves
<1> HIDE DEF r
<1>3. ASSUME r > m
      PROVE  FALSE
  <2>1. d * r >= d * m + d
    BY <1>2, <1>3
  <2> QED BY <1>1, <1>2, <2>1
<1> QED BY <1>2, <1>3 DEF r

-----------------------------------------------------------------------------
(* Steps and levels of the brightness *)

LEMMA LevelIs ==
  ASSUME NEW s \in 1 .. Steps
  PROVE  /\ LevelForStep(s) \in 1 .. MaxLevel
         /\ LevelForStep(s) = IF Round(s * MaxLevel, Steps) < 1 THEN 1 ELSE Round(s * MaxLevel, Steps)
<1>1. Steps \in Nat \ {0} /\ MaxLevel \in Nat \ {0}
  BY BacklightAssumption
<1>2. Between(1, s, Steps) = s
  BY <1>1, BetweenIs
<1>3. Round(s * MaxLevel, Steps) \in 0 .. MaxLevel
  BY <1>1, PartOf
<1> QED BY <1>1, <1>2, <1>3, MaxIs DEF LevelForStep

LEMMA StepIs ==
  ASSUME NEW level \in 0 .. MaxLevel
  PROVE  /\ StepForLevel(level) \in 1 .. Steps
         /\ StepForLevel(level) = IF Round(level * Steps, MaxLevel) < 1 THEN 1
                                  ELSE Round(level * Steps, MaxLevel)
<1>1. Steps \in Nat \ {0} /\ MaxLevel \in Nat \ {0}
  BY BacklightAssumption
<1>2. Between(0, level, MaxLevel) = level
  BY <1>1, BetweenIs
<1>3. Round(level * Steps, MaxLevel) \in 0 .. Steps
  BY <1>1, PartOf
<1> QED BY <1>1, <1>2, <1>3, BetweenIs DEF StepForLevel

\* A level that stands for a step, taken for a level that was saved, is taken for a step
\* that stands for it: whether there are more steps than levels or fewer.
LEMMA RoundTrip ==
  ASSUME NEW s \in 1 .. Steps
  PROVE  LevelForStep(StepForLevel(LevelForStep(s))) = LevelForStep(s)
<1> DEFINE l == LevelForStep(s)
           t == StepForLevel(l)
           rl == Round(s * MaxLevel, Steps)
           rt == Round(l * Steps, MaxLevel)
<1>1. Steps \in Nat \ {0} /\ MaxLevel \in Nat \ {0}
  BY BacklightAssumption
<1>2. l \in 1 .. MaxLevel /\ l = IF rl < 1 THEN 1 ELSE rl
  BY LevelIs
<1>3. t \in 1 .. Steps /\ t = IF rt < 1 THEN 1 ELSE rt
  BY <1>2, StepIs
<1>4. /\ rl \in Nat
      /\ 2 * (Steps * rl) <= 2 * (s * MaxLevel) + Steps
      /\ 2 * (s * MaxLevel) <= 2 * (Steps * rl) + Steps
  BY <1>1, Halves
<1>5. /\ rt \in Nat
      /\ 2 * (MaxLevel * rt) <= 2 * (l * Steps) + MaxLevel
      /\ 2 * (l * Steps) <= 2 * (MaxLevel * rt) + MaxLevel
  <2>1. l * Steps \in Nat
    BY <1>1, <1>2
  <2> QED BY <1>1, <2>1, Halves
<1>6. CASE MaxLevel < Steps
  <2>1. rt # 0
    <3>1. l * Steps >= Steps
      BY <1>1, <1>2
    <3> HIDE DEF l, rt
    <3> QED BY <1>1, <1>2, <1>5, <1>6, <3>1
  <2>2. t = rt
    BY <1>3, <1>5, <2>1
  <2>3. Round(t * MaxLevel, Steps) = l
    <3> HIDE DEF l, t, rt
    <3>1. t * MaxLevel \in Nat /\ t * MaxLevel = MaxLevel * rt /\ Steps * l = l * Steps /\ l \in Nat
      BY <1>1, <1>2, <1>3, <2>2
    <3>2. l * Steps \in Nat
      BY <1>1, <1>2
    <3>3. 2 * (t * MaxLevel) < 2 * (Steps * l) + Steps /\ 2 * (Steps * l) < 2 * (t * MaxLevel) + Steps
      BY <1>1, <1>5, <1>6, <3>1, <3>2
    <3> QED BY <1>1, <3>1, <3>3, Nearest
  <2> QED BY <1>2, <1>3, <2>3, LevelIs
<1>7. CASE MaxLevel = Steps
  <2>1. rl = s
    BY <1>1, <1>7, Nearest
  <2>2. l = s
    BY <1>2, <2>1
  <2>3. rt = s
    BY <1>1, <1>7, <2>2, Nearest
  <2> QED BY <1>3, <2>2, <2>3
<1>8. CASE MaxLevel > Steps
  <2>1. rl # 0
    <3>1. s * MaxLevel >= MaxLevel
      BY <1>1
    <3> HIDE DEF rl
    <3> QED BY <1>1, <1>4, <1>8, <3>1
  <2>2. l = rl
    BY <1>2, <1>4, <2>1
  <2>3. rt = s
    <3> HIDE DEF l, rl
    <3>1. l * Steps \in Nat /\ l * Steps = Steps * rl /\ MaxLevel * s = s * MaxLevel
          /\ s * MaxLevel \in Nat
      BY <1>1, <1>2, <2>2
    <3>2. 2 * (l * Steps) < 2 * (MaxLevel * s) + MaxLevel /\ 2 * (MaxLevel * s) < 2 * (l * Steps) + MaxLevel
      BY <1>1, <1>4, <1>8, <3>1
    <3> QED BY <1>1, <3>1, <3>2, Nearest
  <2> QED BY <1>3, <2>3
<1> QED BY <1>1, <1>6, <1>7, <1>8

-----------------------------------------------------------------------------
(* The backlight *)

Lights == [node : 0 .. MaxLevel, onLevel : 1 .. MaxLevel, lastOn : {"unknown", "on", "off"}]

\* What the object remembers of its node is so.
Remembers(b) == (b.lastOn = "on" => b.node = b.onLevel) /\ (b.lastOn = "off" => b.node = Off)

LEMMA OpenedRemembers ==
  ASSUME NEW node \in 0 .. MaxLevel
  PROVE  Opened(node) \in Lights /\ Remembers(Opened(node))
BY BacklightAssumption DEF Opened, Lights, Remembers

\* A level that is set is the one to wake to; one that cannot be written changes nothing.
LEMMA SetLevelRemembers ==
  ASSUME NEW b \in Lights, Remembers(b), NEW level \in 1 .. MaxLevel, NEW ok \in BOOLEAN
  PROVE  /\ SetLevel(b, level, ok) \in Lights /\ Remembers(SetLevel(b, level, ok))
         /\ SetLevel(b, level, ok).onLevel = IF ok THEN level ELSE b.onLevel
<1>1. Between(1, level, MaxLevel) = level
  BY BacklightAssumption, BetweenIs
<1> QED BY <1>1 DEF SetLevel, Lights, Remembers

LEMMA SetPowerRemembers ==
  ASSUME NEW b \in Lights, Remembers(b), NEW on \in BOOLEAN, NEW ok \in BOOLEAN
  PROVE  /\ SetPower(b, on, ok) \in Lights /\ Remembers(SetPower(b, on, ok))
         /\ SetPower(b, on, ok).onLevel = b.onLevel
<1>1. CASE Redundant(b, on) \/ ~ ok
  BY <1>1 DEF SetPower
<1>2. CASE on = TRUE /\ ~ (Redundant(b, on) \/ ~ ok)
  <2> DEFINE new == [b EXCEPT !.node = b.onLevel, !.lastOn = "on"]
  <2>1. SetPower(b, on, ok) = new
    BY <1>2 DEF SetPower, Switched
  <2>2. b.onLevel \in 0 .. MaxLevel
    BY BacklightAssumption DEF Lights
  <2>3. new \in Lights
    BY <2>2 DEF Lights
  <2>4. new.node = b.onLevel /\ new.onLevel = b.onLevel /\ new.lastOn = "on"
    BY DEF Lights
  <2>5. Remembers(new)
    BY <2>4 DEF Remembers
  <2> QED BY <2>1, <2>3, <2>4, <2>5
<1>3. CASE on = FALSE /\ ~ (Redundant(b, on) \/ ~ ok)
  <2> DEFINE new == [b EXCEPT !.node = Off, !.lastOn = "off"]
  <2>1. SetPower(b, on, ok) = new
    BY <1>3 DEF SetPower, Switched
  <2>2. Off \in 0 .. MaxLevel
    BY BacklightAssumption DEF Off
  <2>3. new \in Lights
    BY <2>2 DEF Lights
  <2>4. new.node = Off /\ new.onLevel = b.onLevel /\ new.lastOn = "off"
    BY DEF Lights
  <2>5. Remembers(new)
    BY <2>4 DEF Remembers
  <2> QED BY <2>1, <2>3, <2>4, <2>5
<1> QED BY <1>1, <1>2, <1>3

-----------------------------------------------------------------------------
(* The brightness of the panel *)

\* A level that was chosen stands for a step; and unless something went wrong the last
\* one is saved, or about to be.
ChosenLevels == {LevelForStep(s) : s \in 1 .. Steps}
ChoiceIsKept ==
  chosen # NoLevel /\ ~ slipped => chosen = IF saving = NoLevel THEN saved ELSE saving
LightInv ==
  /\ light \in Lights /\ Remembers(light)
  /\ step \in 1 .. Steps /\ {saving, saved, disk, chosen} \subseteq ChosenLevels \cup {NoLevel}
  /\ slipped \in BOOLEAN /\ ChoiceIsKept /\ ChosenLevelStays

LEMMA ChosenIsLevel ==
  ASSUME NEW level \in ChosenLevels
  PROVE  /\ level \in 1 .. MaxLevel /\ level # NoLevel
         /\ StepForLevel(level) \in 1 .. Steps /\ LevelForStep(StepForLevel(level)) = level
<1>1. PICK s \in 1 .. Steps : level = LevelForStep(s)
  BY DEF ChosenLevels
<1>2. level \in 1 .. MaxLevel
  BY <1>1, LevelIs
<1>3. LevelForStep(StepForLevel(level)) = level
  BY <1>1, RoundTrip
<1>4. level # NoLevel
  BY <1>2, PanelAssumption
<1> QED BY <1>2, <1>3, <1>4, StepIs

\* A step up or down on the overlay.
LEMMA NudgeKeepsLight ==
  ASSUME LightInv, NEW delta \in {-1, 1}, Nudge(delta)
  PROVE  LightInv'
<1> DEFINE new == Between(1, step + delta, Steps)
           level == LevelForStep(new)
<1>1. Steps \in Nat \ {0} /\ step \in 1 .. Steps /\ light \in Lights /\ Remembers(light)
  BY BacklightAssumption DEF LightInv
<1>2. new \in 1 .. Steps
  BY <1>1, BetweenIs
<1>3. level \in 1 .. MaxLevel /\ level \in ChosenLevels
  BY <1>2, LevelIs DEF ChosenLevels
<1>4. \/ UNCHANGED <<brightness, events>>
      \/ /\ step' = new /\ chosen' = level /\ saving' = level /\ UNCHANGED <<saved, disk>>
         /\ \E ok \in BOOLEAN : light' = SetLevel(light, level, ok) /\ slipped' = ~ ok
  BY DEF Nudge
<1> HIDE DEF new, level
<1>5. level = LevelForStep(new) /\ level # NoLevel
  BY <1>3, PanelAssumption DEF level
<1>6. CASE UNCHANGED <<brightness, events>>
  BY <1>6 DEF LightInv, brightness, choice, ChoiceIsKept, ChosenLevelStays
<1>7. CASE /\ step' = new /\ chosen' = level /\ saving' = level /\ UNCHANGED <<saved, disk>>
           /\ \E ok \in BOOLEAN : light' = SetLevel(light, level, ok) /\ slipped' = ~ ok
  <2>1. PICK ok \in BOOLEAN : light' = SetLevel(light, level, ok) /\ slipped' = ~ ok
    BY <1>7
  <2>2. light' \in Lights /\ Remembers(light)' /\ (ok => light'.onLevel = level)
    BY <1>1, <1>3, <2>1, SetLevelRemembers DEF Remembers
  <2>3. {saving, saved, disk, chosen}' \subseteq ChosenLevels \cup {NoLevel}
    BY <1>3, <1>7 DEF LightInv
  <2>4. ChoiceIsKept'
    BY <1>5, <1>7 DEF ChoiceIsKept
  <2>5. ChosenLevelStays'
    BY <1>5, <1>7, <2>1, <2>2 DEF ChosenLevelStays
  <2> QED BY <1>2, <1>7, <2>1, <2>2, <2>3, <2>4, <2>5 DEF LightInv
<1> QED BY <1>4, <1>6, <1>7

\* The file is written, or not.
LEMMA SaveLevelKeepsLight ==
  ASSUME LightInv, SaveLevel
  PROVE  LightInv'
<1>1. /\ UNCHANGED <<light, step, chosen>> /\ saving # NoLevel /\ saving' = NoLevel
      /\ disk' \in {disk, saved}
      /\ \/ saved' = saving /\ UNCHANGED slipped
         \/ saved' \in {saved, NoLevel} /\ slipped' = TRUE
  BY DEF SaveLevel
<1>2. {saving, saved, disk, chosen}' \subseteq ChosenLevels \cup {NoLevel}
  BY <1>1 DEF LightInv
<1>3. CASE saved' = saving /\ UNCHANGED slipped
  <2>1. slipped' \in BOOLEAN
    BY <1>3 DEF LightInv
  <2>2. ChoiceIsKept'
    BY <1>1, <1>3 DEF LightInv, ChoiceIsKept
  <2>3. ChosenLevelStays'
    BY <1>1, <1>3 DEF LightInv, ChosenLevelStays
  <2> QED BY <1>1, <1>2, <2>1, <2>2, <2>3 DEF LightInv
<1>4. CASE slipped' = TRUE
  BY <1>1, <1>2, <1>4 DEF LightInv, ChoiceIsKept, ChosenLevelStays
<1> QED BY <1>1, <1>3, <1>4

\* A new process over the node of the old one, or over one that came up anew.
LEMMA RestartKeepsLight ==
  ASSUME LightInv, Restart
  PROVE  LightInv'
<1>1. PICK node \in {light.node} \cup FirstLevels, ok \in BOOLEAN :
        /\ IsKilled(node) \/ LosesPower(node)
        /\ StartsLit(node, ok)
        /\ slipped' = (slipped \/ ~ ok \/ saved' # saved \/ saving # NoLevel)
  BY DEF Restart
<1>2. node \in 0 .. MaxLevel /\ saving' = NoLevel /\ chosen' = chosen
  BY PanelAssumption DEF Restart, LightInv, Lights
<1>3. saved' \in {saved, disk, NoLevel} /\ disk' \in {disk, saved'}
  BY <1>1 DEF IsKilled, LosesPower
<1>4. {saving, saved, disk, chosen}' \subseteq ChosenLevels \cup {NoLevel}
  BY <1>2, <1>3 DEF LightInv
<1>5. slipped' \in BOOLEAN /\ ChoiceIsKept'
  BY <1>1, <1>2 DEF LightInv, ChoiceIsKept
<1>6. Opened(node) \in Lights /\ Remembers(Opened(node))
  BY <1>2, OpenedRemembers
<1>7. CASE saved' = NoLevel
  <2>1. light' = Opened(node) /\ step' = StepForLevel(node)
    BY <1>1, <1>7 DEF StartsLit
  <2>2. step' \in 1 .. Steps
    BY <1>2, <2>1, StepIs
  <2>3. ChosenLevelStays'
    BY <1>2, <1>5, <1>7 DEF ChoiceIsKept, ChosenLevelStays
  <2> QED BY <1>4, <1>5, <1>6, <2>1, <2>2, <2>3 DEF LightInv, Remembers
<1>8. CASE saved' # NoLevel
  <2>1. saved' \in ChosenLevels
    BY <1>4, <1>8
  <2>2. /\ saved' \in 1 .. MaxLevel /\ StepForLevel(saved') \in 1 .. Steps
        /\ LevelForStep(StepForLevel(saved')) = saved'
    BY <2>1, ChosenIsLevel
  <2>3. light' = SetLevel(Opened(node), saved', ok) /\ step' = StepForLevel(saved')
    BY <1>1, <1>8 DEF StartsLit
  <2>4. light' \in Lights /\ Remembers(light)' /\ (ok => light'.onLevel = saved')
    BY <1>6, <2>2, <2>3, SetLevelRemembers DEF Remembers
  <2>5. ChosenLevelStays'
    BY <1>1, <1>2, <1>5, <2>2, <2>3, <2>4 DEF ChoiceIsKept, ChosenLevelStays
  <2> QED BY <1>4, <1>5, <2>2, <2>3, <2>4, <2>5 DEF LightInv
<1> QED BY <1>7, <1>8

\* The switch at the end of a frame.
LEMMA EndFrameKeepsLight ==
  ASSUME LightInv, EndFrame
  PROVE  LightInv'
<1>1. UNCHANGED <<step, saving, saved, disk, chosen, slipped>>
  BY DEF EndFrame, choice
<1>2. \E on \in BOOLEAN, ok \in BOOLEAN : light' = SetPower(light, on, ok)
  <2> DEFINE on == ~ IsDark(clock, schedule, wakeUntil, manual)
  <2>1. light' = SetPower(light, on, TRUE) \/ light' = SetPower(light, on, FALSE)
    BY DEF EndFrame
  <2>2. on \in BOOLEAN
    OBVIOUS
  <2> HIDE DEF on
  <2> QED BY <2>1, <2>2
<1>3. light' \in Lights /\ Remembers(light)' /\ light'.onLevel = light.onLevel
  <2>1. PICK on \in BOOLEAN, ok \in BOOLEAN : light' = SetPower(light, on, ok)
    BY <1>2
  <2>2. light \in Lights /\ Remembers(light)
    BY DEF LightInv
  <2>3. light' \in Lights /\ Remembers(SetPower(light, on, ok)) /\ light'.onLevel = light.onLevel
    BY <2>1, <2>2, SetPowerRemembers
  <2> QED BY <2>1, <2>3 DEF Remembers
<1> QED BY <1>1, <1>3 DEF LightInv, ChoiceIsKept, ChosenLevelStays

-----------------------------------------------------------------------------
(* The fetcher *)

\* No refresh has collected a version the server has not come to.
FetcherInv == FetcherTypeOK /\ accepted <= version /\ RefreshReaches

LEMMA EventShape ==
  ASSUME events \in 0 .. MaxEvents, Event \/ UNCHANGED events
  PROVE  events' \in 0 .. MaxEvents
  BY FetcherAssumption DEF Event

\* A request asks for the latest version there is.
LEMMA PollKeeps ==
  ASSUME FetcherInv, GetReadings \/ StoreReadings \/ PollSchedule \/ IntervalElapses \/ Woken
  PROVE  FetcherInv'
<1>1. /\ FetcherTypeOK /\ accepted <= version /\ RefreshReaches
      /\ version \in Nat /\ accepted \in Nat
  BY FetcherAssumption DEF FetcherInv, FetcherTypeOK
<1>2. events' \in 0 .. MaxEvents
  BY <1>1, EventShape DEF FetcherTypeOK, GetReadings, StoreReadings, PollSchedule, IntervalElapses, Woken
<1>3. CASE GetReadings
  <2>1. /\ asked' = version /\ poll' \in {"store", "schedule"} /\ answer' \in {answer, version}
        /\ UNCHANGED <<version, serverSpec, readings, spec, fast, stable, wake, refresh, accepted>>
    BY <1>3 DEF GetReadings
  <2> QED BY <1>1, <1>2, <2>1 DEF FetcherInv, FetcherTypeOK, RefreshReaches
<1>4. CASE StoreReadings
  <2>1. /\ poll = "store" /\ poll' = "schedule" /\ readings' = answer
        /\ UNCHANGED <<version, serverSpec, answer, asked, spec, wake, refresh, accepted>>
    BY <1>4 DEF StoreReadings
  <2>2. fast' \in BOOLEAN /\ stable' \in 0 .. StableThreshold
    <3>1. stable \in 0 .. StableThreshold /\ StableThreshold \in Nat \ {0}
      BY <1>1, FetcherAssumption DEF FetcherTypeOK
    <3>2. stable' \in {0, stable} \/ (stable < StableThreshold /\ stable' = stable + 1)
      BY <1>4 DEF StoreReadings
    <3>3. fast' \in BOOLEAN
      BY <1>4 DEF StoreReadings
    <3> QED BY <3>1, <3>2, <3>3
  <2> QED BY <1>1, <1>2, <2>1, <2>2 DEF FetcherInv, FetcherTypeOK, RefreshReaches
<1>5. CASE PollSchedule
  <2>1. /\ poll = "schedule" /\ poll' = "wait" /\ spec' \in {spec, serverSpec}
        /\ UNCHANGED <<version, serverSpec, answer, asked, readings, fast, stable, wake, refresh, accepted>>
    BY <1>5 DEF PollSchedule
  <2> QED BY <1>1, <1>2, <2>1 DEF FetcherInv, FetcherTypeOK, RefreshReaches
<1>6. CASE IntervalElapses \/ Woken
  <2>1. /\ poll' = "get" /\ wake' \in {wake, FALSE}
        /\ UNCHANGED <<version, serverSpec, answer, asked, readings, spec, fast, stable, refresh, accepted>>
    BY <1>6 DEF IntervalElapses, Woken
  <2>2. wake' \in BOOLEAN
    BY <1>1, <2>1 DEF FetcherTypeOK
  <2> QED BY <1>1, <1>2, <2>1, <2>2 DEF FetcherInv, FetcherTypeOK, RefreshReaches
<1> QED BY <1>3, <1>4, <1>5, <1>6

\* The refresh thread, and the server on its own.
LEMMA RefreshKeeps ==
  ASSUME FetcherInv, PostRefresh \/ Poke \/ ClearPending \/ ServerCollects \/ ScheduleEdited
  PROVE  FetcherInv'
<1>1. /\ FetcherTypeOK /\ accepted <= version /\ RefreshReaches
      /\ version \in Nat /\ accepted \in Nat
  BY FetcherAssumption DEF FetcherInv, FetcherTypeOK
<1>2. events' \in 0 .. MaxEvents
  BY <1>1, EventShape DEF FetcherTypeOK, PostRefresh, Poke, ClearPending, ServerCollects, ScheduleEdited
<1>3. UNCHANGED polling
  BY DEF PostRefresh, Poke, ClearPending, ServerCollects, ScheduleEdited
<1>4. CASE PostRefresh
  <2>1. /\ UNCHANGED <<serverSpec, wake>> /\ refresh = "post"
        /\ version' \in Versions /\ version' >= version
        /\ \/ refresh' = "poke" /\ accepted' = version'
           \/ refresh' = "clear" /\ UNCHANGED accepted
    BY <1>1, <1>4 DEF PostRefresh, FetcherTypeOK
  <2>2. version' \in Nat
    BY <2>1, FetcherAssumption
  <2> QED BY <1>1, <1>2, <1>3, <2>1, <2>2 DEF FetcherInv, FetcherTypeOK, RefreshReaches, polling
<1>5. CASE Poke
  <2>1. UNCHANGED <<version, serverSpec, accepted>> /\ wake' = TRUE /\ refresh' = "clear"
    BY <1>5 DEF Poke
  <2> QED BY <1>1, <1>2, <1>3, <2>1 DEF FetcherInv, FetcherTypeOK, RefreshReaches, polling
<1>6. CASE ClearPending
  <2>1. /\ UNCHANGED <<version, serverSpec, wake, accepted>>
        /\ refresh = "clear" /\ refresh' = "idle"
    BY <1>6 DEF ClearPending
  <2> QED BY <1>1, <1>2, <1>3, <2>1 DEF FetcherInv, FetcherTypeOK, RefreshReaches, polling
<1>7. CASE ServerCollects
  <2>1. /\ UNCHANGED <<serverSpec, wake, refresh, accepted>> /\ poll = "get"
        /\ version' = version + 1 /\ version' \in Versions
    BY <1>7 DEF ServerCollects
  <2> QED BY <1>1, <1>2, <1>3, <2>1 DEF FetcherInv, FetcherTypeOK, RefreshReaches, polling
<1>8. CASE ScheduleEdited
  <2>1. UNCHANGED <<version, wake, refresh, accepted>> /\ serverSpec' \in ServerSpecs
    BY <1>8 DEF ScheduleEdited
  <2> QED BY <1>1, <1>2, <1>3, <2>1 DEF FetcherInv, FetcherTypeOK, RefreshReaches, polling
<1> QED BY <1>4, <1>5, <1>6, <1>7, <1>8

\* What the panel does to its fetcher: it may ask for a refresh, or start a new one.
LEMMA PanelKeepsFetcher ==
  ASSUME FetcherInv,
         \/ /\ UNCHANGED <<version, serverSpec, polling, wake, accepted>>
            /\ StartRefresh \/ UNCHANGED refresh
         \/ FetcherRestarts /\ UNCHANGED <<version, serverSpec>>,
         Event \/ UNCHANGED events
  PROVE  FetcherInv'
<1>1. /\ FetcherTypeOK /\ accepted <= version /\ RefreshReaches
      /\ version \in Nat /\ accepted \in Nat
  BY FetcherAssumption DEF FetcherInv, FetcherTypeOK
<1>2. events' \in 0 .. MaxEvents
  BY <1>1, EventShape DEF FetcherTypeOK
<1>3. CASE /\ UNCHANGED <<version, serverSpec, polling, wake, accepted>>
           /\ StartRefresh \/ UNCHANGED refresh
  <2>1. refresh' \in {refresh, "post"} /\ (refresh = "poke" => refresh' = "poke")
    BY <1>3 DEF StartRefresh
  <2> QED BY <1>1, <1>2, <1>3, <2>1 DEF FetcherInv, FetcherTypeOK, RefreshReaches, polling
<1>4. CASE FetcherRestarts /\ UNCHANGED <<version, serverSpec>>
  <2>1. poll' = "get" /\ asked' = 0 /\ accepted' = 0 /\ UNCHANGED <<version, serverSpec>>
    BY <1>4 DEF FetcherRestarts
  <2>2. /\ answer' = 0 /\ readings' = 0 /\ spec' \in ServerSpecs
        /\ refresh' = "idle" /\ fast' = FALSE /\ wake' = FALSE
    BY <1>4, FetcherAssumption DEF FetcherRestarts
  <2>3. stable' \in 0 .. StableThreshold
    BY <1>4, FetcherAssumption DEF FetcherRestarts
  <2>4. FetcherTypeOK'
    BY <1>1, <1>2, <2>1, <2>2, <2>3 DEF FetcherTypeOK
  <2> QED BY <1>1, <2>1, <2>4 DEF FetcherInv, RefreshReaches
<1> QED BY <1>3, <1>4

-----------------------------------------------------------------------------
(* Sorting the spans *)

\* What is made of the members of a finite set is finite.
LEMMA FiniteImage ==
  ASSUME NEW S, IsFiniteSet(S), NEW f
  PROVE  IsFiniteSet({f[x] : x \in S})
<1> DEFINE T == {f[x] : x \in S}
           g == [x \in S |-> f[x]]
<1>1. g \in Surjection(S, T)
  BY DEF Surjection
<1> QED BY <1>1, FS_Surjection

\* The place of a span in the sorted list: the number of spans before it. No two have
\* the same, so every place is taken.
Rank(spans, s) == Cardinality({p \in spans : Before(p, s)})

\* The order of the spans is total, by their starts first.
LEMMA BeforeOrders ==
  ASSUME NEW s \in Int \X Int, NEW t \in Int \X Int
  PROVE  /\ ~ Before(s, s)
         /\ s # t => Before(s, t) \/ Before(t, s)
         /\ Before(s, t) => s[1] <= t[1]
         /\ \A u \in Int \X Int : Before(u, s) /\ Before(s, t) => Before(u, t)
  BY DEF Before

\* A span that is before another has the smaller place.
LEMMA RankGrows ==
  ASSUME NEW spans, IsFiniteSet(spans), spans \subseteq Int \X Int,
         NEW s \in spans, NEW t \in spans, Before(s, t)
  PROVE  Rank(spans, s) < Rank(spans, t)
<1> DEFINE A == {p \in spans : Before(p, s)}
           B == {p \in spans : Before(p, t)}
<1>1. A \subseteq B /\ s \in B /\ s \notin A
  BY BeforeOrders
<1>2. IsFiniteSet(B)
  BY FS_Subset
<1>3. Cardinality(A) \in Nat /\ Cardinality(B) \in Nat /\ Cardinality(A) <= Cardinality(B)
      /\ (Cardinality(B) = Cardinality(A) => B = A)
  <2>1. A \in SUBSET B
    BY <1>1
  <2>2. IsFiniteSet(A) /\ Cardinality(A) <= Cardinality(B) /\ (Cardinality(B) = Cardinality(A) => B = A)
    BY <1>2, <2>1, FS_Subset
  <2> QED BY <1>2, <2>2, FS_CardinalityType
<1> QED BY <1>1, <1>3 DEF Rank

\* A place is one of as many as there are spans.
LEMMA RankIs ==
  ASSUME NEW spans, IsFiniteSet(spans), spans \subseteq Int \X Int, NEW s \in spans
  PROVE  Rank(spans, s) \in 0 .. (Cardinality(spans) - 1)
<1> DEFINE A == {p \in spans : Before(p, s)}
<1>1. A \in SUBSET spans /\ s \notin A
  BY BeforeOrders
<1>2. IsFiniteSet(A) /\ Cardinality(A) <= Cardinality(spans)
      /\ (Cardinality(spans) = Cardinality(A) => spans = A)
  BY <1>1, FS_Subset
<1>3. Cardinality(A) \in Nat /\ Cardinality(spans) \in Nat
  BY <1>2, FS_CardinalityType
<1>4. Cardinality(spans) # Cardinality(A)
  BY <1>1, <1>2
<1> HIDE DEF A
<1>5. Cardinality(A) \in 0 .. (Cardinality(spans) - 1)
  BY <1>2, <1>3, <1>4
<1> QED BY <1>5 DEF Rank, A

\* Every place is taken: as many spans have different places.
LEMMA RankReaches ==
  ASSUME NEW spans, IsFiniteSet(spans), spans \subseteq Int \X Int,
         NEW n \in 0 .. (Cardinality(spans) - 1)
  PROVE  \E s \in spans : Rank(spans, s) = n
<1> DEFINE N == Cardinality(spans)
           T == 0 .. (N - 1)
           f == [s \in spans |-> Rank(spans, s)]
<1>1. N \in Nat
  BY FS_CardinalityType
<1>2. f \in Injection(spans, T)
  <2>1. f \in [spans -> T]
    BY RankIs
  <2>2. ASSUME NEW s \in spans, NEW t \in spans, Rank(spans, s) = Rank(spans, t) PROVE s = t
    <3>1. Rank(spans, s) \in Int /\ Rank(spans, t) \in Int
      BY RankIs
    <3>2. ~ Before(s, t) /\ ~ Before(t, s)
      BY <2>2, <3>1, RankGrows
    <3> QED BY <3>2, BeforeOrders
  <2> QED BY <2>1, <2>2 DEF Injection, IsInjective
<1>3. IsFiniteSet(T) /\ Cardinality(T) = N
  BY <1>1, FS_Interval
<1>4. f \in Surjection(spans, T)
  BY <1>2, <1>3, FS_Injection
<1>5. n \in T
  OBVIOUS
<1>6. \E s \in spans : f[s] = n
  BY <1>4, <1>5 DEF Surjection
<1> QED BY <1>6

\* The list has every span, the ones that start sooner first.
LEMMA SortedSorts ==
  ASSUME NEW spans, IsFiniteSet(spans), spans \subseteq Int \X Int
  PROVE  LET S == Sorted(spans)
         IN  /\ S \in Seq(spans)
             /\ \A s \in spans : \E i \in DOMAIN S : S[i] = s
             /\ \A i, j \in DOMAIN S : i < j => S[i][1] <= S[j][1]
<1> DEFINE N == Cardinality(spans)
           S == Sorted(spans)
<1>1. N \in Nat
  BY FS_CardinalityType
<1>2. DOMAIN S = 1 .. N
  BY DEF Sorted
<1>3. ASSUME NEW i \in 1 .. N PROVE S[i] \in spans /\ Rank(spans, S[i]) = i - 1
  <2>1. i - 1 \in 0 .. (N - 1)
    BY <1>1
  <2>2. \E s \in spans : Rank(spans, s) = i - 1
    BY <2>1, RankReaches
  <2>3. S[i] = CHOOSE s \in spans : Rank(spans, s) = i - 1
    BY DEF Sorted, Rank
  <2> QED BY <2>2, <2>3
<1>4. S \in Seq(spans)
  <2> DEFINE At(i) == CHOOSE s \in spans : Cardinality({p \in spans : Before(p, s)}) = i - 1
  <2>1. S = [i \in 1 .. N |-> At(i)]
    BY DEF Sorted
  <2>2. \A i \in 1 .. N : At(i) \in spans
    BY <1>3 DEF Sorted
  <2> HIDE DEF S, N, At
  <2> QED BY <1>1, <2>1, <2>2
<1>5. ASSUME NEW i \in 1 .. N, NEW j \in 1 .. N, i < j PROVE S[i][1] <= S[j][1]
  <2>1. S[i] \in spans /\ S[j] \in spans /\ Rank(spans, S[i]) = i - 1 /\ Rank(spans, S[j]) = j - 1
    BY <1>3
  <2>2. ~ Before(S[j], S[i])
    <3>1. ~ (j - 1 < i - 1)
      BY <1>1, <1>5
    <3> QED BY <2>1, <3>1, RankGrows
  <2>3. S[i] # S[j]
    <3>1. i - 1 # j - 1
      BY <1>1, <1>5
    <3> QED BY <2>1, <3>1
  <2>4. Before(S[i], S[j])
    BY <2>1, <2>2, <2>3, BeforeOrders
  <2> QED BY <2>1, <2>4, BeforeOrders
<1>6. ASSUME NEW s \in spans PROVE \E i \in 1 .. N : S[i] = s
  <2> DEFINE r == Rank(spans, s)
  <2>1. r \in 0 .. (N - 1)
    BY RankIs
  <2>2. r + 1 \in 1 .. N /\ (r + 1) - 1 = r
    BY <1>1, <2>1
  <2>3. S[r + 1] \in spans /\ Rank(spans, S[r + 1]) = r
    BY <1>3, <2>2
  <2>4. ~ Before(S[r + 1], s) /\ ~ Before(s, S[r + 1])
    <3>1. ~ (r < r)
      BY <2>1
    <3> QED BY <2>3, <3>1, RankGrows
  <2>5. S[r + 1] = s
    BY <2>3, <2>4, BeforeOrders
  <2> QED BY <2>2, <2>5
<1> QED BY <1>2, <1>4, <1>5, <1>6

-----------------------------------------------------------------------------
(* Merging them *)

\* A nonempty set of natural numbers has a least one.
LEMMA NatSetHasLeast ==
  ASSUME NEW S, S \subseteq Nat, S # {}
  PROVE  \E m \in S : \A n \in S : m <= n
<1> DEFINE less == {ss \in Nat \X Nat : ss[1] < ss[2]}
<1>1. \E m \in S : \A n \in S : ~ (<<n, m>> \in OpToRel(<, Nat))
  BY NatLessThanWellFounded, WFMin
<1>2. OpToRel(<, Nat) = less
  BY DEF OpToRel
<1>3. \E m \in S : \A n \in S : ~ (<<n, m>> \in less)
  BY <1>1, <1>2, Zenon
<1>4. PICK m \in S : \A n \in S : ~ (<<n, m>> \in less)
  BY <1>3
<1>5. ASSUME NEW n \in S PROVE m <= n
  <2>1. <<n, m>> \in Nat \X Nat
    OBVIOUS
  <2>2. ~ (<<n, m>>[1] < <<n, m>>[2])
    BY <1>4, <2>1
  <2> QED BY <2>2
<1> QED BY <1>5

\* g is what BuildMerged makes of the first n of the spans S.
Merges(g, S, n) ==
  /\ g = [i \in 0 .. n |-> g[i]]
  /\ \A i \in 0 .. n : g[i] = IF i = 0 THEN <<>> ELSE Extend(g[i - 1], S[i])

\* There is such a g for every n: the least n without one would have one.
LEMMA MergeExists ==
  ASSUME NEW S, NEW n \in Nat
  PROVE  \E g : Merges(g, S, n)
<1> DEFINE B == {k \in Nat : ~ \E g : Merges(g, S, k)}
<1> SUFFICES ASSUME B # {} PROVE FALSE
  OBVIOUS
<1>1. PICK m \in B : \A k \in B : m <= k
  <2>1. B \subseteq Nat
    OBVIOUS
  <2> HIDE DEF B
  <2> QED BY <2>1, NatSetHasLeast
<1>2. m \in Nat /\ ~ \E g : Merges(g, S, m)
  BY <1>1
<1>3. CASE m = 0
  <2> DEFINE h == [i \in 0 .. 0 |-> <<>>]
  <2>1. Merges(h, S, 0)
    BY DEF Merges
  <2> QED BY <1>2, <1>3, <2>1
<1>4. CASE m # 0
  <2>1. m - 1 \in Nat /\ m - 1 \notin B
    BY <1>1, <1>2, <1>4
  <2>2. PICK g : Merges(g, S, m - 1)
    BY <2>1
  <2> DEFINE h == [i \in 0 .. m |-> IF i = m THEN Extend(g[m - 1], S[m]) ELSE g[i]]
  <2>3. ASSUME NEW i \in 0 .. m PROVE h[i] = IF i = 0 THEN <<>> ELSE Extend(h[i - 1], S[i])
    <3>1. CASE i = m
      <4>1. h[i] = Extend(g[m - 1], S[m]) /\ h[m - 1] = g[m - 1]
        BY <1>2, <1>4, <3>1
      <4> QED BY <1>4, <3>1, <4>1
    <3>2. CASE i # m
      <4>1. i \in 0 .. (m - 1) /\ h[i] = g[i]
        BY <1>2, <1>4, <3>2
      <4>2. i # 0 => h[i - 1] = g[i - 1]
        BY <1>2, <1>4, <4>1
      <4>3. g[i] = IF i = 0 THEN <<>> ELSE Extend(g[i - 1], S[i])
        BY <2>2, <4>1 DEF Merges
      <4> QED BY <4>1, <4>2, <4>3
    <3> QED BY <3>1, <3>2
  <2>4. h = [i \in 0 .. m |-> h[i]]
    OBVIOUS
  <2> HIDE DEF h
  <2>5. Merges(h, S, m)
    BY <2>3, <2>4 DEF Merges
  <2> QED BY <1>2, <2>5
<1> QED BY <1>3, <1>4

\* BuildMerged is one of them, at the last span.
LEMMA MergedIs ==
  ASSUME NEW windows, Len(Sorted(Spans(windows))) \in Nat
  PROVE  LET S == Sorted(Spans(windows))
         IN  \E g : Merges(g, S, Len(S)) /\ BuildMerged(windows) = g[Len(S)]
<1> DEFINE S == Sorted(Spans(windows))
           n == Len(S)
           made == CHOOSE g : g = [i \in 0 .. n |-> IF i = 0 THEN <<>> ELSE Extend(g[i - 1], S[i])]
<1>1. BuildMerged(windows) = made[n]
  BY DEF BuildMerged
<1> HIDE DEF S
<1>2. n \in Nat
  BY DEF S
<1>3. PICK g : Merges(g, S, n)
  <2> HIDE DEF n
  <2> QED BY <1>2, MergeExists
<1>4. g = [i \in 0 .. n |-> IF i = 0 THEN <<>> ELSE Extend(g[i - 1], S[i])]
  BY <1>3 DEF Merges
<1>5. made = [i \in 0 .. n |-> IF i = 0 THEN <<>> ELSE Extend(made[i - 1], S[i])]
  BY <1>4
<1> HIDE DEF made
<1>6. Merges(made, S, n)
  BY <1>5 DEF Merges
<1> QED BY <1>1, <1>6 DEF S

\* A span holds a minute, and some span of a list does. Spans are disjoint when there is
\* a gap between each and every later one: none touches the next.
Holds(span, x) == span[1] <= x /\ x < span[2]
Spanned(M, x) == \E i \in DOMAIN M : Holds(M[i], x)
Disjoint(M) ==
  /\ M \in Seq(Int \X Int)
  /\ \A i \in 1 .. Len(M) : M[i][1] < M[i][2]
  /\ \A i, j \in 1 .. Len(M) : i < j => M[i][2] < M[j][1]

\* An index that is not the last is before it.
LEMMA Earlier ==
  ASSUME NEW n \in Nat, NEW i \in 1 .. n, i # n
  PROVE  i \in 1 .. (n - 1) /\ i < n
OBVIOUS

\* A span that starts no sooner than the last one is merged: the spans stay disjoint and
\* hold its minutes too.
LEMMA ExtendMerges ==
  ASSUME NEW M, Disjoint(M), NEW s \in Int \X Int, s[1] < s[2],
         M # <<>> => M[Len(M)][1] <= s[1]
  PROVE  LET E == Extend(M, s)
         IN  /\ Disjoint(E) /\ E # <<>> /\ E[Len(E)][1] <= s[1]
             /\ \A x \in Int : Spanned(E, x) <=> Spanned(M, x) \/ Holds(s, x)
<1> DEFINE E == Extend(M, s)
           n == Len(M)
<1>1. M \in Seq(Int \X Int) /\ n \in Nat /\ DOMAIN M = 1 .. n
  BY DEF Disjoint
<1>2. \A i \in 1 .. n : M[i] \in Int \X Int /\ M[i][1] \in Int /\ M[i][2] \in Int /\ M[i][1] < M[i][2]
  BY <1>1 DEF Disjoint
<1>3. \A i, j \in 1 .. n : i < j => M[i][2] < M[j][1]
  BY DEF Disjoint
<1>4. s[1] \in Int /\ s[2] \in Int
  OBVIOUS
<1>5. CASE M # <<>> /\ s[1] <= M[n][2]
  <2> DEFINE top == IF M[n][2] < s[2] THEN s[2] ELSE M[n][2]
             last == <<M[n][1], top>>
  <2>1. n \in 1 .. n /\ n > 0
    BY <1>1, <1>5
  <2>2. Max({Last(M)[2], s[2]}) = top
    BY <1>2, <1>4, <2>1 DEF Max, Last
  <2>3. E = Append(Front(M), last)
    BY <1>5, <2>2 DEF Extend, Last
  <2>4. /\ Front(M) \in Seq(Int \X Int) /\ Len(Front(M)) = n - 1
        /\ \A i \in 1 .. (n - 1) : Front(M)[i] = M[i]
    BY <1>1, <2>1 DEF Front
  <2>5. top \in Int /\ last \in Int \X Int /\ last[1] = M[n][1] /\ last[2] = top
    BY <1>2, <1>4, <2>1
  <2>6. top >= s[2] /\ top >= M[n][2] /\ top \in {s[2], M[n][2]}
    BY <1>2, <1>4, <2>1
  <2> HIDE DEF last, top
  <2>7. /\ E \in Seq(Int \X Int) /\ Len(E) = n /\ DOMAIN E = 1 .. n
        /\ \A i \in 1 .. (n - 1) : E[i] = M[i]
        /\ E[n] = last
    <3> HIDE DEF E
    <3> QED BY <2>1, <2>3, <2>4, <2>5
  <2> HIDE DEF E
  <2>8. ASSUME NEW i \in 1 .. n PROVE E[i][1] = M[i][1] /\ (i # n => E[i] = M[i])
    <3>1. CASE i = n
      BY <2>5, <2>7, <3>1
    <3>2. CASE i # n
      <4>1. i \in 1 .. (n - 1)
        BY <1>1, <3>2, Earlier
      <4> QED BY <2>7, <3>2, <4>1
    <3> QED BY <3>1, <3>2
  <2>9. ASSUME NEW i \in 1 .. n PROVE E[i][1] < E[i][2]
    <3>1. CASE i = n
      <4>1. E[i][1] = M[n][1] /\ E[i][2] = top /\ M[n][1] < M[n][2] /\ M[n][1] \in Int /\ M[n][2] \in Int
        BY <1>2, <2>5, <2>7, <3>1
      <4> QED BY <2>5, <2>6, <4>1
    <3>2. CASE i # n
      BY <1>2, <2>8, <3>2
    <3> QED BY <3>1, <3>2
  <2>10. \A i, j \in 1 .. n : i < j => E[i][2] < E[j][1]
    BY <1>3, <2>1, <2>8
  <2>11. Disjoint(E)
    BY <2>7, <2>9, <2>10 DEF Disjoint
  <2>12. ASSUME NEW x \in Int PROVE Spanned(E, x) <=> Spanned(M, x) \/ Holds(s, x)
    <3>1. Holds(E[n], x) <=> Holds(M[n], x) \/ Holds(s, x)
      BY <1>2, <1>4, <1>5, <2>1, <2>5, <2>6, <2>7 DEF Holds
    <3>2. \A i \in 1 .. n : i # n => (Holds(E[i], x) <=> Holds(M[i], x))
      BY <2>8
    <3> QED BY <1>1, <2>1, <2>7, <3>1, <3>2 DEF Spanned
  <2>13. E # <<>> /\ E[Len(E)][1] <= s[1]
    <3>1. E[n][1] = M[n][1] /\ M[n][1] <= s[1] /\ Len(E) = n
      BY <1>5, <2>5, <2>7
    <3> QED BY <2>1, <2>7, <3>1
  <2> QED BY <2>11, <2>12, <2>13 DEF E
<1>6. CASE ~ (M # <<>> /\ s[1] <= M[n][2])
  <2>1. E = Append(M, s)
    BY <1>6 DEF Extend, Last
  <2> HIDE DEF E
  <2>2. /\ E \in Seq(Int \X Int) /\ Len(E) = n + 1 /\ DOMAIN E = 1 .. (n + 1)
        /\ \A i \in 1 .. n : E[i] = M[i]
        /\ E[n + 1] = s
    BY <1>1, <2>1
  <2>3. \A i \in 1 .. (n + 1) : E[i][1] < E[i][2]
    <3> SUFFICES ASSUME NEW i \in 1 .. (n + 1) PROVE E[i][1] < E[i][2]
      OBVIOUS
    <3>1. CASE i = n + 1
      BY <2>2, <3>1
    <3>2. CASE i # n + 1
      <4>1. i \in 1 .. n
        BY <1>1, <3>2
      <4> QED BY <1>2, <2>2, <4>1
    <3> QED BY <3>1, <3>2
  <2>4. ASSUME NEW i \in 1 .. n PROVE M[i][2] < s[1]
    <3>1. n \in 1 .. n /\ M # <<>>
      BY <1>1
    <3>2. M[n][2] < s[1]
      BY <1>2, <1>4, <1>6, <3>1
    <3>3. CASE i = n
      BY <3>2, <3>3
    <3>4. CASE i # n
      <4>1. i < n
        BY <1>1, <3>4, Earlier
      <4>2. M[i][2] < M[n][1] /\ M[n][1] < M[n][2] /\ M[i][2] \in Int /\ M[n][1] \in Int /\ M[n][2] \in Int
        BY <1>2, <1>3, <3>1, <4>1
      <4> QED BY <1>4, <3>2, <4>2
    <3> QED BY <3>3, <3>4
  <2>5. \A i, j \in 1 .. (n + 1) : i < j => E[i][2] < E[j][1]
    <3> SUFFICES ASSUME NEW i \in 1 .. (n + 1), NEW j \in 1 .. (n + 1), i < j
                 PROVE  E[i][2] < E[j][1]
      OBVIOUS
    <3>1. i \in 1 .. n
      BY <1>1
    <3>2. CASE j = n + 1
      BY <2>2, <2>4, <3>1, <3>2
    <3>3. CASE j # n + 1
      <4>1. j \in 1 .. n
        BY <1>1, <3>3
      <4>2. M[i][2] < M[j][1] /\ E[i] = M[i] /\ E[j] = M[j]
        BY <1>3, <2>2, <3>1, <4>1
      <4> QED BY <4>2
    <3> QED BY <3>2, <3>3
  <2>6. Len(E) \in Nat /\ Disjoint(E)
    BY <1>1, <2>2, <2>3, <2>5 DEF Disjoint
  <2>7. ASSUME NEW x \in Int PROVE Spanned(E, x) <=> Spanned(M, x) \/ Holds(s, x)
    <3>1. n + 1 \in DOMAIN E /\ DOMAIN M \subseteq DOMAIN E
      BY <1>1, <2>2
    <3>2. \A i \in DOMAIN E : i # n + 1 => i \in DOMAIN M
      BY <1>1, <2>2
    <3> QED BY <1>1, <2>2, <3>1, <3>2 DEF Spanned
  <2>8. E # <<>> /\ E[Len(E)][1] <= s[1]
    BY <1>1, <1>4, <2>2
  <2> QED BY <2>6, <2>7, <2>8 DEF E
<1> QED BY <1>5, <1>6

\* Merging a sorted list, span by span: what holds after n spans holds after n + 1.
LEMMA MergeKeeps ==
  ASSUME NEW S \in Seq(Int \X Int), \A i \in DOMAIN S : S[i][1] < S[i][2],
         \A i, j \in DOMAIN S : i < j => S[i][1] <= S[j][1],
         NEW g, Merges(g, S, Len(S))
  PROVE  /\ Disjoint(g[Len(S)])
         /\ \A x \in Int : Spanned(g[Len(S)], x) <=> \E i \in DOMAIN S : Holds(S[i], x)
<1> DEFINE N == Len(S)
           Good(n) == /\ Disjoint(g[n])
                      /\ g[n] # <<>> => n > 0 /\ g[n][Len(g[n])][1] <= S[n][1]
                      /\ \A x \in Int : Spanned(g[n], x) <=> \E i \in 1 .. n : Holds(S[i], x)
           B == {n \in 0 .. N : ~ Good(n)}
<1>1. N \in Nat /\ DOMAIN S = 1 .. N
  OBVIOUS
<1>2. \A n \in 0 .. N : g[n] = IF n = 0 THEN <<>> ELSE Extend(g[n - 1], S[n])
  BY DEF Merges
<1>3. \A n \in 1 .. N : S[n] \in Int \X Int /\ S[n][1] \in Int /\ S[n][1] < S[n][2]
  BY <1>1
<1>4. \A i, j \in 1 .. N : i < j => S[i][1] <= S[j][1]
  BY <1>1
<1> HIDE DEF N
<1>5. Good(0)
  <2>1. g[0] = <<>>
    <3>1. 0 \in 0 .. N
      BY <1>1
    <3>2. g[0] = IF 0 = 0 THEN <<>> ELSE Extend(g[0 - 1], S[0])
      BY <1>2, <3>1, Zenon
    <3> QED BY <3>2
  <2>2. Disjoint(<<>>)
    BY DEF Disjoint
  <2>3. \A x \in Int : ~ Spanned(<<>>, x)
    BY DEF Spanned
  <2> QED BY <2>1, <2>2, <2>3
<1>6. ASSUME NEW n \in 1 .. N, Good(n - 1) PROVE Good(n)
  <2> DEFINE M == g[n - 1]
             s == S[n]
  <2>1. n - 1 \in 0 .. N /\ n \in 0 .. N /\ n # 0
    BY <1>1
  <2>2. g[n] = Extend(M, s)
    BY <1>2, <2>1
  <2>3. s \in Int \X Int /\ s[1] \in Int /\ s[1] < s[2]
    BY <1>3
  <2>4. M # <<>> => M[Len(M)][1] <= s[1]
    <3> SUFFICES ASSUME M # <<>> PROVE M[Len(M)][1] <= s[1]
      OBVIOUS
    <3>1. n - 1 \in 1 .. N /\ n - 1 < n /\ M[Len(M)][1] <= S[n - 1][1]
      BY <1>1, <1>6, <2>1
    <3>2. S[n - 1][1] <= s[1] /\ S[n - 1][1] \in Int
      BY <1>3, <1>4, <3>1
    <3>3. M[Len(M)][1] \in Int
      <4>1. M \in Seq(Int \X Int) /\ M # <<>>
        BY <1>6 DEF Disjoint
      <4> HIDE DEF M
      <4>2. M[Len(M)] \in Int \X Int
        BY <4>1
      <4> QED BY <4>2
    <3> QED BY <2>3, <3>1, <3>2, <3>3
  <2>5. Disjoint(M) /\ \A x \in Int : Spanned(M, x) <=> \E i \in 1 .. (n - 1) : Holds(S[i], x)
    BY <1>6
  <2> HIDE DEF M, s
  <2>6. /\ Disjoint(g[n]) /\ g[n] # <<>> /\ g[n][Len(g[n])][1] <= s[1]
        /\ \A x \in Int : Spanned(g[n], x) <=> Spanned(M, x) \/ Holds(s, x)
    BY <2>2, <2>3, <2>4, <2>5, ExtendMerges
  <2>7. ASSUME NEW x \in Int PROVE Spanned(g[n], x) <=> \E i \in 1 .. n : Holds(S[i], x)
    <3>1. (\E i \in 1 .. n : Holds(S[i], x)) <=> (\E i \in 1 .. (n - 1) : Holds(S[i], x)) \/ Holds(S[n], x)
      <4>1. n \in Nat /\ n \in 1 .. n /\ \A i \in 1 .. (n - 1) : i \in 1 .. n
        BY <1>1
      <4> QED BY <4>1, Earlier
    <3> QED BY <2>5, <2>6, <3>1 DEF s
  <2>8. n > 0
    BY <1>1
  <2> QED BY <2>6, <2>7, <2>8 DEF s
<1>7. B = {}
  <2> SUFFICES ASSUME B # {} PROVE FALSE
    OBVIOUS
  <2>1. B \subseteq Nat
    BY <1>1
  <2>2. PICK m \in B : \A k \in B : m <= k
    <3> HIDE DEF B
    <3> QED BY <2>1, NatSetHasLeast
  <2>3. m \in 0 .. N /\ ~ Good(m)
    BY <2>2
  <2> HIDE DEF Good
  <2>4. m \in 1 .. N
    BY <1>1, <1>5, <2>3
  <2>5. m - 1 \in 0 .. N /\ ~ (m <= m - 1)
    BY <1>1, <2>4
  <2>6. Good(m - 1)
    BY <2>2, <2>5
  <2> QED BY <1>6, <2>3, <2>4, <2>6
<1>8. Good(N)
  <2> HIDE DEF Good
  <2> QED BY <1>1, <1>7
<1> QED BY <1>1, <1>8 DEF N

-----------------------------------------------------------------------------
(* The windows and the merged spans *)

\* Windows as a spec has them.
WellFormed(windows) ==
  IsFiniteSet(windows) /\ \A w \in windows : w.start \in 0 .. (Week - 1) /\ w.end \in Int

\* A day fits in the week.
LEMMA WeekIs == Week \in Nat \ {0} /\ DayLength \in Nat \ {0} /\ DayLength <= Week
<1>1. Days \in Nat \ {0} /\ DayLength \in Nat \ {0}
  BY WeekAssumption
<1> QED BY <1>1 DEF Week

\* Quotient and remainder, of negative numbers too.
LEMMA IntDivides ==
  ASSUME NEW n \in Int, NEW d \in Nat \ {0}
  PROVE  /\ n \div d \in Int /\ n % d \in 0 .. (d - 1)
         /\ n = d * (n \div d) + (n % d)
OBVIOUS

\* A remainder is the only one.
LEMMA DividesOnce ==
  ASSUME NEW d \in Nat \ {0}, NEW k \in Int, NEW r \in 0 .. (d - 1)
  PROVE  (d * k + r) % d = r
<1> DEFINE n == d * k + r
           q == n \div d
           m == n % d
<1>1. n \in Int
  OBVIOUS
<1>2. q \in Int /\ m \in 0 .. (d - 1) /\ n = d * q + m
  BY <1>1, IntDivides
<1>3. n = d * k + r
  OBVIOUS
<1> HIDE DEF n, q, m
<1>4. ASSUME q > k PROVE FALSE
  <2>1. d * q >= d * k + d
    BY <1>2, <1>4
  <2> QED BY <1>2, <1>3, <2>1
<1>5. ASSUME q < k PROVE FALSE
  <2>1. d * k >= d * q + d
    BY <1>2, <1>5
  <2> QED BY <1>2, <1>3, <2>1
<1>6. q = k
  BY <1>2, <1>4, <1>5
<1> QED BY <1>2, <1>3, <1>6 DEF n, m

\* A window is shorter than the week.
LEMMA LengthIs ==
  ASSUME NEW windows, WellFormed(windows), NEW w \in windows
  PROVE  Length(w) \in 0 .. (Week - 1)
<1>1. w.end - w.start \in Int
  BY WeekIs DEF WellFormed
<1> QED BY <1>1, WeekIs, IntDivides DEF Length

\* The spans are finitely many, and none is empty.
LEMMA SpansAre ==
  ASSUME NEW windows, WellFormed(windows)
  PROVE  /\ IsFiniteSet(Spans(windows)) /\ Spans(windows) \subseteq Int \X Int
         /\ \A s \in Spans(windows) : s[1] < s[2]
<1> DEFINE long == {v \in windows : Length(v) # 0}
           pairs == long \X Offsets
           f == [x \in pairs |-> <<x[1].start + x[2], x[1].start + x[2] + Length(x[1])>>]
<1>1. IsFiniteSet(Offsets)
  <2>1. IsFiniteSet({-Week}) /\ IsFiniteSet({0}) /\ IsFiniteSet({Week}) /\ IsFiniteSet({2 * Week})
    BY FS_Singleton
  <2>2. Offsets = {-Week} \cup {0} \cup {Week} \cup {2 * Week}
    BY DEF Offsets
  <2>3. IsFiniteSet({-Week} \cup {0})
    BY <2>1, FS_Union
  <2>4. IsFiniteSet({-Week} \cup {0} \cup {Week})
    BY <2>1, <2>3, FS_Union
  <2> QED BY <2>1, <2>2, <2>4, FS_Union
<1>2. IsFiniteSet(long)
  <2>1. long \in SUBSET windows /\ IsFiniteSet(windows)
    BY DEF WellFormed
  <2> QED BY <2>1, FS_Subset
<1>3. IsFiniteSet(pairs)
  BY <1>1, <1>2, FS_Product
<1>4. ASSUME NEW s \in Spans(windows) PROVE s \in {f[x] : x \in pairs}
  <2>1. PICK w \in long, off \in Offsets : s = <<w.start + off, w.start + off + Length(w)>>
    BY DEF Spans
  <2>2. <<w, off>> \in pairs /\ f[<<w, off>>] = s
    BY <2>1
  <2> QED BY <2>2
<1>5. IsFiniteSet(Spans(windows))
  <2> HIDE DEF f, pairs
  <2>1. IsFiniteSet({f[x] : x \in pairs})
    BY <1>3, FiniteImage
  <2>2. Spans(windows) \in SUBSET {f[x] : x \in pairs}
    BY <1>4
  <2> QED BY <2>1, <2>2, FS_Subset
<1>6. ASSUME NEW s \in Spans(windows)
      PROVE  s \in Int \X Int /\ s[1] < s[2]
  <2>1. PICK w \in long, off \in Offsets : s = <<w.start + off, w.start + off + Length(w)>>
    BY DEF Spans
  <2>2. w.start \in Int /\ Length(w) \in Int /\ Length(w) > 0
    BY LengthIs, WeekIs DEF WellFormed
  <2>3. off \in Int
    BY WeekIs DEF Offsets
  <2> QED BY <2>1, <2>2, <2>3
<1> QED BY <1>5, <1>6

\* The merged spans are disjoint and hold the minutes of the spans, no more.
LEMMA MergedIsUnion ==
  ASSUME NEW windows, WellFormed(windows)
  PROVE  /\ Disjoint(BuildMerged(windows))
         /\ \A x \in Int : Spanned(BuildMerged(windows), x) <=> \E s \in Spans(windows) : Holds(s, x)
<1> DEFINE S == Sorted(Spans(windows))
<1>1. /\ S \in Seq(Spans(windows))
      /\ \A s \in Spans(windows) : \E i \in DOMAIN S : S[i] = s
      /\ \A i, j \in DOMAIN S : i < j => S[i][1] <= S[j][1]
  BY SpansAre, SortedSorts
<1>2. PICK g : Merges(g, S, Len(S)) /\ BuildMerged(windows) = g[Len(S)]
  <2>1. Len(S) \in Nat
    <3> HIDE DEF S
    <3> QED BY <1>1
  <2> QED BY <2>1, MergedIs
<1> HIDE DEF S
<1>3. S \in Seq(Int \X Int) /\ \A i \in DOMAIN S : S[i] \in Spans(windows)
  BY <1>1, SpansAre
<1>4. \A i \in DOMAIN S : S[i][1] < S[i][2]
  BY <1>3, SpansAre
<1>5. /\ Disjoint(g[Len(S)])
      /\ \A x \in Int : Spanned(g[Len(S)], x) <=> \E i \in DOMAIN S : Holds(S[i], x)
  BY <1>1, <1>2, <1>3, <1>4, MergeKeeps
<1>6. ASSUME NEW x \in Int
      PROVE  (\E i \in DOMAIN S : Holds(S[i], x)) <=> (\E s \in Spans(windows) : Holds(s, x))
  BY <1>1, <1>3
<1> QED BY <1>2, <1>5, <1>6

\* Between the week before and the week after the next the spans are the windows.
LEMMA SpansSayWindows ==
  ASSUME NEW windows, WellFormed(windows), NEW x \in 0 .. (3 * Week - 1)
  PROVE  (\E s \in Spans(windows) : Holds(s, x)) <=> Covered(windows, x)
<1>1. Week \in Nat \ {0} /\ x \in Int
  BY WeekIs
<1>2. ASSUME NEW s \in Spans(windows), Holds(s, x) PROVE Covered(windows, x)
  <2>1. PICK w \in windows, off \in Offsets : s = <<w.start + off, w.start + off + Length(w)>>
    BY DEF Spans
  <2>2. w.start \in Int /\ Length(w) \in 0 .. (Week - 1)
    BY <1>1, LengthIs DEF WellFormed
  <2>3. PICK k \in {-1, 0, 1, 2} : off = Week * k
    BY <1>1 DEF Offsets
  <2> DEFINE r == x - w.start - Week * k
  <2>4. Week * k \in Int
    BY <1>1
  <2>5. w.start + Week * k <= x /\ x < w.start + Week * k + Length(w)
    BY <1>2, <2>1, <2>3 DEF Holds
  <2>6. r \in 0 .. (Week - 1) /\ r < Length(w) /\ x - w.start = Week * k + r
    BY <1>1, <2>2, <2>4, <2>5
  <2> HIDE DEF r
  <2>7. (x - w.start) % Week = r
    BY <1>1, <2>6, DividesOnce
  <2> QED BY <2>6, <2>7 DEF Covered
<1>3. ASSUME NEW w \in windows, (x - w.start) % Week < Length(w)
      PROVE  \E s \in Spans(windows) : Holds(s, x)
  <2> DEFINE a == x - w.start
             q == a \div Week
             r == a % Week
             l == Length(w)
             off == Week * q
  <2>1. w.start \in 0 .. (Week - 1) /\ l \in 0 .. (Week - 1)
    BY <1>1, LengthIs DEF WellFormed
  <2>2. a \in Int /\ a > - Week /\ a < 3 * Week
    BY <1>1, <2>1
  <2>3. q \in Int /\ r \in 0 .. (Week - 1) /\ a = Week * q + r
    BY <1>1, <2>2, IntDivides
  <2>4. a = x - w.start /\ r < l
    BY <1>3
  <2> HIDE DEF a, q, r, l
  <2>5. q \in {-1, 0, 1, 2}
    <3>1. ASSUME q <= -2 PROVE FALSE
      <4>1. Week * q <= Week * (-2)
        BY <1>1, <2>3, <3>1
      <4> QED BY <1>1, <2>2, <2>3, <4>1
    <3>2. ASSUME q >= 3 PROVE FALSE
      <4>1. Week * q >= Week * 3
        BY <1>1, <2>3, <3>2
      <4> QED BY <1>1, <2>2, <2>3, <4>1
    <3> QED BY <2>3, <3>1, <3>2
  <2>6. off \in Offsets
    BY <1>1, <2>5 DEF Offsets
  <2>7. off \in Int /\ a = off + r
    BY <1>1, <2>3
  <2> HIDE DEF off
  <2> DEFINE s == <<w.start + off, w.start + off + Length(w)>>
  <2>8. s \in Spans(windows)
    <3>1. Length(w) # 0
      BY <1>1, <2>1, <2>3, <2>4 DEF l
    <3> QED BY <2>6, <3>1 DEF Spans
  <2>9. Holds(s, x)
    <3>1. w.start + off <= x /\ x < w.start + off + l
      BY <1>1, <2>1, <2>3, <2>4, <2>7
    <3> QED BY <3>1 DEF Holds, l
  <2> QED BY <2>8, <2>9
<1> QED BY <1>2, <1>3 DEF Covered

\* A time and its minute in the middle copy of the week are as good.
LEMMA CoveredWeekly ==
  ASSUME NEW windows, WellFormed(windows), NEW t \in Nat, NEW d \in Nat
  PROVE  /\ WeekMin(t) \in 0 .. (Week - 1)
         /\ Covered(windows, t + d) <=> Covered(windows, Week + WeekMin(t) + d)
<1> DEFINE q == t \div Week
           m == WeekMin(t)
<1>1. Week \in Nat \ {0}
  BY WeekIs
<1>2. q \in Int /\ m \in 0 .. (Week - 1) /\ t = Week * q + m
  BY <1>1, IntDivides DEF WeekMin
<1> HIDE DEF q, m
<1>3. ASSUME NEW w \in windows
      PROVE  ((t + d) - w.start) % Week = ((Week + m + d) - w.start) % Week
  <2> DEFINE b == (Week + m + d) - w.start
             k == b \div Week
             r == b % Week
  <2>1. w.start \in Int
    BY <1>1 DEF WellFormed
  <2>2. b \in Int
    BY <1>1, <1>2, <2>1
  <2>3. k \in Int /\ r \in 0 .. (Week - 1) /\ b = Week * k + r
    BY <1>1, <2>2, IntDivides
  <2>4. b = (Week + m + d) - w.start
    OBVIOUS
  <2> HIDE DEF b, k, r
  <2>5. (t + d) - w.start = Week * q + b - Week
    <3>1. Week * q \in Int
      BY <1>1, <1>2
    <3> QED BY <1>1, <1>2, <2>1, <2>4, <3>1
  <2>6. Week * (q + k - 1) = Week * q + Week * k - Week /\ Week * k \in Int /\ Week * q \in Int
    BY <1>1, <1>2, <2>3
  <2>7. (t + d) - w.start = Week * (q + k - 1) + r
    BY <1>1, <2>3, <2>5, <2>6
  <2>8. q + k - 1 \in Int
    BY <1>2, <2>3
  <2>9. ((t + d) - w.start) % Week = r
    BY <1>1, <2>3, <2>7, <2>8, DividesOnce
  <2> QED BY <2>9 DEF r, b
<1>4. ASSUME NEW w \in windows
      PROVE  ((t + d) - w.start) % Week < Length(w) <=> ((Week + m + d) - w.start) % Week < Length(w)
  BY <1>3
<1>5. Covered(windows, t + d) <=> Covered(windows, Week + m + d)
  <2>1. ASSUME Covered(windows, t + d) PROVE Covered(windows, Week + m + d)
    <3>1. PICK w \in windows : ((t + d) - w.start) % Week < Length(w)
      BY <2>1 DEF Covered
    <3> QED BY <1>4, <3>1 DEF Covered
  <2>2. ASSUME Covered(windows, Week + m + d) PROVE Covered(windows, t + d)
    <3>1. PICK w \in windows : ((Week + m + d) - w.start) % Week < Length(w)
      BY <2>2 DEF Covered
    <3> QED BY <1>4, <3>1 DEF Covered
  <2> QED BY <2>1, <2>2
<1> QED BY <1>2, <1>5 DEF m

\* _containing_span looks for a minute in the middle copy of the week only, and yet the
\* panel sleeps at it when, and only when, a window covers it, whatever neighbouring
\* weeks' windows reach into it.
THEOREM SleepIsCovered ==
  ASSUME NEW windows, WellFormed(windows), NEW t \in Nat
  PROVE  IsAsleep(BuildMerged(windows), t) <=> Covered(windows, t)
<1> DEFINE p == Week + WeekMin(t)
           M == BuildMerged(windows)
<1>1. Week \in Nat \ {0} /\ WeekMin(t) \in 0 .. (Week - 1)
  BY WeekIs, CoveredWeekly, 0 \in Nat
<1>2. Covered(windows, t) <=> Covered(windows, p)
  <2>1. Covered(windows, t + 0) <=> Covered(windows, p + 0)
    BY CoveredWeekly, 0 \in Nat
  <2>2. t + 0 = t /\ p + 0 = p
    BY <1>1
  <2> QED BY <2>1, <2>2
<1>3. p \in 0 .. (3 * Week - 1) /\ p \in Int
  BY <1>1
<1>4. IsAsleep(M, t) <=> Spanned(M, p)
  <2> HIDE DEF M
  <2> QED BY DEF IsAsleep, Containing, Spanned, Holds, Range
<1> HIDE DEF p
<1>5. Spanned(M, p) <=> \E s \in Spans(windows) : Holds(s, p)
  BY <1>3, MergedIsUnion
<1> QED BY <1>2, <1>3, <1>4, <1>5, SpansSayWindows

\* The next midnight is later, by a day at most.
LEMMA MidnightIsNext ==
  ASSUME NEW t \in Nat
  PROVE  NextMidnight(t) \in Nat /\ t < NextMidnight(t) /\ NextMidnight(t) <= t + DayLength
<1> DEFINE q == t \div DayLength
           r == t % DayLength
<1>1. DayLength \in Nat \ {0}
  BY WeekIs
<1>2. q \in Int /\ r \in 0 .. (DayLength - 1) /\ t = DayLength * q + r
  BY <1>1, IntDivides
<1>3. NextMidnight(t) = (q + 1) * DayLength
  BY DEF NextMidnight
<1> HIDE DEF q, r
<1>4. (q + 1) * DayLength = DayLength * q + DayLength /\ DayLength * q \in Int
  BY <1>1, <1>2
<1> QED BY <1>1, <1>2, <1>3, <1>4

\* wake_until gives a tap on a panel that sleeps the end of the merged span, cut at
\* midnight: that is the first minute that is midnight or that no window covers, so the
\* panel neither falls asleep again within the time promised nor stays lit beyond it.
THEOREM WakeIsPromised ==
  ASSUME NEW windows, WellFormed(windows), NEW t \in Nat, Covered(windows, t)
  PROVE  LET until == WakeUntil(BuildMerged(windows), t)
         IN  /\ until = WakeEnd(windows, t)
             /\ until \in Nat /\ t < until /\ until <= t + DayLength
<1> DEFINE M == BuildMerged(windows)
           p == Week + WeekMin(t)
           mid == NextMidnight(t)
           span == CHOOSE s \in Containing(M, t) : TRUE
           ends == t + span[2] - p
           until == IF ends < mid THEN ends ELSE mid
<1>1. /\ Week \in Nat \ {0} /\ DayLength \in Nat \ {0} /\ DayLength <= Week
      /\ WeekMin(t) \in 0 .. (Week - 1)
  BY WeekIs, CoveredWeekly, 0 \in Nat
<1>2. p \in Nat /\ p < 2 * Week
  BY <1>1
<1>3. mid \in Nat /\ t < mid /\ mid <= t + DayLength
  BY MidnightIsNext
<1>4. Disjoint(M) /\ \A x \in Int : Spanned(M, x) <=> \E s \in Spans(windows) : Holds(s, x)
  BY MergedIsUnion
<1>5. IsAsleep(M, t)
  BY SleepIsCovered
<1>6. span \in Containing(M, t)
  BY <1>5 DEF IsAsleep
<1>7. WakeUntil(M, t) = Min({ends, mid})
  BY <1>5 DEF WakeUntil, CurrentWindowEnd
<1> HIDE DEF M, span, mid
<1>8. PICK i \in 1 .. Len(M) : span = M[i]
  <2>1. DOMAIN M = 1 .. Len(M)
    BY <1>4 DEF Disjoint
  <2> QED BY <1>6, <2>1 DEF Containing, Range
<1>9. M \in Seq(Int \X Int) /\ Len(M) \in Nat /\ DOMAIN M = 1 .. Len(M)
  BY <1>4 DEF Disjoint
<1>10. span[1] \in Int /\ span[2] \in Int /\ span[1] <= p /\ p < span[2]
  <2>1. M[i] \in Int \X Int
    BY <1>9
  <2> QED BY <1>6, <1>8, <2>1 DEF Containing
<1>11. ends \in Int /\ t < ends
  BY <1>2, <1>10
\* Up to its end the span covers every minute, and at its end nothing does.
<1>12. ASSUME NEW x \in Int, p <= x, x < span[2] PROVE Spanned(M, x)
  <2>1. span[1] <= x
    BY <1>2, <1>10, <1>12
  <2> QED BY <1>8, <1>9, <1>12, <2>1 DEF Spanned, Holds
<1>13. ~ Spanned(M, span[2])
  <2> SUFFICES ASSUME NEW j \in 1 .. Len(M), M[j][1] <= span[2], span[2] < M[j][2]
               PROVE  FALSE
    BY <1>9 DEF Spanned, Holds
  <2>1. M[j] \in Int \X Int /\ M[j][1] \in Int /\ M[j][2] \in Int /\ i \in Int /\ j \in Int
    BY <1>9
  <2>2. CASE i < j
    <3>1. M[i][2] < M[j][1]
      BY <1>4, <2>2 DEF Disjoint
    <3> QED BY <1>8, <1>10, <2>1, <3>1
  <2>3. CASE j < i
    <3>1. M[j][2] < M[i][1]
      BY <1>4, <2>3 DEF Disjoint
    <3> QED BY <1>2, <1>8, <1>10, <2>1, <3>1
  <2>4. CASE i = j
    BY <1>8, <1>10, <2>4
  <2> QED BY <2>1, <2>2, <2>3, <2>4
\* The minutes of the day, in the middle copy of the week.
<1>14. ASSUME NEW u \in Nat, t <= u, u <= mid
       PROVE  Covered(windows, u) <=> Spanned(M, p + (u - t))
  <2> DEFINE d == u - t
  <2>1. d \in Nat /\ d <= Week /\ t + d = u
    BY <1>1, <1>3, <1>14
  <2> HIDE DEF d
  <2>2. Covered(windows, t + d) <=> Covered(windows, p + d)
    BY <2>1, CoveredWeekly
  <2>3. p + d \in 0 .. (3 * Week - 1) /\ p + d \in Int
    BY <1>1, <1>2, <2>1
  <2> HIDE DEF p
  <2>4. Covered(windows, p + d) <=> \E s \in Spans(windows) : Holds(s, p + d)
    BY <2>3, SpansSayWindows
  <2>5. Spanned(M, p + d) <=> \E s \in Spans(windows) : Holds(s, p + d)
    BY <1>4, <2>3
  <2> QED BY <2>1, <2>2, <2>4, <2>5 DEF d
<1>15. until \in (t + 1) .. mid /\ until \in Nat
  BY <1>3, <1>11
<1>16. until = mid \/ ~ Covered(windows, until)
  <2> SUFFICES ASSUME ends < mid PROVE ~ Covered(windows, ends)
    OBVIOUS
  <2>1. ends \in Nat /\ t <= ends /\ ends <= mid /\ p + (ends - t) = span[2]
    BY <1>2, <1>3, <1>10, <1>11
  <2> HIDE DEF ends, p
  <2> QED BY <1>13, <1>14, <2>1
<1>17. ASSUME NEW v \in (t + 1) .. (until - 1) PROVE Covered(windows, v)
  <2>1. v \in Nat /\ t <= v /\ v <= mid /\ v < ends
    BY <1>3, <1>11, <1>15
  <2>2. p + (v - t) \in Int /\ p <= p + (v - t) /\ p + (v - t) < span[2]
    BY <1>2, <1>10, <2>1
  <2> HIDE DEF p, ends
  <2> QED BY <1>12, <1>14, <2>1, <2>2
<1> HIDE DEF until
<1>18. ASSUME NEW u \in (t + 1) .. mid, u = mid \/ ~ Covered(windows, u),
              \A v \in (t + 1) .. (u - 1) : Covered(windows, v)
       PROVE  u = until
  <2>1. u \in Int /\ until \in Int /\ u <= mid /\ until <= mid /\ t + 1 <= u /\ t + 1 <= until
    BY <1>3, <1>15
  <2>2. ASSUME u < until PROVE FALSE
    <3>1. u \in (t + 1) .. (until - 1) /\ u # mid
      BY <1>3, <2>1, <2>2
    <3> QED BY <1>17, <1>18, <3>1
  <2>3. ASSUME until < u PROVE FALSE
    <3>1. until \in (t + 1) .. (u - 1) /\ until # mid
      BY <1>3, <2>1, <2>3
    <3> QED BY <1>16, <1>18, <3>1
  <2> QED BY <2>1, <2>2, <2>3
<1>19. WakeEnd(windows, t) = until
  <2> DEFINE P(u) == /\ u = mid \/ ~ Covered(windows, u)
                     /\ \A v \in (t + 1) .. (u - 1) : Covered(windows, v)
  <2>1. WakeEnd(windows, t) = CHOOSE u \in (t + 1) .. mid : P(u)
    BY DEF WakeEnd, mid
  <2>2. P(until)
    BY <1>16, <1>17
  <2>3. \A u \in (t + 1) .. mid : P(u) => u = until
    BY <1>18
  <2> HIDE DEF P
  <2> QED BY <1>15, <2>1, <2>2, <2>3
<1>20. WakeUntil(M, t) = until
  <2> HIDE DEF ends
  <2> QED BY <1>3, <1>7, <1>11 DEF Min, until
<1> QED BY <1>1, <1>3, <1>15, <1>19, <1>20 DEF M

-----------------------------------------------------------------------------
(* The sleep of the panel *)

\* The windows of a spec that parses are well formed.
LEMMA WindowsAreFormed ==
  ASSUME NEW s \in Valid
  PROVE  WellFormed(Windows(Rules[s]))
<1> DEFINE W == Windows(Rules[s])
           of == [rule \in Rules[s] |-> RuleWindows(rule)]
<1>1. IsFiniteSet(Rules[s]) /\ \A rule \in Rules[s] :
         \/ rule.form = "daily" /\ {rule.from, rule.to} \subseteq 0 .. (DayLength - 1)
         \/ rule.form = "span" /\ {rule.from, rule.to} \subseteq 0 .. (Week - 1)
  BY RulesAssumption DEF Valid, Parses
<1>2. DayLength \in Nat \ {0} /\ Days \in Nat \ {0} /\ Week = Days * DayLength /\ Week \in Nat \ {0}
  BY WeekAssumption, WeekIs DEF Week
<1>3. ASSUME NEW rule \in Rules[s]
      PROVE  IsFiniteSet(RuleWindows(rule)) /\ \A w \in RuleWindows(rule) : w.start \in 0 .. (Week - 1) /\ w.end \in Int
  <2>1. CASE rule.form = "daily" /\ {rule.from, rule.to} \subseteq 0 .. (DayLength - 1)
    <3> DEFINE f == [d \in 0 .. (Days - 1) |->
                       [start |-> d * DayLength + rule.from,
                        end |-> d * DayLength + rule.to + IF rule.to <= rule.from THEN DayLength ELSE 0]]
    <3>1. RuleWindows(rule) = {f[d] : d \in 0 .. (Days - 1)}
      BY <2>1 DEF RuleWindows
    <3>2. IsFiniteSet(0 .. (Days - 1))
      BY <1>2, FS_Interval
    <3>3. ASSUME NEW d \in 0 .. (Days - 1)
          PROVE  f[d].start \in 0 .. (Week - 1) /\ f[d].end \in Int
      <4>1. d * DayLength \in Nat /\ d * DayLength <= (Days - 1) * DayLength
        BY <1>2
      <4>2. (Days - 1) * DayLength = Week - DayLength
        BY <1>2
      <4>3. rule.from \in 0 .. (DayLength - 1) /\ rule.to \in 0 .. (DayLength - 1)
        BY <2>1
      <4>4. d * DayLength + rule.from \in 0 .. (Week - 1)
        BY <1>2, <4>1, <4>2, <4>3
      <4>5. d * DayLength + rule.to + (IF rule.to <= rule.from THEN DayLength ELSE 0) \in Int
        BY <1>2, <4>1, <4>3
      <4> QED BY <4>4, <4>5
    <3> HIDE DEF f
    <3>4. IsFiniteSet({f[d] : d \in 0 .. (Days - 1)})
      BY <3>2, FiniteImage
    <3> QED BY <3>1, <3>3, <3>4
  <2>2. CASE rule.form = "span" /\ {rule.from, rule.to} \subseteq 0 .. (Week - 1)
    <3> DEFINE w == [start |-> rule.from, end |-> rule.to]
    <3>1. RuleWindows(rule) = {w}
      BY <2>2 DEF RuleWindows
    <3>2. w.start \in 0 .. (Week - 1) /\ w.end \in Int
      BY <1>2, <2>2
    <3> HIDE DEF w
    <3> QED BY <3>1, <3>2, FS_Singleton
  <2> QED BY <1>1, <2>1, <2>2
<1>4. W = UNION {of[rule] : rule \in Rules[s]}
  BY DEF Windows
<1>5. IsFiniteSet({of[rule] : rule \in Rules[s]})
  BY <1>1, FiniteImage
<1>6. \A T \in {of[rule] : rule \in Rules[s]} : IsFiniteSet(T)
  BY <1>3
<1>7. IsFiniteSet(W)
  <2> HIDE DEF of, W
  <2> QED BY <1>4, <1>5, <1>6, FS_UNION
<1>8. ASSUME NEW w \in W PROVE w.start \in 0 .. (Week - 1) /\ w.end \in Int
  <2>1. PICK rule \in Rules[s] : w \in RuleWindows(rule)
    BY DEF Windows
  <2> QED BY <1>3, <2>1
<1> QED BY <1>7, <1>8 DEF WellFormed

\* Until when a tap keeps the panel awake, 0 when there was nothing to wake it from.
Sleeps(s, t) == Covered(Windows(Rules[s]), t)
Promised(tap) ==
  IF tap.at > 0 /\ Sleeps(tap.under, tap.at) THEN WakeEnd(Windows(Rules[tap.under]), tap.at) ELSE 0

\* The tables say what the windows say.
LEMMA AsleepIs ==
  ASSUME NEW s \in Valid, NEW t \in 0 .. LastMinute
  PROVE  /\ Asleep[s][t] <=> Sleeps(s, t)
         /\ Sleeps(s, t) => /\ Deadline[s][t] = WakeEnd(Windows(Rules[s]), t)
                            /\ Deadline[s][t] \in Nat /\ t < Deadline[s][t]
                            /\ Deadline[s][t] <= t + DayLength
<1>1. WellFormed(Windows(Rules[s])) /\ t \in Nat
  BY WindowsAreFormed, PanelAssumption
<1>2. Merged[s] = BuildMerged(Windows(Rules[s]))
  BY DEF Merged
<1>3. Asleep[s][t] = IsAsleep(Merged[s], t) /\ Deadline[s][t] = WakeUntil(Merged[s], t)
  BY DEF Asleep, Deadline
<1> QED BY <1>1, <1>2, <1>3, SleepIsCovered, WakeIsPromised DEF Sleeps

\* A deadline is the one that the last wake tap was promised, or none, because that one is
\* over or because there was none.
SleepInv ==
  /\ clock \in 1 .. LastMinute /\ schedule \in Valid /\ woken \in [at : 0 .. LastMinute, under : Valid]
  /\ wakeUntil \in 0 .. (LastMinute + DayLength) /\ manual \in BOOLEAN
  /\ wakeUntil = Promised(woken) \/ (wakeUntil = 0 /\ Promised(woken) <= clock)

\* A tap keeps the panel awake until what it was promised.
LEMMA PromisedIs ==
  ASSUME NEW tap \in [at : 0 .. LastMinute, under : Valid], clock \in Nat
  PROVE  /\ Promised(tap) \in 0 .. (LastMinute + DayLength)
         /\ AwakeThrough(tap) <=> clock < Promised(tap)
<1>1. tap.at \in 0 .. LastMinute /\ tap.under \in Valid
  OBVIOUS
<1>2. LastMinute \in Nat /\ DayLength \in Nat
  BY PanelAssumption, WeekIs
<1>3. CASE tap.at > 0 /\ Sleeps(tap.under, tap.at)
  <2>1. Promised(tap) = WakeEnd(Windows(Rules[tap.under]), tap.at)
    BY <1>3 DEF Promised
  <2>2. Promised(tap) \in Nat /\ Promised(tap) <= tap.at + DayLength
    BY <1>1, <1>3, <2>1, AsleepIs
  <2> QED BY <1>1, <1>2, <1>3, <2>1, <2>2 DEF AwakeThrough, Sleeps
<1>4. CASE ~ (tap.at > 0 /\ Sleeps(tap.under, tap.at))
  BY <1>2, <1>4 DEF AwakeThrough, Promised, Sleeps
<1> QED BY <1>3, <1>4

\* The schedule is that of a spec that parses, whatever the server serves.
LEMMA ResolveKeeps ==
  ASSUME schedule \in Valid, spec \in ServerSpecs, Resolve
  PROVE  schedule' \in Valid /\ cached' \in ServerSpecs
<1>1. Chosen \in Specs
  BY PanelAssumption DEF Chosen
<1>2. Chosen \in ServerSpecs /\ (Parses(Rules[Chosen]) => Chosen \in Valid)
  BY <1>1, PanelAssumption DEF Valid
<1> QED BY <1>2 DEF Resolve

LEMMA DefaultIsValid == DefaultSpec \in Valid
  BY PanelAssumption DEF Valid

\* No tap, no promise.
LEMMA SleepInit == Init => SleepInv
<1> SUFFICES ASSUME Init PROVE SleepInv
  OBVIOUS
<1>1. /\ clock = FirstMinute /\ schedule = DefaultSpec /\ wakeUntil = 0 /\ manual = FALSE
      /\ woken = [at |-> 0, under |-> DefaultSpec]
  BY DEF Init
<1>2. clock \in 1 .. LastMinute /\ LastMinute \in Nat /\ DayLength \in Nat
  BY <1>1, PanelAssumption, WeekIs
<1>3. woken \in [at : 0 .. LastMinute, under : Valid] /\ woken.at = 0
  BY <1>1, <1>2, DefaultIsValid
<1>4. Promised(woken) = 0
  BY <1>3 DEF Promised
<1>5. wakeUntil \in 0 .. (LastMinute + DayLength) /\ wakeUntil = Promised(woken)
  BY <1>1, <1>2, <1>4
<1>6. schedule \in Valid /\ manual \in BOOLEAN
  BY <1>1, DefaultIsValid
<1> QED BY <1>2, <1>3, <1>5, <1>6 DEF SleepInv

\* Only a wake tap makes a promise. A frame drops the deadline only once it is over, and
\* a schedule that changes leaves it as it was.
LEMMA SleepStep ==
  ASSUME SleepInv, spec \in ServerSpecs, [Next]_vars
  PROVE  SleepInv'
<1>1. /\ clock \in 1 .. LastMinute /\ schedule \in Valid /\ woken \in [at : 0 .. LastMinute, under : Valid]
      /\ wakeUntil \in 0 .. (LastMinute + DayLength) /\ manual \in BOOLEAN
      /\ wakeUntil = Promised(woken) \/ (wakeUntil = 0 /\ Promised(woken) <= clock)
  BY DEF SleepInv
<1>2. LastMinute \in Nat /\ DayLength \in Nat /\ clock \in Nat
  BY <1>1, PanelAssumption, WeekIs
<1>3. Promised(woken) \in 0 .. (LastMinute + DayLength)
  BY <1>1, <1>2, PromisedIs
<1>4. CASE BeginFrame
  <2>1. /\ clock' \in {clock, clock + 1} /\ clock' <= LastMinute /\ Resolve
        /\ wakeUntil' = (IF clock' >= wakeUntil THEN 0 ELSE wakeUntil)
        /\ UNCHANGED <<manual, woken>>
    BY <1>4 DEF BeginFrame
  <2>2. clock' \in 1 .. LastMinute /\ clock <= clock'
    BY <1>1, <1>2, <2>1
  <2>3. schedule' \in Valid
    BY <1>1, <2>1, ResolveKeeps
  <2>4. Promised(woken)' = Promised(woken)
    BY <2>1 DEF Promised
  <2>5. wakeUntil' = Promised(woken) \/ (wakeUntil' = 0 /\ Promised(woken) <= clock')
    BY <1>1, <1>2, <1>3, <2>1, <2>2
  <2>6. wakeUntil' \in 0 .. (LastMinute + DayLength)
    BY <1>1, <1>2, <2>1
  <2> QED BY <1>1, <2>1, <2>2, <2>3, <2>4, <2>5, <2>6 DEF SleepInv
<1>5. CASE WakeTap
  <2>1. /\ manual' = FALSE /\ UNCHANGED <<clock, schedule>>
        /\ wakeUntil' = (IF Asleep[schedule][clock] THEN Deadline[schedule][clock] ELSE 0)
        /\ woken' = [at |-> clock, under |-> schedule]
    BY <1>5 DEF WakeTap
  <2>2. clock \in 0 .. LastMinute
    BY <1>1, <1>2
  <2>3. woken' \in [at : 0 .. LastMinute, under : Valid] /\ woken'.at = clock /\ woken'.under = schedule
    BY <1>1, <2>1, <2>2
  <2>4. wakeUntil' = Promised(woken') /\ Promised(woken') \in 0 .. (LastMinute + DayLength)
    <3>1. Promised(woken') \in 0 .. (LastMinute + DayLength)
      BY <1>2, <2>3, PromisedIs
    <3>2. Asleep[schedule][clock] <=> Sleeps(schedule, clock)
      BY <1>1, <2>2, AsleepIs
    <3>3. CASE Sleeps(schedule, clock)
      <4>1. wakeUntil' = WakeEnd(Windows(Rules[schedule]), clock)
        BY <1>1, <2>1, <2>2, <3>2, <3>3, AsleepIs
      <4>2. Promised(woken') = WakeEnd(Windows(Rules[schedule]), clock)
        BY <1>1, <2>3, <3>3 DEF Promised
      <4> QED BY <3>1, <4>1, <4>2
    <3>4. CASE ~ Sleeps(schedule, clock)
      <4>1. wakeUntil' = 0 /\ Promised(woken') = 0
        BY <2>1, <2>3, <3>2, <3>4 DEF Promised
      <4> QED BY <3>1, <4>1
    <3> QED BY <3>3, <3>4
  <2> QED BY <1>1, <2>1, <2>3, <2>4 DEF SleepInv, Promised
<1>6. CASE Restart
  <2>1. /\ schedule' = DefaultSpec /\ wakeUntil' = 0 /\ manual' = FALSE /\ clock' = clock
        /\ woken' = [at |-> 0, under |-> DefaultSpec]
    BY <1>6 DEF Restart, Starts
  <2>2. woken' \in [at : 0 .. LastMinute, under : Valid] /\ woken'.at = 0
    BY <1>2, <2>1, DefaultIsValid
  <2>3. Promised(woken') = 0
    BY <2>2 DEF Promised
  <2>4. wakeUntil' \in 0 .. (LastMinute + DayLength) /\ wakeUntil' = Promised(woken')
    BY <1>2, <2>1, <2>3
  <2>5. clock' \in 1 .. LastMinute /\ schedule' \in Valid /\ manual' \in BOOLEAN
    BY <1>1, <2>1, DefaultIsValid
  <2>6. Promised(woken') = Promised(woken)'
    BY DEF Promised
  <2> QED BY <2>2, <2>4, <2>5, <2>6 DEF SleepInv
<1>7. CASE DoubleTap \/ UNCHANGED <<clock, sleeping>>
  <2>1. UNCHANGED <<clock, schedule, wakeUntil, woken>> /\ manual' \in BOOLEAN
    BY <1>1, <1>7 DEF DoubleTap, sleeping
  <2>2. Promised(woken)' = Promised(woken)
    BY <2>1 DEF Promised
  <2> QED BY <1>1, <2>1, <2>2 DEF SleepInv
<1>8. CASE OverlayTap \/ SaveLevel \/ SingleTap \/ EndFrame \/ (\E spot \in Spots : Tap(spot)) \/ UNCHANGED vars
           \/ (FetcherNext /\ UNCHANGED panel)
  <2>1. UNCHANGED <<clock, sleeping>>
    BY <1>8 DEF OverlayTap, SaveLevel, SingleTap, EndFrame, Tap, vars, panel
  <2> QED BY <1>7, <2>1
<1> QED BY <1>4, <1>5, <1>6, <1>7, <1>8 DEF Next

\* A switch that succeeds, or is rightly skipped, leaves the node lit or dark.
LEMMA SwitchLights ==
  ASSUME NEW b \in Lights, Remembers(b), NEW on \in BOOLEAN
  PROVE  SetPower(b, on, TRUE).node > 0 <=> on
<1>1. b.onLevel \in 1 .. MaxLevel /\ b.onLevel > 0 /\ ~ (Off > 0)
  BY BacklightAssumption DEF Lights, Off
<1>2. CASE Redundant(b, on)
  BY <1>1, <1>2 DEF SetPower, Redundant, Switched, Remembers
<1>3. CASE ~ Redundant(b, on)
  <2>1. SetPower(b, on, TRUE).node = IF on THEN b.onLevel ELSE Off
    BY <1>3 DEF SetPower, Lights
  <2> QED BY <1>1, <2>1
<1> QED BY <1>2, <1>3

\* Only the end of a frame lights or darkens the panel for the frame to be over.
LEMMA LitStep ==
  ASSUME SleepInv, LightInv, LitAsPromised, [Next]_vars
  PROVE  LitAsPromised'
<1>1. CASE EndFrame
  <2> DEFINE on == ~ IsDark(clock, schedule, wakeUntil, manual)
  <2>1. UNCHANGED <<clock, schedule, wakeUntil, manual, woken>>
    BY <1>1 DEF EndFrame, sleeping
  <2>2. \/ light' = SetPower(light, on, TRUE)
        \/ refused' = TRUE
    BY <1>1 DEF EndFrame
  <2>3. CASE refused' = TRUE
    BY <2>3 DEF LitAsPromised
  <2>4. CASE light' = SetPower(light, on, TRUE)
    <3>1. light \in Lights /\ Remembers(light)
      BY DEF LightInv
    <3>2. light'.node > 0 <=> on
      <4>1. on \in BOOLEAN
        OBVIOUS
      <4> HIDE DEF on
      <4> QED BY <2>4, <3>1, <4>1, SwitchLights
    <3>3. on <=> ~ manual /\ (AwakeThrough(woken) \/ ~ Sleeps(schedule, clock))
      <4>1. /\ clock \in Nat /\ clock \in 0 .. LastMinute /\ schedule \in Valid
            /\ woken \in [at : 0 .. LastMinute, under : Valid]
            /\ wakeUntil \in Nat /\ manual \in BOOLEAN
            /\ wakeUntil = Promised(woken) \/ (wakeUntil = 0 /\ Promised(woken) <= clock)
        BY PanelAssumption, WeekIs DEF SleepInv
      <4>2. Promised(woken) \in 0 .. (LastMinute + DayLength) /\ (AwakeThrough(woken) <=> clock < Promised(woken))
        BY <4>1, PromisedIs
      <4>3. clock >= wakeUntil <=> ~ AwakeThrough(woken)
        BY <4>1, <4>2
      <4>4. Asleep[schedule][clock] <=> Sleeps(schedule, clock)
        BY <4>1, AsleepIs
      <4> QED BY <4>3, <4>4 DEF IsDark
    <3>4. AwakeThrough(woken)' = AwakeThrough(woken)
      BY <2>1 DEF AwakeThrough
    <3> HIDE DEF on
    <3> QED BY <2>1, <3>2, <3>3, <3>4 DEF LitAsPromised, Sleeps
  <2> QED BY <2>2, <2>3, <2>4
<1>2. CASE BeginFrame \/ WakeTap \/ OverlayTap \/ SaveLevel \/ DoubleTap \/ SingleTap \/ Restart
  <2>1. frame' # "top"
    BY <1>2 DEF BeginFrame, WakeTap, OverlayTap, SaveLevel, DoubleTap, SingleTap, TakeTap,
                Restart, Starts
  <2> QED BY <2>1 DEF LitAsPromised
<1>3. CASE (FetcherNext /\ UNCHANGED panel) \/ (\E spot \in Spots : Tap(spot)) \/ UNCHANGED vars
  <2>1. UNCHANGED <<clock, frame, schedule, manual, woken, light, refused>>
    BY <1>3 DEF Tap, vars, panel, brightness, sleeping
  <2>2. AwakeThrough(woken)' = AwakeThrough(woken)
    BY <2>1 DEF AwakeThrough
  <2> QED BY <2>1, <2>2 DEF LitAsPromised
<1> QED BY <1>1, <1>2, <1>3 DEF Next

-----------------------------------------------------------------------------
(* The shape of the panel *)

\* The frames, the taps and the views.
ShapeInv ==
  /\ frame \in {"boot", "top", "events"} /\ cached \in ServerSpecs /\ dark \in BOOLEAN
  /\ shown \in Versions \cup {0} /\ view \in {"grid", "overlay"} \cup Range(ProviderOrder)
  /\ lastTap \in Spots \cup {NoSpot}
  /\ queue \in Seq(Spots) /\ batch \in Seq(Spots) /\ refused \in BOOLEAN

\* A panel that starts.
LEMMA ShapeInit == Init => ShapeInv
<1> SUFFICES ASSUME Init PROVE ShapeInv
  OBVIOUS
<1>1. cached \in ServerSpecs
  BY PanelAssumption DEF Init
<1>2. queue \in Seq(Spots) /\ batch \in Seq(Spots)
  BY DEF Init
<1> QED BY <1>1, <1>2 DEF Init, ShapeInv

\* The tap a frame takes is one of its taps.
LEMMA TakenIsTap ==
  ASSUME batch \in Seq(Spots), TakeTap
  PROVE  Head(batch) \in Spots /\ batch' \in Seq(Spots)
  BY DEF TakeTap

\* Every step keeps it, a new schedule and a new process among them.
LEMMA ShapeStep ==
  ASSUME ShapeInv, FetcherTypeOK, schedule \in Valid, spec \in ServerSpecs, [Next]_vars
  PROVE  ShapeInv'
<1> USE DEF ShapeInv
<1>1. CASE BeginFrame
  <2>1. cached' \in ServerSpecs
    BY <1>1, ResolveKeeps DEF BeginFrame
  <2>2. dark' \in BOOLEAN
    BY <1>1 DEF BeginFrame, IsDark
  <2>3. shown' \in Versions \cup {0}
    BY <1>1 DEF BeginFrame, FetcherTypeOK
  <2>4. /\ queue' \in Seq(Spots) /\ batch' \in Seq(Spots) /\ frame' = "events"
        /\ UNCHANGED <<view, lastTap, refused>>
    BY <1>1 DEF BeginFrame, brightness
  <2> QED BY <2>1, <2>2, <2>3, <2>4
<1>2. CASE WakeTap \/ DoubleTap
  <2>1. /\ UNCHANGED <<frame, cached, dark, shown, queue, refused>>
        /\ view' \in {view, "grid"} /\ lastTap' = NoSpot
    BY <1>2 DEF WakeTap, DoubleTap, brightness
  <2>2. batch' \in Seq(Spots)
    BY <1>2, TakenIsTap DEF WakeTap, DoubleTap
  <2> QED BY <2>1, <2>2
<1>3. CASE OverlayTap
  <2>1. UNCHANGED <<frame, cached, dark, shown, queue, lastTap>> /\ view' \in {view, "grid"}
    BY <1>3 DEF OverlayTap, sleeping
  <2>2. UNCHANGED refused
    BY <1>3 DEF OverlayTap, Nudge, brightness
  <2>3. batch' \in Seq(Spots)
    BY <1>3, TakenIsTap DEF OverlayTap
  <2> QED BY <2>1, <2>2, <2>3
<1>4. CASE SingleTap
  <2>1. UNCHANGED <<frame, cached, dark, shown, queue, refused>> /\ TakeTap
    BY <1>4 DEF SingleTap, sleeping, brightness
  <2>2. view' \in {"grid", "overlay"} \cup Range(ProviderOrder) /\ lastTap' \in {NoSpot, Head(batch)}
    BY <1>4 DEF SingleTap
  <2> QED BY <2>1, <2>2, TakenIsTap
<1>5. CASE EndFrame
  <2>1. /\ frame' = "top" /\ UNCHANGED <<cached, dark, shown, lastTap, queue, batch>>
        /\ refused' \in BOOLEAN /\ view' \in {view, "grid"}
    BY <1>5 DEF EndFrame, sleeping
  <2> QED BY <2>1
<1>6. CASE Restart
  <2>1. /\ frame' = "boot" /\ cached' = NoSpec /\ dark' = FALSE /\ shown' = 0
        /\ view' = "grid" /\ lastTap' = NoSpot /\ queue' = <<>> /\ batch' = <<>> /\ refused' = FALSE
    BY <1>6 DEF Restart, Starts
  <2>2. NoSpec \in ServerSpecs /\ queue' \in Seq(Spots) /\ batch' \in Seq(Spots)
    BY <2>1, FetcherAssumption
  <2> QED BY <2>1, <2>2
<1>7. CASE \E spot \in Spots : Tap(spot)
  <2>1. PICK spot \in Spots : Tap(spot)
    BY <1>7
  <2>2. queue' \in Seq(Spots)
    BY <2>1 DEF Tap
  <2>3. UNCHANGED <<frame, cached, dark, shown, view, lastTap, batch, refused>>
    BY <2>1 DEF Tap, showing, brightness, sleeping
  <2> QED BY <2>2, <2>3
<1>8. CASE SaveLevel \/ (FetcherNext /\ UNCHANGED panel) \/ UNCHANGED vars
  <2>1. UNCHANGED <<frame, cached, dark, shown, view, lastTap, queue, batch, refused>>
    BY <1>8 DEF SaveLevel, vars, panel, showing, brightness, sleeping
  <2> QED BY <2>1
<1> QED BY <1>1, <1>2, <1>3, <1>4, <1>5, <1>6, <1>7, <1>8 DEF Next

-----------------------------------------------------------------------------
(* Sums and greatest members *)

\* Induction up to n, for a set of numbers.
LEMMA Climb ==
  ASSUME NEW n \in Nat, NEW I, 0 \in I, \A i \in 1 .. n : i - 1 \in I => i \in I
  PROVE  0 .. n \subseteq I
<1> DEFINE B == {i \in 0 .. n : i \notin I}
<1> SUFFICES ASSUME B # {} PROVE FALSE
  OBVIOUS
<1>1. PICK m \in B : \A k \in B : m <= k
  <2>1. B \subseteq Nat
    OBVIOUS
  <2> HIDE DEF B
  <2> QED BY <2>1, NatSetHasLeast
<1>2. m \in 1 .. n /\ m \notin I
  BY <1>1
<1>3. m - 1 \in 0 .. n /\ m - 1 \notin B
  BY <1>1, <1>2
<1>4. m - 1 \in I
  BY <1>3
<1> QED BY <1>2, <1>4

\* g starts at start and takes one step of its own for every number up to n.
Walks(g, n, X, start, next) ==
  g \in [0 .. n -> X] /\ g[0] = start /\ \A i \in 1 .. n : g[i] = next[i][g[i - 1]]
StepsIn(next, n, X) == \A i \in 1 .. n : \A x \in X : next[i][x] \in X

\* There is a function that a recursive definition names.
LEMMA WalkExists ==
  ASSUME NEW n \in Nat, NEW X, NEW start \in X, NEW next, StepsIn(next, n, X)
  PROVE  \E g : Walks(g, n, X, start, next)
<1> DEFINE I == {k \in 0 .. n : \E g : Walks(g, k, X, start, next)}
<1>1. 0 \in I
  <2> DEFINE h == [i \in 0 .. 0 |-> start]
  <2>1. h \in [0 .. 0 -> X] /\ h[0] = start
    OBVIOUS
  <2> HIDE DEF h
  <2>2. Walks(h, 0, X, start, next)
    BY <2>1 DEF Walks
  <2> QED BY <2>2
<1>2. ASSUME NEW m \in 1 .. n, m - 1 \in I PROVE m \in I
  <2>1. PICK g : Walks(g, m - 1, X, start, next)
    BY <1>2
  <2> DEFINE h == [i \in 0 .. m |-> IF i = m THEN next[m][g[m - 1]] ELSE g[i]]
  <2>2. g[m - 1] \in X /\ next[m][g[m - 1]] \in X
    <3>1. m - 1 \in 0 .. (m - 1)
      OBVIOUS
    <3> QED BY <2>1, <3>1 DEF Walks, StepsIn
  <2>3. h \in [0 .. m -> X]
    <3>1. ASSUME NEW i \in 0 .. m, i # m PROVE g[i] \in X
      <4>1. i \in 0 .. (m - 1)
        BY <3>1
      <4> QED BY <2>1, <4>1 DEF Walks
    <3> QED BY <2>2, <3>1
  <2>4. ASSUME NEW i \in 1 .. m PROVE h[i] = next[i][h[i - 1]]
    <3>1. h[i - 1] = g[i - 1]
      OBVIOUS
    <3>2. CASE i = m
      BY <3>1, <3>2
    <3>3. CASE i # m
      <4>1. i \in 1 .. (m - 1) /\ h[i] = g[i]
        BY <3>3
      <4> QED BY <2>1, <3>1, <4>1 DEF Walks
    <3> QED BY <3>2, <3>3
  <2>5. h[0] = start
    <3>1. 0 \in 0 .. m /\ 0 # m
      OBVIOUS
    <3> QED BY <2>1, <3>1 DEF Walks
  <2> HIDE DEF h
  <2>6. Walks(h, m, X, start, next)
    BY <2>3, <2>4, <2>5 DEF Walks
  <2> QED BY <2>6
<1>3. n \in I
  <2> HIDE DEF I
  <2> QED BY <1>1, <1>2, Climb
<1> QED BY <1>3

\* A sum of one member more has that member more.
LEMMA SumIs ==
  ASSUME NEW f, Len(f) \in Nat, \A i \in 1 .. Len(f) : f[i] \in Int
  PROVE  UpTo(f)[0] = 0 /\ \A i \in 1 .. Len(f) : UpTo(f)[i] = UpTo(f)[i - 1] + f[i]
<1> DEFINE n == Len(f)
           next == [i \in 1 .. n |-> [x \in Int |-> x + f[i]]]
           made == CHOOSE g : g = [i \in 0 .. n |-> IF i = 0 THEN 0 ELSE g[i - 1] + f[i]]
<1>1. UpTo(f) = made
  BY DEF UpTo
<1>2. n \in Nat /\ \A i \in 1 .. n : f[i] \in Int
  OBVIOUS
<1> HIDE DEF n
<1>3. \A i \in 1 .. n : \A x \in Int : next[i][x] = x + f[i] /\ next[i][x] \in Int
  BY <1>2
<1>4. PICK g : Walks(g, n, Int, 0, next)
  <2>1. StepsIn(next, n, Int) /\ 0 \in Int
    BY <1>3 DEF StepsIn
  <2> HIDE DEF next
  <2> QED BY <1>2, <2>1, WalkExists
<1>5. g = [i \in 0 .. n |-> IF i = 0 THEN 0 ELSE g[i - 1] + f[i]]
  <2>1. ASSUME NEW i \in 0 .. n PROVE g[i] = IF i = 0 THEN 0 ELSE g[i - 1] + f[i]
    <3>1. CASE i = 0
      BY <1>4, <3>1 DEF Walks
    <3>2. CASE i # 0
      <4>1. i \in 1 .. n /\ i - 1 \in 0 .. n
        BY <1>2, <3>2
      <4>2. g[i - 1] \in Int
        BY <1>4, <4>1 DEF Walks
      <4> HIDE DEF next
      <4> QED BY <1>3, <1>4, <3>2, <4>1, <4>2 DEF Walks
    <3> QED BY <3>1, <3>2
  <2> QED BY <1>4, <2>1 DEF Walks
<1>6. made = [i \in 0 .. n |-> IF i = 0 THEN 0 ELSE made[i - 1] + f[i]]
  BY <1>5
<1> HIDE DEF made
<1>7. 0 \in 0 .. n /\ \A i \in 1 .. n : i \in 0 .. n /\ i # 0
  BY <1>2
<1>8. made[0] = 0 /\ \A i \in 1 .. n : made[i] = made[i - 1] + f[i]
  BY <1>6, <1>7, Zenon
<1> QED BY <1>1, <1>8 DEF n

\* Sums of natural numbers grow.
LEMMA SumGrows ==
  ASSUME NEW f, Len(f) \in Nat, \A i \in 1 .. Len(f) : f[i] \in Nat
  PROVE  /\ \A i \in 0 .. Len(f) : UpTo(f)[i] \in Nat
         /\ \A i, j \in 0 .. Len(f) : i <= j => UpTo(f)[i] <= UpTo(f)[j]
<1> DEFINE n == Len(f)
           S == UpTo(f)
           I == {j \in 0 .. n : S[j] \in Nat /\ \A i \in 0 .. j : S[i] \in Nat /\ S[i] <= S[j]}
<1>1. S[0] = 0 /\ \A i \in 1 .. n : S[i] = S[i - 1] + f[i]
  BY SumIs
<1>2. n \in Nat /\ \A i \in 1 .. n : f[i] \in Nat
  OBVIOUS
<1> HIDE DEF n, S
<1>3. 0 \in I
  BY <1>1, <1>2
<1>4. ASSUME NEW m \in 1 .. n, m - 1 \in I PROVE m \in I
  <2>1. S[m - 1] \in Nat /\ f[m] \in Nat /\ S[m] = S[m - 1] + f[m]
    BY <1>1, <1>2, <1>4
  <2>2. \A i \in 0 .. (m - 1) : S[i] \in Nat /\ S[i] <= S[m - 1]
    BY <1>4
  <2>3. ASSUME NEW i \in 0 .. m PROVE S[i] \in Nat /\ S[i] <= S[m]
    <3>1. CASE i = m
      BY <2>1, <3>1
    <3>2. CASE i # m
      <4>1. i \in 0 .. (m - 1)
        BY <3>2
      <4> QED BY <2>1, <2>2, <4>1
    <3> QED BY <3>1, <3>2
  <2> QED BY <1>2, <2>1, <2>3
<1>5. 0 .. n \subseteq I
  <2> HIDE DEF I
  <2> QED BY <1>2, <1>3, <1>4, Climb
<1>6. ASSUME NEW i \in 0 .. n, NEW j \in 0 .. n, i <= j PROVE S[i] <= S[j]
  <2>1. j \in I /\ i \in 0 .. j
    BY <1>2, <1>5, <1>6
  <2> QED BY <2>1
<1> QED BY <1>5, <1>6 DEF n, S

\* A finite set of numbers has a greatest.
LEMMA GreatestIs ==
  ASSUME NEW S, IsFiniteSet(S), S \subseteq Int, S # {}
  PROVE  Max(S) \in S /\ \A x \in S : x <= Max(S)
<1> DEFINE at == [x \in S |-> <<x, 0>>]
           T == {at[x] : x \in S}
           N == Cardinality(T)
<1>1. IsFiniteSet(T) /\ T \subseteq Int \X Int /\ T # {}
  <2>1. IsFiniteSet(T)
    <3> HIDE DEF at
    <3> QED BY FiniteImage
  <2>2. \A x \in S : at[x] = <<x, 0>> /\ <<x, 0>> \in Int \X Int
    OBVIOUS
  <2>3. T \subseteq Int \X Int
    <3> HIDE DEF at
    <3> QED BY <2>2
  <2>4. T # {}
    <3> HIDE DEF at
    <3> QED OBVIOUS
  <2> QED BY <2>1, <2>3, <2>4
<1>2. N \in Nat /\ N # 0
  BY <1>1, FS_CardinalityType, FS_EmptySet
<1> HIDE DEF N
<1>3. N - 1 \in 0 .. (N - 1)
  BY <1>2
<1>4. PICK s \in T : Rank(T, s) = N - 1
  <2> HIDE DEF T
  <2> QED BY <1>1, <1>3, RankReaches DEF N
<1>5. ASSUME NEW t \in T PROVE t[1] <= s[1]
  <2>1. Rank(T, t) \in 0 .. (N - 1)
    <3> HIDE DEF T
    <3> QED BY <1>1, RankIs DEF N
  <2>2. ~ (Rank(T, s) < Rank(T, t))
    BY <1>2, <1>4, <2>1
  <2>3. ~ Before(s, t)
    <3> HIDE DEF T
    <3> QED BY <1>1, <2>2, RankGrows
  <2>4. s \in Int \X Int /\ t \in Int \X Int
    BY <1>1
  <2> QED BY <2>3, <2>4 DEF Before
<1>6. \E x \in S : \A y \in S : x >= y
  <2>1. PICK x \in S : s = <<x, 0>>
    BY <1>4
  <2>2. \A y \in S : <<y, 0>> \in T /\ <<y, 0>>[1] = y
    OBVIOUS
  <2>3. s[1] = x
    BY <2>1
  <2> HIDE DEF T
  <2>4. \A y \in S : y <= x
    BY <1>5, <2>2, <2>3
  <2> QED BY <2>4
<1>7. Max(S) = CHOOSE x \in S : \A y \in S : x >= y
  BY DEF Max
<1>8. Max(S) \in S /\ \A y \in S : Max(S) >= y
  BY <1>6, <1>7
<1> QED BY <1>8

\* Products grow.
LEMMA TimesGrows ==
  ASSUME NEW a \in Nat, NEW b \in Nat, a <= b, NEW c \in Nat
  PROVE  a * c \in Nat /\ a * c <= b * c /\ (a < b => a * c + c <= b * c)
<1>1. PICK d \in Nat : b = a + d
  <2>1. b - a \in Nat /\ b = a + (b - a)
    OBVIOUS
  <2> QED BY <2>1
<1>2. b * c = a * c + d * c /\ a * c \in Nat /\ d * c \in Nat
  BY <1>1
<1>3. d # 0 => d * c >= c
  OBVIOUS
<1> QED BY <1>1, <1>2, <1>3
-----------------------------------------------------------------------------
(* The tiles and their rows *)

Providers == {"claude", "codex", "antigravity", "zai", "ollama"}

\* The place of a provider in the order of the tiles.
Turn(p) == CASE p = "claude" -> 1 [] p = "codex" -> 2 [] p = "antigravity" -> 3
             [] p = "zai" -> 4 [] OTHER -> 5

Shows(reports, p) == p \in DOMAIN reports \/ (p = "claude" /\ "claude_work" \in DOMAIN reports)

\* The tiles are of providers that report, in their order.
Planned(reports, plan, n) ==
  /\ plan \in Seq(Providers) /\ Len(plan) <= n
  /\ \A i \in 1 .. Len(plan) : Shows(reports, plan[i]) /\ Turn(plan[i]) <= n
  /\ \A i, j \in 1 .. Len(plan) : i < j => Turn(plan[i]) < Turn(plan[j])

\* The order of the tiles is the order of the providers.
LEMMA OrderIs ==
  /\ Len(ProviderOrder) = 5 /\ Range(ProviderOrder) = Providers
  /\ \A i \in 1 .. 5 : ProviderOrder[i] \in Providers /\ Turn(ProviderOrder[i]) = i
  /\ \A p \in Providers : Turn(p) \in 1 .. 5
<1>1. Len(ProviderOrder) = 5
  BY DEF ProviderOrder
<1>2. ProviderOrder[1] = "claude" /\ ProviderOrder[2] = "codex" /\ ProviderOrder[3] = "antigravity"
      /\ ProviderOrder[4] = "zai" /\ ProviderOrder[5] = "ollama"
  BY DEF ProviderOrder
<1>3. Turn("claude") = 1 /\ Turn("codex") = 2 /\ Turn("antigravity") = 3 /\ Turn("zai") = 4
      /\ Turn("ollama") = 5
  BY Zenon DEF Turn
<1>4. \A i \in 1 .. 5 : i = 1 \/ i = 2 \/ i = 3 \/ i = 4 \/ i = 5
  OBVIOUS
<1>5. \A p \in Providers : Turn(p) \in 1 .. 5
  BY <1>3 DEF Providers
<1>6. \A i \in 1 .. 5 : ProviderOrder[i] \in Providers /\ Turn(ProviderOrder[i]) = i
  BY <1>2, <1>3, <1>4 DEF Providers
<1>7. Range(ProviderOrder) = Providers
  <2>1. Range(ProviderOrder) = {ProviderOrder[i] : i \in 1 .. 5}
    BY <1>1 DEF Range, ProviderOrder
  <2> QED BY <1>2, <1>4, <2>1 DEF Providers
<1> QED BY <1>1, <1>5, <1>6, <1>7

\* What is planned has every provider that reports at most once.
LEMMA TilePlanIs ==
  ASSUME NEW reports
  PROVE  Planned(reports, TilePlan(reports), 5)
<1> DEFINE N == Len(ProviderOrder)
           next == [i \in 1 .. N |-> [s \in Seq(Providers) |->
                      IF Shows(reports, ProviderOrder[i]) THEN Append(s, ProviderOrder[i]) ELSE s]]
           made == CHOOSE plan : plan = [i \in 0 .. N |->
                      IF i = 0 THEN <<>>
                      ELSE IF Shows(reports, ProviderOrder[i]) THEN Append(plan[i - 1], ProviderOrder[i])
                           ELSE plan[i - 1]]
<1>1. TilePlan(reports) = made[N]
  BY DEF TilePlan, Shows
<1>2. N = 5 /\ N \in Nat
  BY OrderIs
<1> HIDE DEF N
<1>3. \A i \in 1 .. N : \A s \in Seq(Providers) :
        /\ next[i][s] = IF Shows(reports, ProviderOrder[i]) THEN Append(s, ProviderOrder[i]) ELSE s
        /\ next[i][s] \in Seq(Providers)
  BY <1>2, OrderIs
<1>4. PICK g : Walks(g, N, Seq(Providers), <<>>, next)
  <2>1. <<>> \in Seq(Providers)
    OBVIOUS
  <2>2. StepsIn(next, N, Seq(Providers))
    BY <1>3 DEF StepsIn
  <2> HIDE DEF next
  <2> QED BY <1>2, <2>1, <2>2, WalkExists
<1>5. \A i \in 1 .. N : i \in 0 .. N /\ i - 1 \in 0 .. N /\ i # 0
  BY <1>2
<1>6. \A i \in 1 .. N : g[i] = IF Shows(reports, ProviderOrder[i]) THEN Append(g[i - 1], ProviderOrder[i])
                               ELSE g[i - 1]
  <2> HIDE DEF next
  <2> QED BY <1>3, <1>4, <1>5 DEF Walks
<1>7. g = [i \in 0 .. N |->
             IF i = 0 THEN <<>>
             ELSE IF Shows(reports, ProviderOrder[i]) THEN Append(g[i - 1], ProviderOrder[i]) ELSE g[i - 1]]
  <2>1. ASSUME NEW i \in 0 .. N
        PROVE  g[i] = IF i = 0 THEN <<>>
                      ELSE IF Shows(reports, ProviderOrder[i]) THEN Append(g[i - 1], ProviderOrder[i])
                           ELSE g[i - 1]
    <3>1. i # 0 => i \in 1 .. N
      BY <1>2
    <3> HIDE DEF next
    <3> QED BY <1>4, <1>6, <3>1 DEF Walks
  <2> HIDE DEF next
  <2> QED BY <1>4, <2>1 DEF Walks
<1>8. made = [i \in 0 .. N |->
             IF i = 0 THEN <<>>
             ELSE IF Shows(reports, ProviderOrder[i]) THEN Append(made[i - 1], ProviderOrder[i]) ELSE made[i - 1]]
  BY <1>7
<1> DEFINE I == {i \in 0 .. N : Planned(reports, made[i], i)}
<1> HIDE DEF made
<1>9. made[0] = <<>> /\ \A i \in 1 .. N : made[i] =
        IF Shows(reports, ProviderOrder[i]) THEN Append(made[i - 1], ProviderOrder[i]) ELSE made[i - 1]
  <2>1. 0 \in 0 .. N
    BY <1>2
  <2> QED BY <1>5, <1>8, <2>1, Zenon
<1>10. 0 \in I
  <2>1. Planned(reports, <<>>, 0)
    BY DEF Planned
  <2>2. 0 \in 0 .. N
    BY <1>2
  <2> QED BY <1>9, <2>1, <2>2
<1>11. ASSUME NEW m \in 1 .. N, m - 1 \in I PROVE m \in I
  <2> DEFINE old == made[m - 1]
             p == ProviderOrder[m]
  <2>1. m \in 1 .. 5 /\ m \in 0 .. N /\ p \in Providers /\ Turn(p) = m
    BY <1>2, OrderIs
  <2>2. Planned(reports, old, m - 1)
    BY <1>11
  <2>3. made[m] = IF Shows(reports, p) THEN Append(old, p) ELSE old
    BY <1>9
  <2>4. old \in Seq(Providers) /\ Len(old) \in Nat /\ \A i \in 1 .. Len(old) : old[i] \in Providers
    BY <2>2 DEF Planned
  <2>5. \A i \in 1 .. Len(old) : Turn(old[i]) \in 1 .. 5
    BY <2>4, OrderIs
  <2> HIDE DEF old, p
  <2>6. CASE ~ Shows(reports, p)
    <3>1. Planned(reports, old, m)
      BY <2>1, <2>2, <2>4, <2>5 DEF Planned
    <3> QED BY <2>1, <2>3, <2>6, <3>1
  <2>7. CASE Shows(reports, p)
    <3> DEFINE new == Append(old, p)
    <3>1. /\ new \in Seq(Providers) /\ Len(new) = Len(old) + 1 /\ new[Len(new)] = p
          /\ \A i \in 1 .. Len(new) : i # Len(new) => i \in 1 .. Len(old) /\ new[i] = old[i]
      BY <2>1, <2>4
    <3>2. made[m] = new
      BY <2>3, <2>7
    <3> HIDE DEF new
    <3>3. Len(new) <= m
      BY <2>1, <2>2, <2>4, <3>1 DEF Planned
    <3>4. ASSUME NEW i \in 1 .. Len(new) PROVE Shows(reports, new[i]) /\ Turn(new[i]) <= m
      <4>1. CASE i = Len(new)
        BY <2>1, <2>7, <3>1, <4>1
      <4>2. CASE i # Len(new)
        <5>1. i \in 1 .. Len(old) /\ new[i] = old[i]
          BY <3>1, <4>2
        <5>2. Shows(reports, old[i]) /\ Turn(old[i]) <= m - 1 /\ Turn(old[i]) \in Int
          BY <2>2, <2>5, <5>1 DEF Planned
        <5> QED BY <2>1, <5>1, <5>2
      <4> QED BY <4>1, <4>2
    <3>5. ASSUME NEW i \in 1 .. Len(new), NEW j \in 1 .. Len(new), i < j PROVE Turn(new[i]) < Turn(new[j])
      <4>1. i \in 1 .. Len(old) /\ new[i] = old[i]
        BY <2>4, <3>1, <3>5
      <4>2. Turn(old[i]) <= m - 1 /\ Turn(old[i]) \in Int
        BY <2>2, <2>5, <4>1 DEF Planned
      <4>3. CASE j = Len(new)
        BY <2>1, <3>1, <4>1, <4>2, <4>3
      <4>4. CASE j # Len(new)
        <5>1. j \in 1 .. Len(old) /\ new[j] = old[j]
          BY <3>1, <4>4
        <5> QED BY <2>2, <3>5, <4>1, <5>1 DEF Planned
      <4> QED BY <4>3, <4>4
    <3>6. Planned(reports, new, m)
      BY <3>1, <3>3, <3>4, <3>5 DEF Planned
    <3> QED BY <2>1, <3>2, <3>6
  <2> QED BY <2>6, <2>7
<1>12. N \in I
  <2> HIDE DEF I
  <2>1. 0 .. N \subseteq I
    BY <1>2, <1>10, <1>11, Climb
  <2> QED BY <1>2, <2>1
<1> QED BY <1>1, <1>2, <1>12

\* What Pack makes: the last row with one tile more, or a row more.
Joined(rows, p, new) ==
  /\ rows # <<>> /\ Len(new) = Len(rows)
  /\ \A i \in 1 .. (Len(rows) - 1) : new[i] = rows[i]
  /\ new[Len(new)] = Append(rows[Len(rows)], p)
Opens(rows, p, new) ==
  /\ Len(new) = Len(rows) + 1
  /\ \A i \in 1 .. Len(rows) : new[i] = rows[i]
  /\ new[Len(new)] = <<p>>

\* What Pack makes, and of what.
LEMMA PackIs ==
  ASSUME NEW size, NEW count, NEW rows \in Seq(Seq(Providers)), NEW p \in Providers
  PROVE  LET new == Pack(size, count, rows, p)
         IN  /\ new \in Seq(Seq(Providers))
             /\ IF rows # <<>> /\ Joins(size, count, rows[Len(rows)], p)
                THEN Joined(rows, p, new) ELSE Opens(rows, p, new)
<1> DEFINE n == Len(rows)
           new == Pack(size, count, rows, p)
           joins == rows # <<>> /\ Joins(size, count, rows[n], p)
<1>1. new = IF joins THEN Append(Front(rows), Append(rows[n], p)) ELSE Append(rows, <<p>>)
  BY DEF Pack, Last
<1>2. <<p>> \in Seq(Providers)
  OBVIOUS
<1>3. CASE joins
  <2>1. n \in Nat \ {0} /\ rows[n] \in Seq(Providers)
    BY <1>3
  <2>2. Append(rows[n], p) \in Seq(Providers)
    BY <2>1
  <2> DEFINE row == Append(rows[n], p)
             front == Front(rows)
  <2>3. /\ front \in Seq(Seq(Providers)) /\ Len(front) = n - 1
        /\ \A i \in 1 .. (n - 1) : front[i] = rows[i]
    <3>1. front = SubSeq(rows, 1, n - 1)
      BY DEF Front
    <3>2. 1 \in Int /\ n - 1 \in Int /\ \A i \in 1 .. (n - 1) : rows[i] \in Seq(Providers)
      BY <2>1
    <3>3. /\ front \in Seq(Seq(Providers)) /\ Len(front) = IF 1 <= n - 1 THEN (n - 1) - 1 + 1 ELSE 0
          /\ \A i \in 1 .. ((n - 1) - 1 + 1) : front[i] = rows[1 + i - 1]
      BY <3>1, <3>2, SubSeqProperties
    <3> HIDE DEF front
    <3>4. Len(front) = IF 1 <= n - 1 THEN (n - 1) - 1 + 1 ELSE 0
      BY <3>3
    <3>5. n \in Nat \ {0}
      BY <2>1
    <3> HIDE DEF n
    <3>6. Len(front) = n - 1
      BY <3>4, <3>5
    <3>7. ASSUME NEW i \in 1 .. (n - 1) PROVE front[i] = rows[i]
      <4>1. i \in 1 .. ((n - 1) - 1 + 1) /\ 1 + i - 1 = i
        BY <3>5
      <4> QED BY <3>3, <4>1
    <3> QED BY <3>3, <3>6, <3>7
  <2>4. new = Append(front, row)
    BY <1>1, <1>3
  <2> HIDE DEF row, front, n, new
  <2>5. /\ new \in Seq(Seq(Providers)) /\ Len(new) = n /\ new[n] = row
        /\ \A i \in 1 .. (n - 1) : new[i] = front[i]
    BY <2>1, <2>2, <2>3, <2>4 DEF row
  <2> QED BY <1>3, <2>3, <2>5 DEF row, n, new, Joined
<1>4. CASE ~ joins
  <2>1. new = Append(rows, <<p>>)
    BY <1>1, <1>4
  <2> DEFINE row == <<p>>
  <2> HIDE DEF row, new
  <2>2. /\ new \in Seq(Seq(Providers)) /\ Len(new) = n + 1 /\ new[n + 1] = row
        /\ \A i \in 1 .. n : new[i] = rows[i]
    BY <1>2, <2>1 DEF row
  <2> QED BY <1>4, <2>2 DEF row, new, Opens
<1> QED BY <1>3, <1>4

\* The row of a provider on a screen that pairs them.
Group(p) == CASE p = "claude" -> 1 [] p \in {"codex", "antigravity"} -> 2 [] OTHER -> 3

\* The rows of the first k tiles: full of these tiles, four in a row at most, and no more
\* rows than the screen takes.
HoldsTiles(plan, rows, k) ==
  /\ rows \in Seq(Seq(Providers)) /\ Len(rows) <= k
  /\ \A i \in 1 .. Len(rows) : Len(rows[i]) \in 1 .. 4
  /\ \A i \in 1 .. Len(rows) : \A j \in 1 .. Len(rows[i]) : \E m \in 1 .. k : rows[i][j] = plan[m]
  /\ \A m \in 1 .. k : \E i \in 1 .. Len(rows) : \E j \in 1 .. Len(rows[i]) : rows[i][j] = plan[m]
FewRows(size, plan, rows, k) ==
  LET n == Len(rows)
      cols == UltraCompactColumns(size, Len(plan))
  IN  k > 0 =>
        /\ n > 0 /\ rows[n][Len(rows[n])] = plan[k]
        /\ IsUltraCompact(size) => Len(rows[n]) <= cols /\ k = cols * (n - 1) + Len(rows[n])
        /\ ~ IsUltraCompact(size) =>
             /\ Len(rows[n]) <= 2
             /\ CanPair(size) => n <= Group(plan[k]) /\ (Len(rows[n]) = 1 \/ plan[k] \in {"antigravity", "ollama"})

\* One tile more keeps the rows full of the tiles there are.
LEMMA TileKeepsRows ==
  ASSUME NEW plan \in Seq(Providers), NEW k \in 1 .. Len(plan), NEW rows, HoldsTiles(plan, rows, k - 1),
         NEW new \in Seq(Seq(Providers)),
         \/ Joined(rows, plan[k], new) /\ Len(rows[Len(rows)]) <= 3
         \/ Opens(rows, plan[k], new)
  PROVE  HoldsTiles(plan, new, k)
<1>1. rows \in Seq(Seq(Providers)) /\ Len(rows) \in Nat /\ k \in Nat /\ Len(rows) <= k - 1
  BY DEF HoldsTiles
<1>2. \A i \in 1 .. Len(rows) : rows[i] \in Seq(Providers) /\ Len(rows[i]) \in 1 .. 4
  BY <1>1 DEF HoldsTiles
<1>3. \A i \in 1 .. Len(rows) : \A j \in 1 .. Len(rows[i]) : \E m \in 1 .. k : rows[i][j] = plan[m]
  <2>1. \A m \in 1 .. (k - 1) : m \in 1 .. k
    OBVIOUS
  <2> QED BY <2>1 DEF HoldsTiles
<1>4. \A m \in 1 .. (k - 1) : \E i \in 1 .. Len(rows) : \E j \in 1 .. Len(rows[i]) : rows[i][j] = plan[m]
  BY DEF HoldsTiles
<1>5. plan[k] \in Providers /\ k \in 1 .. k
  OBVIOUS
<1>6. CASE Joined(rows, plan[k], new) /\ Len(rows[Len(rows)]) <= 3
  <2> DEFINE n == Len(rows)
             row == rows[n]
             longer == Append(row, plan[k])
  <2>1. n \in Nat \ {0} /\ Len(new) = n /\ new[n] = longer /\ \A i \in 1 .. (n - 1) : new[i] = rows[i]
    BY <1>1, <1>6 DEF Joined
  <2>2. row \in Seq(Providers) /\ Len(row) \in 1 .. 3 /\ n \in 1 .. n
    <3>1. n \in 1 .. n
      BY <2>1
    <3>2. rows[n] \in Seq(Providers) /\ Len(rows[n]) \in 1 .. 4 /\ Len(rows[n]) <= 3
      BY <1>2, <1>6, <3>1
    <3>3. \A l \in 1 .. 4 : l <= 3 => l \in 1 .. 3
      OBVIOUS
    <3> HIDE DEF n
    <3> QED BY <3>1, <3>2, <3>3
  <2>3. Len(longer) = Len(row) + 1 /\ longer[Len(row) + 1] = plan[k]
        /\ \A j \in 1 .. Len(row) : longer[j] = row[j]
    BY <1>5, <2>2
  <2>9. row = rows[n] /\ n = Len(rows)
    OBVIOUS
  <2> HIDE DEF n, longer, row
  <2>4. \A i \in 1 .. n : i # n => i \in 1 .. (n - 1)
    BY <2>1
  <2>5. \A i \in 1 .. n : Len(new[i]) \in 1 .. 4
    <3>1. Len(longer) \in 1 .. 4
      <4>1. \A l \in 1 .. 3 : l + 1 \in 1 .. 4
        OBVIOUS
      <4> QED BY <2>2, <2>3, <4>1
    <3> QED BY <1>2, <2>1, <2>4, <3>1 DEF n
  <2>6. ASSUME NEW i \in 1 .. n, NEW j \in 1 .. Len(new[i]) PROVE \E m \in 1 .. k : new[i][j] = plan[m]
    <3>1. CASE i # n
      <4>1. i \in 1 .. Len(rows) /\ new[i] = rows[i]
        BY <2>1, <2>4, <2>9, <3>1
      <4> QED BY <1>3, <4>1
    <3>2. CASE i = n
      <4>1. j \in 1 .. Len(longer) /\ new[i][j] = longer[j]
        BY <2>1, <3>2
      <4>2. CASE j = Len(row) + 1
        BY <1>5, <2>3, <4>1, <4>2
      <4>3. CASE j # Len(row) + 1
        <5>1. j \in 1 .. Len(row)
          BY <2>2, <2>3, <4>1, <4>3
        <5>2. new[i][j] = rows[n][j] /\ n \in 1 .. Len(rows) /\ j \in 1 .. Len(rows[n])
          BY <2>2, <2>3, <2>9, <4>1, <5>1
        <5> QED BY <1>3, <5>2
      <4> QED BY <4>2, <4>3
    <3> QED BY <3>1, <3>2
  <2>7. ASSUME NEW m \in 1 .. k
        PROVE  \E i \in 1 .. n : \E j \in 1 .. Len(new[i]) : new[i][j] = plan[m]
    <3>1. CASE m = k
      <4>1. Len(row) + 1 \in 1 .. Len(new[n]) /\ new[n][Len(row) + 1] = plan[m]
        BY <2>1, <2>2, <2>3, <3>1
      <4> QED BY <2>2, <4>1
    <3>2. CASE m # k
      <4>1. m \in 1 .. (k - 1)
        BY <3>2
      <4>2. PICK i \in 1 .. n : \E j \in 1 .. Len(rows[i]) : rows[i][j] = plan[m]
        BY <1>4, <4>1 DEF n
      <4>5. PICK j \in 1 .. Len(rows[i]) : rows[i][j] = plan[m]
        BY <4>2
      <4>3. CASE i # n
        BY <2>1, <2>4, <4>3, <4>5
      <4>4. CASE i = n
        <5>1. j \in 1 .. Len(row) /\ row[j] = plan[m]
          BY <2>9, <4>4, <4>5
        <5>2. j \in 1 .. Len(new[n]) /\ new[n][j] = plan[m]
          BY <2>1, <2>2, <2>3, <5>1
        <5> QED BY <2>2, <5>2
      <4> QED BY <4>3, <4>4
    <3> QED BY <3>1, <3>2
  <2>8. Len(new) <= k /\ Len(new) = n
    BY <1>1, <2>1 DEF n
  <2> QED BY <2>5, <2>6, <2>7, <2>8 DEF HoldsTiles
<1>7. CASE Opens(rows, plan[k], new)
  <2> DEFINE n == Len(rows)
             p == plan[k]
             old == new[n + 1]
  <2>1. Len(new) = n + 1 /\ \A i \in 1 .. n : new[i] = rows[i]
    BY <1>7 DEF Opens
  <2>2. Len(old) = 1 /\ old[1] = p
    <3>1. old = <<p>>
      BY <1>7 DEF Opens
    <3> HIDE DEF old, p
    <3> QED BY <3>1
  <2> HIDE DEF n, p, old
  <2>3. n \in Nat /\ n + 1 \in 1 .. (n + 1) /\ \A i \in 1 .. (n + 1) : i # n + 1 => i \in 1 .. n
    BY <1>1 DEF n
  <2>4. \A i \in 1 .. n : Len(rows[i]) \in 1 .. 4
    BY <1>2 DEF n
  <2>5. \A i \in 1 .. n : \A j \in 1 .. Len(rows[i]) : \E m \in 1 .. k : rows[i][j] = plan[m]
    BY <1>3 DEF n
  <2>6. ASSUME NEW i \in 1 .. (n + 1)
        PROVE  /\ Len(new[i]) \in 1 .. 4
               /\ \A j \in 1 .. Len(new[i]) : \E m \in 1 .. k : new[i][j] = plan[m]
    <3>1. CASE i = n + 1
      <4>1. new[i] = old
        BY <3>1 DEF old
      <4>2. ASSUME NEW j \in 1 .. Len(old) PROVE j = 1
        <5>1. Len(old) = 1
          BY <2>2
        <5>2. j \in 1 .. 1
          BY <5>1
        <5> QED BY <5>2
      <4>3. \A j \in 1 .. Len(old) : old[j] = plan[k]
        BY <2>2, <4>2 DEF p
      <4>4. Len(new[i]) \in 1 .. 4
        <5>1. 1 \in 1 .. 4 /\ Len(new[i]) = 1
          BY <2>2, <4>1
        <5> QED BY <5>1, Zenon
      <4>5. \A j \in 1 .. Len(new[i]) : \E m \in 1 .. k : new[i][j] = plan[m]
        BY <1>5, <4>1, <4>3
      <4> QED BY <4>4, <4>5
    <3>2. CASE i # n + 1
      <4>1. i \in 1 .. n
        BY <2>3, <3>2
      <4>2. new[i] = rows[i]
        BY <2>1, <4>1, Zenon
      <4>3. Len(rows[i]) \in 1 .. 4 /\ \A j \in 1 .. Len(rows[i]) : \E m \in 1 .. k : rows[i][j] = plan[m]
        BY <2>4, <2>5, <4>1, Zenon
      <4> QED BY <4>2, <4>3, Zenon
    <3> QED BY <3>1, <3>2
  <2>7. ASSUME NEW m \in 1 .. k
        PROVE  \E i \in 1 .. (n + 1) : \E j \in 1 .. Len(new[i]) : new[i][j] = plan[m]
    <3>1. CASE m = k
      <4>1. 1 \in 1 .. Len(new[n + 1]) /\ new[n + 1][1] = plan[m]
        BY <2>2, <3>1 DEF p, old
      <4> QED BY <2>3, <4>1
    <3>2. CASE m # k
      <4>1. m \in 1 .. (k - 1)
        BY <3>2
      <4>2. PICK i \in 1 .. n : \E j \in 1 .. Len(rows[i]) : rows[i][j] = plan[m]
        BY <1>4, <4>1 DEF n
      <4>3. i \in 1 .. (n + 1)
        BY <2>3
      <4>4. new[i] = rows[i]
        BY <2>1
      <4> QED BY <4>2, <4>3, <4>4
    <3> QED BY <3>1, <3>2
  <2>8. Len(new) <= k /\ Len(new) = n + 1
    <3>1. n <= k - 1
      BY <1>1 DEF n
    <3> QED BY <1>1, <2>1, <2>3, <3>1
  <2>9. \A i \in 1 .. Len(new) : Len(new[i]) \in 1 .. 4
    BY <2>6, <2>8
  <2>10. \A i \in 1 .. Len(new) : \A j \in 1 .. Len(new[i]) : \E m \in 1 .. k : new[i][j] = plan[m]
    BY <2>6, <2>8
  <2>11. \A m \in 1 .. k : \E i \in 1 .. Len(new) : \E j \in 1 .. Len(new[i]) : new[i][j] = plan[m]
    BY <2>7, <2>8
  <2> QED BY <2>8, <2>9, <2>10, <2>11 DEF HoldsTiles
<1> QED BY <1>6, <1>7

\* There are three such rows.
LEMMA GroupIs ==
  ASSUME NEW p \in Providers
  PROVE  Group(p) \in 1 .. 3
<1>1. Group("claude") = 1 /\ Group("codex") = 2 /\ Group("antigravity") = 2 /\ Group("zai") = 3
      /\ Group("ollama") = 3
  BY Zenon DEF Group
<1> QED BY <1>1 DEF Providers

\* Neighbours that are paired are of one row, the others are not.
LEMMA GroupsAre ==
  ASSUME NEW p \in Providers, NEW q \in Providers, Turn(p) < Turn(q)
  PROVE  /\ Group(p) \in 1 .. 3 /\ Group(q) \in 1 .. 3
         /\ <<p, q>> \in PairedRows => Group(p) = Group(q) /\ q \in {"antigravity", "ollama"}
         /\ <<p, q>> \notin PairedRows /\ p \notin {"antigravity", "ollama"} => Group(p) + 1 <= Group(q)
         /\ p \in {"antigravity", "ollama"} => Group(p) + 1 <= Group(q)
<1>1. Turn("claude") = 1 /\ Turn("codex") = 2 /\ Turn("antigravity") = 3 /\ Turn("zai") = 4
      /\ Turn("ollama") = 5
  BY Zenon DEF Turn
<1>2. Group("claude") = 1 /\ Group("codex") = 2 /\ Group("antigravity") = 2 /\ Group("zai") = 3
      /\ Group("ollama") = 3
  BY Zenon DEF Group
<1>3. <<p, q>> \in PairedRows <=> (p = "codex" /\ q = "antigravity") \/ (p = "zai" /\ q = "ollama")
  BY DEF PairedRows
<1>4. Group(p) \in 1 .. 3 /\ Group(q) \in 1 .. 3
  BY GroupIs
<1>5. <<p, q>> \in PairedRows => Group(p) = Group(q) /\ q \in {"antigravity", "ollama"}
  BY <1>2, <1>3
<1>6. <<p, q>> \notin PairedRows /\ p \notin {"antigravity", "ollama"} => Group(p) + 1 <= Group(q)
  BY <1>1, <1>2, <1>3 DEF Providers
<1>7. p \in {"antigravity", "ollama"} => Group(p) + 1 <= Group(q)
  BY <1>1, <1>2 DEF Providers
<1> QED BY <1>4, <1>5, <1>6, <1>7

\* A tiny screen has two columns at least and four at most.
LEMMA ColumnsAre ==
  ASSUME NEW size, NEW count
  PROVE  UltraCompactColumns(size, count) \in 2 .. 4
  BY DEF UltraCompactColumns

\* The first tile opens the first row.
LEMMA FirstRowIs ==
  ASSUME NEW size, NEW plan \in Seq(Providers), Len(plan) > 0,
         NEW new \in Seq(Seq(Providers)), Opens(<<>>, plan[1], new)
  PROVE  FewRows(size, plan, new, 1)
<1> DEFINE cols == UltraCompactColumns(size, Len(plan))
           p == plan[1]
<1>1. cols \in 2 .. 4
  BY ColumnsAre
<1>2. p \in Providers
  OBVIOUS
<1>3. Len(new) = 1 /\ new[1] = <<p>> /\ Len(<<p>>) = 1 /\ <<p>>[1] = p
  BY DEF Opens
<1> HIDE DEF cols, p
<1>4. Group(p) \in 1 .. 3
  BY <1>2, GroupIs
<1>5. Len(new[1]) = 1 /\ new[1][1] = p
  BY <1>3
<1>6. cols * (1 - 1) + 1 = 1 /\ 1 <= cols
  BY <1>1
<1>7. cols * (Len(new) - 1) + Len(new[Len(new)]) = 1 /\ Len(new[Len(new)]) <= cols
  BY <1>3, <1>5, <1>6
<1>8. Len(new) <= Group(p) /\ Len(new[Len(new)]) <= 2
  BY <1>3, <1>4, <1>5
<1>9. Len(new) > 0 /\ Len(new[Len(new)]) = 1 /\ new[Len(new)][Len(new[Len(new)])] = p
  BY <1>3, <1>5
<1> QED BY <1>7, <1>8, <1>9 DEF FewRows, cols, p

\* Another tile goes into the last row, or opens another only when it must.
LEMMA TileKeepsRowsFew ==
  ASSUME NEW size, NEW plan \in Seq(Providers), NEW k \in 1 .. Len(plan), k > 1,
         Turn(plan[k - 1]) < Turn(plan[k]),
         NEW rows, HoldsTiles(plan, rows, k - 1), FewRows(size, plan, rows, k - 1),
         NEW new \in Seq(Seq(Providers)),
         IF rows # <<>> /\ Joins(size, Len(plan), rows[Len(rows)], plan[k])
         THEN Joined(rows, plan[k], new) ELSE Opens(rows, plan[k], new)
  PROVE  FewRows(size, plan, new, k)
<1> DEFINE cols == UltraCompactColumns(size, Len(plan))
           n == Len(rows)
           row == rows[n]
           len == Len(row)
           q == plan[k - 1]
           p == plan[k]
           last == new[Len(new)]
<1>1. cols \in 2 .. 4
  BY ColumnsAre
<1>2. p \in Providers /\ q \in Providers /\ Turn(q) < Turn(p) /\ k \in Nat /\ k - 1 > 0
  <2>1. k - 1 \in 1 .. Len(plan)
    OBVIOUS
  <2> QED BY <2>1
<1>3. n \in Nat \ {0} /\ len \in 1 .. 4 /\ row \in Seq(Providers) /\ rows # <<>>
  <2>1. n > 0 /\ n \in Nat /\ rows \in Seq(Seq(Providers))
    BY <1>2 DEF FewRows, HoldsTiles
  <2>2. n \in 1 .. Len(rows)
    BY <2>1
  <2> QED BY <2>1, <2>2 DEF HoldsTiles
<1>4. /\ row[len] = q
      /\ IsUltraCompact(size) => len <= cols /\ k - 1 = cols * (n - 1) + len
      /\ ~ IsUltraCompact(size) =>
           len <= 2 /\ (CanPair(size) => n <= Group(q) /\ (len = 1 \/ q \in {"antigravity", "ollama"}))
  BY <1>2 DEF FewRows
<1>5. Joins(size, Len(plan), row, p) <=>
        IF IsUltraCompact(size) THEN len < cols ELSE CanPair(size) /\ len = 1 /\ <<q, p>> \in PairedRows
  BY <1>4 DEF Joins, Last
<1>6. /\ Group(q) \in 1 .. 3 /\ Group(p) \in 1 .. 3
      /\ <<q, p>> \in PairedRows => Group(q) = Group(p) /\ p \in {"antigravity", "ollama"}
      /\ <<q, p>> \notin PairedRows /\ q \notin {"antigravity", "ollama"} => Group(q) + 1 <= Group(p)
      /\ q \in {"antigravity", "ollama"} => Group(q) + 1 <= Group(p)
  BY <1>2, GroupsAre
<1>7. CASE Joins(size, Len(plan), row, p)
  <2>1. Len(new) = n /\ last = Append(row, p)
    BY <1>3, <1>7 DEF Joined
  <2>2. Len(last) = len + 1 /\ last[len + 1] = p
    BY <1>2, <1>3, <2>1
  <2> HIDE DEF cols, n, row, len, q, p, last
  <2>3. IsUltraCompact(size) => Len(last) <= cols /\ k = cols * (Len(new) - 1) + Len(last)
    <3>1. IsUltraCompact(size) => len < cols /\ k - 1 = cols * (n - 1) + len
      BY <1>4, <1>5, <1>7
    <3>2. cols * (n - 1) \in Int
      BY <1>1, <1>3
    <3> QED BY <1>1, <1>2, <1>3, <2>1, <2>2, <3>1, <3>2
  <2>4. ~ IsUltraCompact(size) =>
          Len(last) <= 2 /\ Len(new) <= Group(p) /\ p \in {"antigravity", "ollama"}
    <3>1. ~ IsUltraCompact(size) =>
            CanPair(size) /\ len = 1 /\ <<q, p>> \in PairedRows /\ n <= Group(q)
      BY <1>4, <1>5, <1>7
    <3> QED BY <1>6, <2>1, <2>2, <3>1
  <2>5. Len(new) > 0 /\ last[Len(last)] = p
    BY <1>3, <2>1, <2>2
  <2> QED BY <2>3, <2>4, <2>5 DEF FewRows, cols, p, last
<1>8. CASE ~ Joins(size, Len(plan), row, p)
  <2>1. Len(new) = n + 1 /\ last = <<p>>
    BY <1>8 DEF Opens
  <2>2. Len(last) = 1 /\ last[1] = p
    BY <2>1
  <2> HIDE DEF cols, n, row, len, q, p, last
  <2>3. IsUltraCompact(size) => Len(last) <= cols /\ k = cols * (Len(new) - 1) + Len(last)
    <3>1. IsUltraCompact(size) => len = cols /\ k - 1 = cols * (n - 1) + len
      BY <1>1, <1>3, <1>4, <1>5, <1>8
    <3>2. cols * (n - 1) + cols = cols * n /\ cols * n \in Int /\ cols * (n - 1) \in Int
      BY <1>1, <1>3
    <3>3. Len(new) - 1 = n
      BY <1>3, <2>1
    <3> QED BY <1>1, <1>2, <2>2, <3>1, <3>2, <3>3
  <2>4. ~ IsUltraCompact(size) /\ CanPair(size) => Len(new) <= Group(p)
    <3>1. ~ IsUltraCompact(size) /\ CanPair(size) =>
            n <= Group(q) /\ (len = 1 \/ q \in {"antigravity", "ollama"})
            /\ ~ (len = 1 /\ <<q, p>> \in PairedRows)
      BY <1>4, <1>5, <1>8
    <3>2. ~ IsUltraCompact(size) /\ CanPair(size) => n <= Group(q) /\ Group(q) + 1 <= Group(p)
      BY <1>6, <3>1
    <3>3. Len(new) = n + 1 /\ n \in Int /\ Group(q) \in Int /\ Group(p) \in Int
      BY <1>3, <1>6, <2>1
    <3> QED BY <3>2, <3>3
  <2>5. Len(new) > 0 /\ last[Len(last)] = p /\ Len(last) <= 2 /\ Len(last) = 1
    BY <1>3, <2>1, <2>2
  <2> QED BY <2>3, <2>4, <2>5 DEF FewRows, cols, p, last
<1> QED BY <1>7, <1>8

\* The rows hold the tiles that are planned, and are no more than the screen takes.
LEMMA RowsPlanIs ==
  ASSUME NEW size, NEW plan, NEW reports, Planned(reports, plan, 5)
  PROVE  /\ HoldsTiles(plan, RowsPlan(size, plan), Len(plan))
         /\ Len(RowsPlan(size, plan)) <= MostRows(size)
<1> DEFINE N == Len(plan)
           next == [k \in 1 .. N |-> [r \in Seq(Seq(Providers)) |-> Pack(size, N, r, plan[k])]]
           made == CHOOSE rows : rows = [k \in 0 .. N |->
                      IF k = 0 THEN <<>> ELSE Pack(size, N, rows[k - 1], plan[k])]
<1>1. RowsPlan(size, plan) = made[N]
  BY DEF RowsPlan
<1>2. plan \in Seq(Providers) /\ N \in 0 .. 5 /\ N \in Nat /\ \A i \in 1 .. N : plan[i] \in Providers
  <2>1. plan \in Seq(Providers) /\ N <= 5
    BY DEF Planned
  <2>2. N \in Nat
    BY <2>1
  <2>3. \A i \in 1 .. N : plan[i] \in Providers
    BY <2>1
  <2> HIDE DEF N
  <2> QED BY <2>1, <2>2, <2>3
<1>3. \A i, j \in 1 .. N : i < j => Turn(plan[i]) < Turn(plan[j])
  BY DEF Planned
<1>4. \A k \in 1 .. N : \A r \in Seq(Seq(Providers)) :
        next[k][r] = Pack(size, N, r, plan[k]) /\ next[k][r] \in Seq(Seq(Providers))
  BY <1>2, PackIs
<1>5. PICK g : Walks(g, N, Seq(Seq(Providers)), <<>>, next)
  <2>1. <<>> \in Seq(Seq(Providers))
    OBVIOUS
  <2>2. StepsIn(next, N, Seq(Seq(Providers)))
    BY <1>4 DEF StepsIn
  <2> HIDE DEF next, N
  <2> QED BY <1>2, <2>1, <2>2, WalkExists
<1>6. g \in [0 .. N -> Seq(Seq(Providers))] /\ g[0] = <<>> /\ \A k \in 1 .. N : g[k] = next[k][g[k - 1]]
  BY <1>5 DEF Walks
<1> HIDE DEF N
<1>7. \A k \in 1 .. N : k \in 0 .. N /\ k - 1 \in 0 .. N /\ k # 0
  BY <1>2
<1>8. \A k \in 1 .. N : g[k] = Pack(size, N, g[k - 1], plan[k])
  <2> HIDE DEF next
  <2> QED BY <1>4, <1>6, <1>7
<1>9. g = [k \in 0 .. N |-> IF k = 0 THEN <<>> ELSE Pack(size, N, g[k - 1], plan[k])]
  <2>1. ASSUME NEW k \in 0 .. N
        PROVE  g[k] = IF k = 0 THEN <<>> ELSE Pack(size, N, g[k - 1], plan[k])
    <3>1. k # 0 => k \in 1 .. N
      BY <1>2
    <3> HIDE DEF next
    <3> QED BY <1>6, <1>8, <3>1
  <2> HIDE DEF next
  <2> QED BY <1>6, <2>1
<1>10. made = [k \in 0 .. N |-> IF k = 0 THEN <<>> ELSE Pack(size, N, made[k - 1], plan[k])]
  BY <1>9
<1> HIDE DEF made
<1>11. made[0] = <<>> /\ \A k \in 1 .. N : made[k] = Pack(size, N, made[k - 1], plan[k])
  <2>1. 0 \in 0 .. N
    BY <1>2
  <2> QED BY <1>7, <1>10, <2>1, Zenon
<1> DEFINE Good(k) == HoldsTiles(plan, made[k], k) /\ FewRows(size, plan, made[k], k)
           I == {k \in 0 .. N : Good(k)}
<1>12. 0 \in I
  <2>1. HoldsTiles(plan, <<>>, 0)
    BY DEF HoldsTiles
  <2>2. FewRows(size, plan, <<>>, 0)
    BY DEF FewRows
  <2> QED BY <1>2, <1>11, <2>1, <2>2
<1>13. ASSUME NEW k \in 1 .. N, k - 1 \in I PROVE k \in I
  <2> DEFINE old == made[k - 1]
             new == made[k]
  <2>1. HoldsTiles(plan, old, k - 1) /\ FewRows(size, plan, old, k - 1)
    BY <1>13
  <2>2. new = Pack(size, Len(plan), old, plan[k])
    BY <1>11 DEF N
  <2>3. old \in Seq(Seq(Providers)) /\ plan[k] \in Providers /\ k \in 1 .. Len(plan) /\ k \in 0 .. N
    BY <1>2, <1>7, <2>1 DEF HoldsTiles, N
  <2> HIDE DEF old, new
  <2>4. /\ new \in Seq(Seq(Providers))
        /\ IF old # <<>> /\ Joins(size, Len(plan), old[Len(old)], plan[k])
           THEN Joined(old, plan[k], new) ELSE Opens(old, plan[k], new)
    BY <2>2, <2>3, PackIs
  <2>5. FewRows(size, plan, new, k)
    <3>1. CASE k = 1
      <4>1. old = <<>>
        BY <1>11, <3>1 DEF old
      <4> QED BY <1>2, <2>3, <2>4, <3>1, <4>1, FirstRowIs DEF N
    <3>2. CASE k # 1
      <4>1. k > 1 /\ k - 1 \in 1 .. N /\ k - 1 < k
        BY <1>2, <3>2
      <4>2. Turn(plan[k - 1]) < Turn(plan[k])
        BY <1>3, <4>1
      <4> QED BY <1>2, <2>1, <2>3, <2>4, <4>1, <4>2, TileKeepsRowsFew
    <3> QED BY <3>1, <3>2
  <2>6. old # <<>> /\ Joins(size, Len(plan), old[Len(old)], plan[k]) => Len(old[Len(old)]) <= 3
    <3> DEFINE len == Len(old[Len(old)])
    <3>1. ASSUME old # <<>> PROVE len \in Nat
      <4>1. Len(old) \in 1 .. Len(old)
        BY <2>3, <3>1
      <4>2. old[Len(old)] \in Seq(Providers)
        BY <2>3, <4>1
      <4> QED BY <4>2
    <3>2. Joins(size, Len(plan), old[Len(old)], plan[k]) =>
            len < UltraCompactColumns(size, Len(plan)) \/ len = 1
      BY DEF Joins
    <3>3. UltraCompactColumns(size, Len(plan)) \in 2 .. 4
      BY ColumnsAre
    <3> HIDE DEF len
    <3>4. ASSUME old # <<>>, Joins(size, Len(plan), old[Len(old)], plan[k]) PROVE len <= 3
      BY <3>1, <3>2, <3>3, <3>4
    <3> QED BY <3>4 DEF len
  <2>7. HoldsTiles(plan, new, k)
    <3>1. \/ Joined(old, plan[k], new) /\ Len(old[Len(old)]) <= 3
          \/ Opens(old, plan[k], new)
      BY <2>4, <2>6
    <3> QED BY <1>2, <2>1, <2>3, <2>4, <3>1, TileKeepsRows
  <2> QED BY <2>3, <2>5, <2>7 DEF new
<1>14. Good(N)
  <2> HIDE DEF I
  <2>1. 0 .. N \subseteq I
    BY <1>2, <1>12, <1>13, Climb
  <2>2. N \in I
    BY <1>2, <2>1
  <2> QED BY <2>2 DEF I
<1> DEFINE rows == made[N]
           n == Len(rows)
           len == Len(rows[n])
           cols == UltraCompactColumns(size, N)
<1>15. HoldsTiles(plan, rows, N) /\ FewRows(size, plan, rows, N) /\ n \in Nat /\ n <= N
  BY <1>14 DEF HoldsTiles
<1>16. n <= MostRows(size)
  <2>1. CASE n = 0
    BY <2>1 DEF MostRows
  <2>2. CASE n # 0
    <3>1. N > 0 /\ n \in 1 .. n
      BY <1>2, <1>15, <2>2
    <3>2. /\ IsUltraCompact(size) => len <= cols /\ N = cols * (n - 1) + len
          /\ ~ IsUltraCompact(size) /\ CanPair(size) => n <= Group(plan[N])
      BY <1>15, <3>1 DEF FewRows, N
    <3>3. len \in 1 .. 4
      BY <1>15, <3>1 DEF HoldsTiles
    <3>4. N <= 5 /\ cols \in 2 .. 4 /\ (N >= 5 => cols >= 3)
      <4>1. cols \in 2 .. 4
        BY ColumnsAre
      <4>2. cols = IF size[2] > size[1] THEN IF N <= 4 THEN 2 ELSE 3 ELSE 4
        BY DEF UltraCompactColumns
      <4> HIDE DEF cols
      <4> QED BY <1>2, <4>1, <4>2
    <3>5. Group(plan[N]) \in 1 .. 3
      <4>1. plan[N] \in Providers
        BY <1>2, <3>1
      <4> QED BY <4>1, GroupIs
    <3> HIDE DEF n, len, cols, rows
    <3>6. IsUltraCompact(size) => n <= 2
      <4>1. ASSUME n >= 3, IsUltraCompact(size) PROVE FALSE
        <5>1. cols * (n - 1) >= cols * 2
          BY <1>15, <3>4, <4>1
        <5>2. N >= cols * 2 + 1
          BY <1>15, <3>2, <3>3, <3>4, <4>1, <5>1
        <5> QED BY <1>2, <3>4, <5>2
      <4> QED BY <1>15, <4>1
    <3>7. ~ IsUltraCompact(size) /\ CanPair(size) => n <= 3
      BY <1>15, <3>2, <3>5
    <3>8. n <= 5
      BY <1>2, <1>15
    <3> QED BY <3>6, <3>7, <3>8 DEF MostRows
  <2> QED BY <2>1, <2>2
<1> QED BY <1>1, <1>15, <1>16 DEF N

-----------------------------------------------------------------------------
(* The heights of the rows *)

\* The greater and the smaller of two.
LEMMA MaxOfTwo ==
  ASSUME NEW x \in Int, NEW y \in Int
  PROVE  Max({x, y}) = IF x < y THEN y ELSE x
BY DEF Max

LEMMA MinOfTwo ==
  ASSUME NEW x \in Int, NEW y \in Int
  PROVE  Min({x, y}) = IF x < y THEN x ELSE y
BY DEF Min

Counted(reports) ==
  \A p \in DOMAIN reports : reports[p] \in [session : Nat, weekly : Nat, scoped : Nat]

\* A reading has so many bars.
LEMMA BarsAre ==
  ASSUME NEW reading \in [session : Nat, weekly : Nat, scoped : Nat], NEW weeklyOnly
  PROVE  BarsFor(reading, weeklyOnly) \in Nat
<1>1. reading.session \in Nat /\ reading.weekly \in Nat /\ reading.scoped \in Nat
  OBVIOUS
<1>2. (IF weeklyOnly /\ reading.weekly > 0 THEN 0 ELSE reading.session) \in Nat
  BY <1>1
<1> QED BY <1>1, <1>2 DEF BarsFor

\* So has a tile, whichever of the accounts it stands for reports.
LEMMA TileBarsAre ==
  ASSUME NEW reports, Counted(reports), NEW row, NEW p, Shows(reports, p)
  PROVE  TileBars(reports, row, p) \in Nat
<1> DEFINE account(a) == IF a \in DOMAIN reports THEN BarsFor(reports[a], FALSE) ELSE 0
<1>1. account("claude") \in Nat /\ account("claude_work") \in Nat
  BY BarsAre DEF Counted
<1>2. CASE p = "claude"
  <2>1. TileBars(reports, row, p) = account("claude") + account("claude_work")
    BY <1>2 DEF TileBars
  <2> HIDE DEF account
  <2> QED BY <1>1, <2>1
<1>3. CASE p # "claude"
  <2>1. reports[p] \in [session : Nat, weekly : Nat, scoped : Nat]
    BY <1>3 DEF Shows, Counted
  <2> QED BY <1>3, <2>1, BarsAre DEF TileBars
<1> QED BY <1>2, <1>3

\* Every row has room for a bar at least.
LEMMA WeightIs ==
  ASSUME NEW size, NEW reports, Counted(reports), NEW row \in Seq(Providers),
         \A j \in 1 .. Len(row) : Shows(reports, row[j])
  PROVE  RowWeight(size, reports, row) \in Nat \ {0}
<1> DEFINE f == [p \in Range(row) |-> TileBars(reports, row, p)]
           T == {f[p] : p \in Range(row)}
           S == {1} \cup T
<1>1. Range(row) \subseteq Providers /\ \A p \in Range(row) : Shows(reports, p)
  BY DEF Range
<1>2. IsFiniteSet(Range(row))
  <2>1. Providers = {"claude"} \cup {"codex"} \cup {"antigravity"} \cup {"zai"} \cup {"ollama"}
    BY DEF Providers
  <2>2. IsFiniteSet(Providers)
    BY <2>1, FS_Singleton, FS_Union
  <2> QED BY <1>1, <2>2, FS_Subset
<1>3. \A p \in Range(row) : f[p] = TileBars(reports, row, p) /\ f[p] \in Nat
  BY <1>1, TileBarsAre
<1>4. RowWeight(size, reports, row) = IF IsUltraCompact(size) THEN 1 ELSE Max(S)
  <2>1. T = {TileBars(reports, row, p) : p \in Range(row)}
    BY <1>3
  <2> HIDE DEF T
  <2> QED BY <2>1 DEF RowWeight
<1>5. T \subseteq Nat
  <2> HIDE DEF f
  <2> QED BY <1>3
<1>6. IsFiniteSet(T)
  <2> HIDE DEF f
  <2> QED BY <1>2, FiniteImage
<1> HIDE DEF T
<1>7. IsFiniteSet(S) /\ S \subseteq Nat /\ S \subseteq Int /\ 1 \in S
  <2>1. IsFiniteSet({1})
    BY FS_Singleton
  <2>2. IsFiniteSet(S)
    BY <1>6, <2>1, FS_Union
  <2> QED BY <1>5, <2>2
<1> HIDE DEF S
<1>8. Max(S) \in S /\ 1 <= Max(S)
  BY <1>7, GreatestIs
<1>9. Max(S) \in Nat \ {0}
  <2>1. Max(S) \in Nat
    BY <1>7, <1>8
  <2> QED BY <1>8, <2>1
<1> QED BY <1>4, <1>9

\* The margins are narrow: five of them leave room for four fingers.
LEMMA MarginIs ==
  ASSUME NEW size \in Nat \X Nat, size[1] >= 240
  PROVE  Margin(size) \in Nat /\ Margin(size) >= 4 /\ size[1] - 5 * Margin(size) >= 176
<1> DEFINE W == size[1]
           n == W * 2
           r == Round(n, 100)
<1>1. W \in Nat /\ W >= 240 /\ n \in Nat /\ n = W * 2
  OBVIOUS
<1>2. Margin(size) = Max({4, r})
  BY DEF Margin
<1> HIDE DEF W, n
<1>3. r \in Nat /\ 2 * (100 * r) <= 2 * n + 100
  <2>1. 100 \in Nat \ {0}
    OBVIOUS
  <2> QED BY <1>1, <2>1, Halves
<1> HIDE DEF r
<1>4. Margin(size) = IF 4 < r THEN r ELSE 4
  BY <1>2, <1>3, MaxOfTwo
<1> QED BY <1>1, <1>3, <1>4 DEF W

\* The status line is high enough for a finger.
LEMMA StatusIs ==
  ASSUME NEW size \in Nat \X Nat
  PROVE  StatusHeight(size) \in Nat /\ StatusHeight(size) >= MinTouchTarget
<1> DEFINE n == size[2] * 85
           d == 1000
           r == Round(n, d)
<1>1. n \in Nat /\ d \in Nat \ {0}
  OBVIOUS
<1>2. StatusHeight(size) = Max({44, r})
  BY DEF StatusHeight, MinTouchTarget
<1> HIDE DEF n, d
<1>3. r \in Nat
  BY <1>1, Halves
<1> HIDE DEF r
<1> QED BY <1>2, <1>3, MaxOfTwo DEF MinTouchTarget

\* So is a tile without any bars.
LEMMA OverheadIs ==
  ASSUME NEW size \in Nat \X Nat, TitleHeight[size] \in Nat, TitleHeight[size] >= 24
  PROVE  TileOverhead(size) \in Nat /\ TileOverhead(size) >= MinTouchTarget
<1> DEFINE e == Edge(size)
           pad == Max({8, e \div 40})
<1>1. e \in Nat
  BY MinOfTwo DEF Edge
<1>2. TileOverhead(size) = pad + TitleHeight[size] + pad \div 2 + pad
  BY DEF TileOverhead
<1> HIDE DEF e
<1>3. e \div 40 \in Nat
  BY <1>1, Divides
<1>4. pad \in Nat /\ pad >= 8
  BY <1>3, MaxOfTwo
<1> HIDE DEF pad
<1>5. pad \div 2 \in Nat /\ pad \div 2 >= 4
  BY <1>4
<1> QED BY <1>2, <1>4, <1>5 DEF MinTouchTarget

Share(usable, weights) ==
  [i \in 1 .. Len(weights) |-> (usable * weights[i]) \div UpTo(weights)[Len(weights)]]

\* The shares of the rows before the last leave something, or nothing, but no debt.
LEMMA SharesAre ==
  ASSUME NEW usable \in Nat, NEW weights, Len(weights) \in Nat \ {0},
         \A i \in 1 .. Len(weights) : weights[i] \in Nat \ {0}
  PROVE  LET n == Len(weights)
             share == Share(usable, weights)
         IN  /\ Len(share) = n /\ \A i \in 1 .. n : share[i] \in Nat
             /\ UpTo(share)[n - 1] \in Nat /\ UpTo(share)[n - 1] <= usable
<1> DEFINE n == Len(weights)
           share == Share(usable, weights)
           W == UpTo(weights)
           S == UpTo(share)
           total == W[n]
           I == {i \in 0 .. n : total * S[i] <= usable * W[i]}
<1>1. n \in Nat \ {0} /\ \A i \in 1 .. n : weights[i] \in Nat /\ weights[i] # 0
  OBVIOUS
<1>2. /\ W[0] = 0 /\ \A i \in 1 .. n : W[i] = W[i - 1] + weights[i]
      /\ \A i \in 0 .. n : W[i] \in Nat
      /\ \A i, j \in 0 .. n : i <= j => W[i] <= W[j]
  <2>1. Len(weights) \in Nat /\ \A i \in 1 .. Len(weights) : weights[i] \in Nat /\ weights[i] \in Int
    OBVIOUS
  <2> HIDE DEF W
  <2> QED BY <2>1, SumIs, SumGrows DEF W
<1>3. total \in Nat \ {0}
  <2>1. n \in 1 .. n /\ n - 1 \in 0 .. n /\ n \in 0 .. n
    BY <1>1
  <2> HIDE DEF n, W
  <2>2. W[n] = W[n - 1] + weights[n] /\ W[n - 1] \in Nat /\ weights[n] \in Nat /\ weights[n] # 0
    BY <1>1, <1>2, <2>1
  <2> QED BY <2>2
<1>4. share = [i \in 1 .. n |-> (usable * weights[i]) \div total]
  BY DEF Share
<1> HIDE DEF n, W, total
<1>5. \A i \in 1 .. n : share[i] \in Nat /\ total * share[i] <= usable * weights[i]
  <2>1. ASSUME NEW i \in 1 .. n PROVE share[i] \in Nat /\ total * share[i] <= usable * weights[i]
    <3> DEFINE a == usable * weights[i]
               q == a \div total
    <3>1. a \in Nat
      BY <1>1
    <3>2. share[i] = q
      BY <1>4
    <3> HIDE DEF a
    <3> DEFINE m == a % total
    <3>3. q \in Nat /\ m \in 0 .. (total - 1) /\ a = total * q + m
      BY <1>3, <3>1, Divides
    <3> HIDE DEF q, m, share
    <3>4. total * q <= a
      <4>1. total * q \in Int
        BY <1>3, <3>3
      <4> QED BY <1>3, <3>1, <3>3, <4>1
    <3> QED BY <3>2, <3>3, <3>4 DEF a
  <2> QED BY <2>1
<1>6. Len(share) = n
  BY <1>1, <1>4
<1> HIDE DEF share
<1>7. /\ S[0] = 0 /\ \A i \in 1 .. n : S[i] = S[i - 1] + share[i]
      /\ \A i \in 0 .. n : S[i] \in Nat
  <2>1. Len(share) \in Nat /\ \A i \in 1 .. Len(share) : share[i] \in Nat /\ share[i] \in Int
    BY <1>1, <1>5, <1>6
  <2>2. /\ S[0] = 0 /\ \A i \in 1 .. Len(share) : S[i] = S[i - 1] + share[i]
        /\ \A i \in 0 .. Len(share) : S[i] \in Nat
    <3> HIDE DEF S
    <3> QED BY <2>1, SumIs, SumGrows DEF S
  <2> QED BY <1>6, <2>2
<1> HIDE DEF S
<1>8. 0 \in I
  BY <1>1, <1>2, <1>3, <1>7
<1>9. ASSUME NEW m \in 1 .. n, m - 1 \in I PROVE m \in I
  <2>1. m - 1 \in 0 .. n /\ m \in 0 .. n
    BY <1>1
  <2>2. S[m] = S[m - 1] + share[m] /\ W[m] = W[m - 1] + weights[m]
    BY <1>2, <1>7
  <2>3. S[m - 1] \in Nat /\ W[m - 1] \in Nat /\ share[m] \in Nat /\ weights[m] \in Nat
    BY <1>1, <1>2, <1>5, <1>7, <2>1
  <2>4. total * S[m - 1] <= usable * W[m - 1] /\ total * share[m] <= usable * weights[m]
    BY <1>5, <1>9
  <2> DEFINE s == S[m - 1]
             w == W[m - 1]
             h == share[m]
             v == weights[m]
  <2> HIDE DEF s, w, h, v
  <2>8. s \in Nat /\ w \in Nat /\ h \in Nat /\ v \in Nat /\ total \in Nat
    BY <1>3, <2>3 DEF s, w, h, v
  <2>5. total * (s + h) = total * s + total * h /\ usable * (w + v) = usable * w + usable * v
    BY <2>8
  <2>6. total * s \in Int /\ total * h \in Int /\ usable * w \in Int /\ usable * v \in Int
    BY <2>8
  <2>7. total * (s + h) <= usable * (w + v)
    <3>1. total * s <= usable * w /\ total * h <= usable * v
      BY <2>4 DEF s, w, h, v
    <3> QED BY <2>5, <2>6, <3>1
  <2> QED BY <2>1, <2>2, <2>7 DEF s, w, h, v
<1>10. n - 1 \in 0 .. n /\ n \in 0 .. n /\ n - 1 <= n
  BY <1>1
<1>11. total * S[n - 1] <= usable * W[n - 1]
  <2>1. 0 .. n \subseteq I
    <3> HIDE DEF I
    <3> QED BY <1>1, <1>8, <1>9, Climb
  <2> QED BY <1>10, <2>1
<1>12. W[n - 1] <= total /\ W[n - 1] \in Nat /\ S[n - 1] \in Nat
  BY <1>2, <1>7, <1>10 DEF total
<1>13. S[n - 1] <= usable
  <2> DEFINE s == S[n - 1]
             w == W[n - 1]
  <2>1. s \in Nat /\ w \in Nat /\ w <= total /\ total * s <= usable * w
    BY <1>11, <1>12
  <2> HIDE DEF s, w
  <2>2. w * usable <= total * usable
    BY <1>3, <2>1, TimesGrows
  <2>3. usable * w = w * usable /\ total * usable \in Int /\ w * usable \in Int /\ total * s \in Int
    BY <1>3, <2>1
  <2>4. total * s <= total * usable
    BY <2>1, <2>2, <2>3
  <2>5. ASSUME s > usable PROVE FALSE
    <3>1. usable * total + total <= s * total
      BY <1>3, <2>1, <2>5, TimesGrows
    <3>2. usable * total = total * usable /\ s * total = total * s
      BY <1>3, <2>1
    <3> QED BY <1>3, <2>3, <2>4, <3>1, <3>2
  <2>6. s <= usable
    BY <2>1, <2>5
  <2> QED BY <2>6 DEF s
<1> QED BY <1>5, <1>6, <1>12, <1>13 DEF n, share, S

\* A screen with room has something left when its rows have their titles.
LEMMA RoomIsLeft ==
  ASSUME NEW size, Roomy(size), NEW n \in Nat, n <= MostRows(size)
  PROVE  LET left == size[2] - StatusHeight(size) - Margin(size) - Margin(size) * (n + 1)
                     - TileOverhead(size) * n
         IN  /\ left \in Nat
             /\ Margin(size) * n + n * TileOverhead(size) + left <= size[2] - StatusHeight(size)
<1> DEFINE m == Margin(size)
           o == TileOverhead(size)
           s == StatusHeight(size)
           h == size[2]
           most == MostRows(size)
<1>1. size \in Nat \X Nat /\ m \in Nat /\ o \in Nat /\ s \in Nat /\ h \in Nat
  <2>1. size \in Nat \X Nat /\ size[1] >= 240 /\ TitleHeight[size] \in Nat /\ TitleHeight[size] >= 24
    BY DEF Roomy
  <2> QED BY <2>1, MarginIs, OverheadIs, StatusIs
<1>2. most \in Nat
  BY DEF MostRows
<1>3. most * (o + m) + 2 * m + s <= h
  BY DEF Roomy
<1> HIDE DEF m, o, s, h, most
<1>4. o + m \in Nat
  BY <1>1
<1>5. n * (o + m) <= most * (o + m)
  BY <1>2, <1>4, TimesGrows DEF most
<1>6. n * (o + m) = n * o + n * m /\ m * n = n * m /\ o * n = n * o /\ m * (n + 1) = n * m + m
  BY <1>1
<1>7. n * o \in Nat /\ n * m \in Nat /\ most * (o + m) \in Nat
  BY <1>1, <1>2, <1>4
<1>8. h - s - m - m * (n + 1) - o * n = h - s - 2 * m - n * (o + m)
  BY <1>1, <1>6, <1>7
<1>9. h - s - 2 * m - n * (o + m) \in Nat
  BY <1>1, <1>3, <1>5, <1>6, <1>7
<1>10. m * n + n * o + (h - s - 2 * m - n * (o + m)) <= h - s
  BY <1>1, <1>6, <1>7
<1> QED BY <1>8, <1>9, <1>10 DEF m, o, s, h

\* The rows fit: each has room for a title and a finger, and together they leave the
\* status line and the margins free.
LEMMA HeightsAre ==
  ASSUME NEW size, Roomy(size), NEW weights, Len(weights) \in Nat \ {0}, Len(weights) <= MostRows(size),
         \A i \in 1 .. Len(weights) : weights[i] \in Nat \ {0}
  PROVE  LET n == Len(weights)
             heights == RowHeights(size, weights)
             above == UpTo(heights)
         IN  /\ \A i \in 1 .. n : heights[i] \in Nat /\ heights[i] >= MinTouchTarget
             /\ \A i \in 0 .. n : above[i] \in Nat
             /\ \A i \in 1 .. n : above[i] = above[i - 1] + heights[i]
             /\ \A i, j \in 0 .. n : i <= j => above[i] <= above[j]
             /\ Margin(size) * n + above[n] <= size[2] - StatusHeight(size)
<1> DEFINE n == Len(weights)
           o == TileOverhead(size)
           left == size[2] - StatusHeight(size) - Margin(size) - Margin(size) * (n + 1)
                     - TileOverhead(size) * n
           share == Share(left, weights)
           S == UpTo(share)
           H == RowHeights(size, weights)
           A == UpTo(H)
<1>1. n \in Nat \ {0} /\ o \in Nat /\ o >= MinTouchTarget
  <2>1. size \in Nat \X Nat /\ TitleHeight[size] \in Nat /\ TitleHeight[size] >= 24
    BY DEF Roomy
  <2> QED BY <2>1, OverheadIs
<1>2. left \in Nat /\ Margin(size) * n + n * o + left <= size[2] - StatusHeight(size)
  <2>1. n \in Nat
    BY <1>1
  <2> QED BY <2>1, RoomIsLeft
<1>3. H = [i \in 1 .. n |-> o + IF i = n THEN left - S[n - 1] ELSE share[i]]
  <2>1. Max({0, left}) = left
    <3> HIDE DEF left
    <3> QED BY <1>2, MaxOfTwo
  <2> QED BY <2>1 DEF RowHeights, Share
<1>4. /\ Len(share) = n /\ \A i \in 1 .. n : share[i] \in Nat
      /\ S[n - 1] \in Nat /\ S[n - 1] <= left
  <2> HIDE DEF left
  <2> QED BY <1>2, SharesAre
<1> HIDE DEF left, share
<1>5. S[0] = 0 /\ \A i \in 1 .. n : S[i] = S[i - 1] + share[i]
  <2>1. Len(share) \in Nat /\ \A i \in 1 .. Len(share) : share[i] \in Int
    BY <1>1, <1>4
  <2> HIDE DEF S
  <2>2. S[0] = 0 /\ \A i \in 1 .. Len(share) : S[i] = S[i - 1] + share[i]
    BY <2>1, SumIs DEF S
  <2> QED BY <1>4, <2>2
<1>6. \A i \in 0 .. n : S[i] \in Nat
  <2>1. Len(share) \in Nat /\ \A i \in 1 .. Len(share) : share[i] \in Nat
    BY <1>1, <1>4
  <2> HIDE DEF S
  <2>2. \A i \in 0 .. Len(share) : S[i] \in Nat
    BY <2>1, SumGrows DEF S
  <2> QED BY <1>4, <2>2
<1> HIDE DEF n, o, S
<1>7. \A i \in 1 .. n : H[i] = o + IF i = n THEN left - S[n - 1] ELSE share[i]
  BY <1>3
<1>8. Len(H) = n
  BY <1>1, <1>3
<1> HIDE DEF H
<1>9. \A i \in 1 .. n : H[i] \in Nat /\ H[i] >= MinTouchTarget
  <2>1. ASSUME NEW i \in 1 .. n PROVE H[i] \in Nat /\ H[i] >= MinTouchTarget
    <3>1. CASE i = n
      BY <1>1, <1>2, <1>4, <1>7, <3>1 DEF MinTouchTarget
    <3>2. CASE i # n
      <4>1. H[i] = o + share[i] /\ share[i] \in Nat
        BY <1>4, <1>7, <3>2
      <4> QED BY <1>1, <4>1 DEF MinTouchTarget
    <3> QED BY <3>1, <3>2
  <2> QED BY <2>1
<1>10. /\ \A i \in 0 .. n : A[i] \in Nat
       /\ A[0] = 0 /\ \A i \in 1 .. n : A[i] = A[i - 1] + H[i]
       /\ \A i, j \in 0 .. n : i <= j => A[i] <= A[j]
  <2>1. Len(H) \in Nat /\ \A i \in 1 .. Len(H) : H[i] \in Nat /\ H[i] \in Int
    BY <1>1, <1>8, <1>9
  <2> HIDE DEF A
  <2>2. /\ \A i \in 0 .. Len(H) : A[i] \in Nat
        /\ A[0] = 0 /\ \A i \in 1 .. Len(H) : A[i] = A[i - 1] + H[i]
        /\ \A i, j \in 0 .. Len(H) : i <= j => A[i] <= A[j]
    BY <2>1, SumIs, SumGrows DEF A
  <2> QED BY <1>8, <2>2
<1> HIDE DEF A
<1>11. A[n] = n * o + left
  <2> DEFINE I == {i \in 0 .. (n - 1) : A[i] = i * o + S[i]}
  <2>1. 0 \in I
    <3>1. 0 \in 0 .. (n - 1) /\ 0 * o = 0
      BY <1>1
    <3> QED BY <1>5, <1>10, <3>1
  <2>2. ASSUME NEW i \in 1 .. (n - 1), i - 1 \in I PROVE i \in I
    <3>1. i \in 1 .. n /\ i # n /\ i - 1 \in 0 .. n /\ i \in 0 .. (n - 1)
      BY <1>1
    <3>2. A[i] = A[i - 1] + (o + share[i]) /\ S[i] = S[i - 1] + share[i] /\ A[i - 1] = (i - 1) * o + S[i - 1]
      BY <1>5, <1>7, <1>10, <2>2, <3>1
    <3>3. share[i] \in Nat /\ S[i - 1] \in Nat /\ (i - 1) * o + o = i * o /\ (i - 1) * o \in Int /\ i * o \in Int
      BY <1>1, <1>4, <1>6, <3>1
    <3>4. A[i] = i * o + S[i]
      BY <1>1, <3>2, <3>3
    <3> QED BY <3>1, <3>4
  <2>3. n - 1 \in I
    <3>1. n - 1 \in Nat /\ n - 1 \in 0 .. (n - 1)
      BY <1>1
    <3>2. 0 .. (n - 1) \subseteq I
      <4> HIDE DEF I
      <4> QED BY <2>1, <2>2, <3>1, Climb
    <3> QED BY <3>1, <3>2
  <2>4. A[n - 1] = (n - 1) * o + S[n - 1] /\ n \in 1 .. n
    BY <1>1, <2>3
  <2>5. A[n] = A[n - 1] + (o + (left - S[n - 1]))
    BY <1>7, <1>10, <2>4
  <2>6. (n - 1) * o + o = n * o /\ (n - 1) * o \in Int /\ n * o \in Int
    BY <1>1
  <2> QED BY <1>1, <1>2, <1>4, <2>4, <2>5, <2>6
<1>12. Margin(size) * n + A[n] <= size[2] - StatusHeight(size)
  <2>1. n * o \in Nat /\ Margin(size) * n \in Int
    <3>1. Margin(size) \in Nat
      BY MarginIs DEF Roomy
    <3> QED BY <1>1, <3>1
  <2>2. Margin(size) * n + A[n] = Margin(size) * n + n * o + left
    BY <1>2, <1>11, <2>1
  <2> QED BY <1>2, <2>2
<1> QED BY <1>9, <1>10, <1>12 DEF n, H, A

-----------------------------------------------------------------------------
(* The grid *)

\* The columns of a row are wide enough for a finger, and each ends before the next begins.
LEMMA ColumnsFit ==
  ASSUME NEW size, Roomy(size), NEW c \in 1 .. 4
  PROVE  LET m == Margin(size)
             w == (size[1] - m * (c + 1)) \div c
         IN  /\ w \in Nat /\ w >= MinTouchTarget /\ m \in Nat
             /\ \A k \in 1 .. c : (k - 1) * (w + m) \in Nat /\ m + (k - 1) * (w + m) + w <= size[1]
             /\ \A k, l \in 1 .. c : k < l => m + (k - 1) * (w + m) + w <= m + (l - 1) * (w + m)
<1> DEFINE m == Margin(size)
           w == (size[1] - m * (c + 1)) \div c
           W == size[1]
<1>1. W \in Nat /\ m \in Nat /\ W - 5 * m >= 176
  <2>1. size \in Nat \X Nat /\ size[1] >= 240
    BY DEF Roomy
  <2> QED BY <2>1, MarginIs
<1>2. w = (W - m * (c + 1)) \div c
  OBVIOUS
<1> HIDE DEF m, w, W
<1>3. c = 1 \/ c = 2 \/ c = 3 \/ c = 4
  OBVIOUS
<1>4. w \in Nat /\ w >= 44 /\ c * w + m * (c + 1) <= W
  <2>1. CASE c = 1
    <3>1. w = (W - m * 2) \div 1
      BY <1>2, <2>1
    <3>2. w \in Nat /\ w >= 44 /\ 1 * w + m * 2 <= W
      BY <1>1, <3>1
    <3> QED BY <2>1, <3>2
  <2>2. CASE c = 2
    <3>1. w = (W - m * 3) \div 2
      BY <1>2, <2>2
    <3>2. w \in Nat /\ w >= 44 /\ 2 * w + m * 3 <= W
      BY <1>1, <3>1
    <3> QED BY <2>2, <3>2
  <2>3. CASE c = 3
    <3>1. w = (W - m * 4) \div 3
      BY <1>2, <2>3
    <3>2. w \in Nat /\ w >= 44 /\ 3 * w + m * 4 <= W
      BY <1>1, <3>1
    <3> QED BY <2>3, <3>2
  <2>4. CASE c = 4
    <3>1. w = (W - m * 5) \div 4
      BY <1>2, <2>4
    <3>2. w \in Nat /\ w >= 44 /\ 4 * w + m * 5 <= W
      BY <1>1, <3>1
    <3> QED BY <2>4, <3>2
  <2> QED BY <1>3, <2>1, <2>2, <2>3, <2>4
<1> DEFINE s == w + m
<1>5. s \in Nat /\ s = w + m
  BY <1>1, <1>4
<1>6. (c - 1) * s + s = c * w + c * m /\ m * (c + 1) = c * m + m
      /\ (c - 1) * s \in Nat /\ c * w \in Nat /\ c * m \in Nat
  BY <1>1, <1>4
<1> HIDE DEF s
<1>7. ASSUME NEW k \in 1 .. c PROVE (k - 1) * s \in Nat /\ m + (k - 1) * s + w <= W
  <2>1. (k - 1) * s \in Nat /\ (k - 1) * s <= (c - 1) * s
    <3>1. k - 1 \in Nat /\ c - 1 \in Nat /\ k - 1 <= c - 1
      OBVIOUS
    <3> QED BY <1>5, <3>1, TimesGrows
  <2> QED BY <1>1, <1>4, <1>5, <1>6, <2>1
<1>8. ASSUME NEW k \in 1 .. c, NEW l \in 1 .. c, k < l PROVE m + (k - 1) * s + w <= m + (l - 1) * s
  <2>1. k - 1 \in Nat /\ l - 1 \in Nat /\ k - 1 <= l - 1 /\ k - 1 < l - 1
    BY <1>8
  <2>2. (k - 1) * s + s <= (l - 1) * s /\ (k - 1) * s \in Nat /\ (l - 1) * s \in Nat
    BY <1>5, <2>1, TimesGrows
  <2> QED BY <1>1, <1>4, <1>5, <2>2
<1> QED BY <1>1, <1>4, <1>7, <1>8 DEF m, w, W, s, MinTouchTarget

\* The refresh button lies on the status line.
LEMMA ButtonFits ==
  ASSUME NEW size, Roomy(size)
  PROVE  Inside(RefreshRect(size), StatusRect(size)) /\ Touchable(RefreshRect(size))
<1> DEFINE W == size[1]
           y == size[2] - StatusHeight(size)
           h == StatusHeight(size)
           side == Min({Max({MinTouchTarget, h - 12}), h})
           inset == Min({10, Max({4, side \div 3})})
<1>1. W \in Nat /\ y \in Int /\ h \in Nat /\ h >= 44 /\ h + 10 <= W
  <2>1. size \in Nat \X Nat
    BY DEF Roomy
  <2>2. size[1] \in Nat /\ size[2] \in Nat /\ StatusHeight(size) \in Nat /\ StatusHeight(size) >= 44
    BY <2>1, StatusIs DEF MinTouchTarget
  <2> QED BY <2>2 DEF Roomy
<1>2. StatusRect(size) = [x |-> 0, y |-> y, w |-> W, h |-> h]
  BY DEF StatusRect, Rect
<1>3. RefreshRect(size) = [x |-> 0 + W - side - inset, y |-> y + (h - side) \div 2, w |-> side, h |-> side]
  BY <1>2 DEF RefreshRect, Rect
<1> HIDE DEF W, y, h
<1>4. side \in Nat /\ side >= 44 /\ side <= h
  <2>1. MinTouchTarget \in Int /\ MinTouchTarget = 44 /\ h - 12 \in Int
    BY <1>1 DEF MinTouchTarget
  <2> DEFINE a == Max({MinTouchTarget, h - 12})
  <2>2. a \in Int /\ a >= 44 /\ a <= h
    BY <1>1, <2>1, MaxOfTwo
  <2> HIDE DEF a
  <2>3. Min({a, h}) = a
    BY <1>1, <2>2, MinOfTwo
  <2> QED BY <2>2, <2>3 DEF a
<1> HIDE DEF side
<1>5. inset \in Nat /\ inset <= 10
  <2> DEFINE a == Max({4, side \div 3})
  <2>1. side \div 3 \in Int
    BY <1>4
  <2>2. a \in Int /\ a >= 4
    BY <2>1, MaxOfTwo
  <2>3. inset = Min({10, a})
    OBVIOUS
  <2> HIDE DEF a, inset
  <2>4. inset = IF 10 < a THEN 10 ELSE a
    BY <2>2, <2>3, MinOfTwo
  <2> QED BY <2>2, <2>4
<1> HIDE DEF inset
<1>6. (h - side) \div 2 \in Nat /\ (h - side) \div 2 + side <= h
  BY <1>1, <1>4
<1>7. 0 <= 0 + W - side - inset /\ 0 + W - side - inset + side <= 0 + W
  BY <1>1, <1>4, <1>5
<1>8. y <= y + (h - side) \div 2 /\ y + (h - side) \div 2 + side <= y + h
  BY <1>1, <1>4, <1>6
<1> QED BY <1>2, <1>3, <1>4, <1>7, <1>8 DEF Inside, Touchable, MinTouchTarget

\* The rectangle of the k-th tile of the i-th row.
Cell(size, rows, heights, i, k) ==
  LET m == Margin(size)
      w == (size[1] - m * (Len(rows[i]) + 1)) \div Len(rows[i])
  IN  Rect(m + (k - 1) * (w + m), m * i + UpTo(heights)[i - 1], w, heights[i])

HeightsOf(size, reports, rows) ==
  RowHeights(size, [i \in 1 .. Len(rows) |-> RowWeight(size, reports, rows[i])])

\* Every tile that is planned is in a row, and has its rectangle there.
LEMMA TilesAre ==
  ASSUME NEW size, NEW reports
  PROVE  LET plan == TilePlan(reports)
             rows == RowsPlan(size, plan)
             tiles == Tiles(size, reports)
         IN  /\ DOMAIN tiles = Range(plan)
             /\ \A p \in DOMAIN tiles :
                  \E i \in 1 .. Len(rows) : \E k \in 1 .. Len(rows[i]) :
                    rows[i][k] = p /\ tiles[p] = Cell(size, rows, HeightsOf(size, reports, rows), i, k)
<1> DEFINE plan == TilePlan(reports)
           rows == RowsPlan(size, plan)
           heights == HeightsOf(size, reports, rows)
           at(p) == CHOOSE i \in 1 .. Len(rows) : p \in Range(rows[i])
           place(p) == CHOOSE k \in 1 .. Len(rows[at(p)]) : rows[at(p)][k] = p
           tiles == Tiles(size, reports)
<1>1. tiles = [p \in Range(plan) |-> Cell(size, rows, heights, at(p), place(p))]
  BY DEF Tiles, Cell, HeightsOf
<1>2. Planned(reports, plan, 5)
  BY TilePlanIs
<1>3. HoldsTiles(plan, rows, Len(plan))
  <2> HIDE DEF plan
  <2> QED BY <1>2, RowsPlanIs
<1>4. rows \in Seq(Seq(Providers)) /\ plan \in Seq(Providers)
  BY <1>2, <1>3 DEF HoldsTiles, Planned
<1> HIDE DEF plan, rows, heights, tiles
<1>5. ASSUME NEW p \in Range(plan)
      PROVE  at(p) \in 1 .. Len(rows) /\ place(p) \in 1 .. Len(rows[at(p)]) /\ rows[at(p)][place(p)] = p
  <2>1. PICK m \in 1 .. Len(plan) : p = plan[m]
    BY <1>4 DEF Range
  <2>2. PICK i \in 1 .. Len(rows) : \E k \in 1 .. Len(rows[i]) : rows[i][k] = plan[m]
    BY <1>3 DEF HoldsTiles
  <2>3. \A j \in 1 .. Len(rows) : rows[j] \in Seq(Providers)
    BY <1>4
  <2>4. p \in Range(rows[i])
    BY <2>1, <2>2, <2>3 DEF Range
  <2>5. at(p) \in 1 .. Len(rows) /\ p \in Range(rows[at(p)])
    BY <2>4
  <2> HIDE DEF at
  <2>6. \E k \in 1 .. Len(rows[at(p)]) : rows[at(p)][k] = p
    BY <2>3, <2>5 DEF Range
  <2>7. place(p) \in 1 .. Len(rows[at(p)]) /\ rows[at(p)][place(p)] = p
    BY <2>6
  <2> QED BY <2>5, <2>7
<1> HIDE DEF at, place
<1>6. DOMAIN tiles = Range(plan)
      /\ \A p \in Range(plan) : tiles[p] = Cell(size, rows, heights, at(p), place(p))
  BY <1>1
<1>7. ASSUME NEW p \in DOMAIN tiles
      PROVE  \E i \in 1 .. Len(rows) : \E k \in 1 .. Len(rows[i]) :
               rows[i][k] = p /\ tiles[p] = Cell(size, rows, heights, i, k)
  BY <1>5, <1>6
<1> QED BY <1>6, <1>7 DEF plan, rows, heights, tiles

\* The heights of rows that hold the tiles of what reports.
LEMMA RowsFit ==
  ASSUME NEW size, Roomy(size), NEW reports, Counted(reports),
         NEW rows, rows = RowsPlan(size, TilePlan(reports)), Len(rows) # 0,
         NEW heights, heights = HeightsOf(size, reports, rows)
  PROVE  LET n == Len(rows)
             above == UpTo(heights)
         IN  /\ n \in Nat /\ rows \in Seq(Seq(Providers)) /\ \A i \in 1 .. n : Len(rows[i]) \in 1 .. 4
             /\ \A i \in 1 .. n : heights[i] \in Nat /\ heights[i] >= MinTouchTarget
             /\ \A i \in 0 .. n : above[i] \in Nat
             /\ \A i \in 1 .. n : above[i] = above[i - 1] + heights[i]
             /\ \A i, j \in 0 .. n : i <= j => above[i] <= above[j]
             /\ Margin(size) * n + above[n] <= size[2] - StatusHeight(size)
<1> DEFINE n == Len(rows)
           plan == TilePlan(reports)
           weights == [i \in 1 .. n |-> RowWeight(size, reports, rows[i])]
<1>1. Planned(reports, plan, 5) /\ HoldsTiles(plan, rows, Len(plan)) /\ n <= MostRows(size)
  <2>1. Planned(reports, plan, 5)
    BY TilePlanIs
  <2> HIDE DEF plan
  <2> QED BY <2>1, RowsPlanIs DEF plan
<1>2. rows \in Seq(Seq(Providers)) /\ \A i \in 1 .. n : Len(rows[i]) \in 1 .. 4
  BY <1>1 DEF HoldsTiles
<1>3. n \in Nat \ {0} /\ \A i \in 1 .. n : rows[i] \in Seq(Providers)
  BY <1>2
<1>4. ASSUME NEW i \in 1 .. n PROVE RowWeight(size, reports, rows[i]) \in Nat \ {0}
  <2>1. ASSUME NEW j \in 1 .. Len(rows[i]) PROVE Shows(reports, rows[i][j])
    <3>1. PICK m \in 1 .. Len(plan) : rows[i][j] = plan[m]
      BY <1>1 DEF HoldsTiles
    <3> HIDE DEF plan
    <3> QED BY <1>1, <3>1 DEF Planned
  <2> QED BY <1>3, <2>1, WeightIs
<1>5. Len(weights) = n /\ \A i \in 1 .. n : weights[i] \in Nat \ {0}
  BY <1>3, <1>4
<1>6. heights = RowHeights(size, weights)
  BY DEF HeightsOf
<1> HIDE DEF weights, n
<1>7. Len(weights) \in Nat \ {0} /\ Len(weights) <= MostRows(size)
      /\ \A i \in 1 .. Len(weights) : weights[i] \in Nat \ {0}
  BY <1>1, <1>3, <1>5
<1> DEFINE l == Len(weights)
           hs == RowHeights(size, weights)
<1>8. /\ \A i \in 1 .. l : hs[i] \in Nat /\ hs[i] >= MinTouchTarget
      /\ \A i \in 0 .. l : UpTo(hs)[i] \in Nat
      /\ \A i \in 1 .. l : UpTo(hs)[i] = UpTo(hs)[i - 1] + hs[i]
      /\ \A i, j \in 0 .. l : i <= j => UpTo(hs)[i] <= UpTo(hs)[j]
      /\ Margin(size) * l + UpTo(hs)[l] <= size[2] - StatusHeight(size)
  BY <1>7, HeightsAre
<1>9. l = n /\ hs = heights
  BY <1>5, <1>6
<1> HIDE DEF l, hs
<1> QED BY <1>2, <1>3, <1>8, <1>9 DEF n

\* The tiles lie apart above the status line, each large enough for a finger, whichever
\* of the providers report.
LEMMA GridFits ==
  ASSUME NEW size, Roomy(size), NEW reports, Counted(reports)
  PROVE  GridIsSound(size, Tiles(size, reports))
<1> DEFINE tiles == Tiles(size, reports)
           rows == RowsPlan(size, TilePlan(reports))
           heights == HeightsOf(size, reports, rows)
           A == UpTo(heights)
           n == Len(rows)
           W == size[1]
           bottom == size[2] - StatusHeight(size)
           m == Margin(size)
           cols(i) == Len(rows[i])
           w(i) == (W - m * (cols(i) + 1)) \div cols(i)
           x(i, k) == m + (k - 1) * (w(i) + m)
           y(i) == m * i + A[i - 1]
           grid == Rect(0, 0, W, bottom)
<1>1. grid = [x |-> 0, y |-> 0, w |-> W, h |-> bottom]
  BY DEF Rect
<1>2. \A p \in DOMAIN tiles :
        \E i \in 1 .. n : \E k \in 1 .. cols(i) :
          rows[i][k] = p /\ tiles[p] = Cell(size, rows, heights, i, k)
  <2> HIDE DEF heights
  <2> QED BY TilesAre DEF heights
<1>3. \A i, k : Cell(size, rows, heights, i, k) = [x |-> x(i, k), y |-> y(i), w |-> w(i), h |-> heights[i]]
  BY DEF Cell, Rect
<1>4. ASSUME n # 0
      PROVE  /\ n \in Nat /\ \A i \in 1 .. n : cols(i) \in 1 .. 4
             /\ \A i \in 1 .. n : heights[i] \in Nat /\ heights[i] >= MinTouchTarget
             /\ \A i \in 0 .. n : A[i] \in Nat
             /\ \A i \in 1 .. n : A[i] = A[i - 1] + heights[i]
             /\ \A i, j \in 0 .. n : i <= j => A[i] <= A[j]
             /\ m * n + A[n] <= bottom
  <2> HIDE DEF heights, rows
  <2>1. rows = RowsPlan(size, TilePlan(reports)) /\ heights = HeightsOf(size, reports, rows)
    BY DEF heights, rows
  <2> QED BY <1>4, <2>1, RowsFit
<1>5. W \in Nat /\ m \in Nat /\ bottom \in Int
  <2>1. size \in Nat \X Nat /\ size[1] >= 240
    BY DEF Roomy
  <2> QED BY <2>1, MarginIs, StatusIs
<1>6. ASSUME NEW c \in 1 .. 4
      PROVE  LET v == (W - m * (c + 1)) \div c
             IN  /\ v \in Nat /\ v >= MinTouchTarget
                 /\ \A k \in 1 .. c : (k - 1) * (v + m) \in Nat /\ m + (k - 1) * (v + m) + v <= W
                 /\ \A k, l \in 1 .. c : k < l => m + (k - 1) * (v + m) + v <= m + (l - 1) * (v + m)
  BY ColumnsFit
<1> HIDE DEF tiles, rows, heights, A, n, W, bottom, m, cols
<1>7. ASSUME n # 0, NEW i \in 1 .. n
      PROVE  /\ w(i) \in Nat /\ w(i) >= MinTouchTarget
             /\ \A k \in 1 .. cols(i) : x(i, k) \in Nat /\ x(i, k) + w(i) <= W
             /\ \A k, l \in 1 .. cols(i) : k < l => x(i, k) + w(i) <= x(i, l)
  <2>1. cols(i) \in 1 .. 4
    BY <1>4, <1>7
  <2>2. /\ w(i) \in Nat /\ w(i) >= MinTouchTarget
        /\ \A k \in 1 .. cols(i) : (k - 1) * (w(i) + m) \in Nat /\ m + (k - 1) * (w(i) + m) + w(i) <= W
        /\ \A k, l \in 1 .. cols(i) : k < l => m + (k - 1) * (w(i) + m) + w(i) <= m + (l - 1) * (w(i) + m)
    BY <1>6, <2>1
  <2> HIDE DEF w
  <2> QED BY <1>5, <2>2
<1>8. ASSUME n # 0, NEW i \in 1 .. n
      PROVE  /\ y(i) \in Nat /\ heights[i] \in Nat /\ heights[i] >= MinTouchTarget
             /\ y(i) + heights[i] = m * i + A[i] /\ y(i) + heights[i] <= bottom
             /\ \A j \in 1 .. n : i < j => y(i) + heights[i] <= y(j)
  <2>1. n \in Nat /\ i \in Nat /\ i - 1 \in 0 .. n /\ i \in 0 .. n /\ n \in 0 .. n /\ i <= n
    BY <1>4, <1>8
  <2>2. A[i] \in Nat /\ A[i - 1] \in Nat /\ A[n] \in Nat /\ A[i] <= A[n]
        /\ A[i] = A[i - 1] + heights[i] /\ heights[i] \in Nat /\ heights[i] >= MinTouchTarget
        /\ m * n + A[n] <= bottom
    BY <1>4, <1>8, <2>1
  <2>3. m * i \in Nat /\ m * n \in Nat /\ m * i <= m * n
    <3>1. i * m \in Nat /\ i * m <= n * m /\ m * i = i * m /\ m * n = n * m
      BY <1>5, <2>1, TimesGrows
    <3>2. n * m \in Nat
      BY <1>5, <2>1
    <3> QED BY <3>1, <3>2
  <2>4. y(i) \in Nat /\ y(i) + heights[i] = m * i + A[i] /\ y(i) + heights[i] <= bottom
    BY <1>5, <2>2, <2>3
  <2>5. ASSUME NEW j \in 1 .. n, i < j PROVE m * i + A[i] <= y(j)
    <3>1. j \in Nat /\ j - 1 \in 0 .. n /\ i <= j - 1 /\ i <= j
      BY <2>1, <2>5
    <3>2. A[i] <= A[j - 1] /\ A[j - 1] \in Nat
      BY <1>4, <1>8, <2>1, <3>1
    <3>3. m * i <= m * j /\ m * j \in Nat
      <4>1. i * m <= j * m /\ m * i = i * m /\ m * j = j * m
        BY <1>5, <2>1, <3>1, TimesGrows
      <4>2. j * m \in Nat
        BY <1>5, <3>1
      <4> QED BY <4>1, <4>2
    <3> QED BY <2>2, <2>3, <3>2, <3>3
  <2> QED BY <2>2, <2>4, <2>5
<1>9. ASSUME NEW p \in DOMAIN tiles
      PROVE  /\ Inside(tiles[p], grid) /\ Touchable(tiles[p])
             /\ \A q \in DOMAIN tiles \ {p} : Apart(tiles[p], tiles[q])
  <2>1. PICK i \in 1 .. n : \E k \in 1 .. cols(i) :
          rows[i][k] = p /\ tiles[p] = Cell(size, rows, heights, i, k)
    BY <1>2
  <2>2. PICK k \in 1 .. cols(i) : rows[i][k] = p /\ tiles[p] = Cell(size, rows, heights, i, k)
    BY <2>1
  <2>3. n # 0
    OBVIOUS
  <2>4. tiles[p] = [x |-> x(i, k), y |-> y(i), w |-> w(i), h |-> heights[i]]
    BY <1>3, <2>2
  <2>5. /\ w(i) \in Nat /\ w(i) >= MinTouchTarget /\ x(i, k) \in Nat /\ x(i, k) + w(i) <= W
        /\ \A l \in 1 .. cols(i) : x(i, l) \in Nat /\
             (k < l => x(i, k) + w(i) <= x(i, l)) /\ (l < k => x(i, l) + w(i) <= x(i, k))
    <3> HIDE DEF x, w
    <3> QED BY <1>7, <2>3
  <2>6. /\ y(i) \in Nat /\ heights[i] \in Nat /\ heights[i] >= MinTouchTarget
        /\ y(i) + heights[i] <= bottom
    <3> HIDE DEF y
    <3> QED BY <1>8, <2>3
  <2>7. Inside(tiles[p], grid) /\ Touchable(tiles[p])
    <3> HIDE DEF x, y, w
    <3>1. 0 + W = W /\ 0 + bottom = bottom
      BY <1>5
    <3> QED BY <1>1, <2>4, <2>5, <2>6, <3>1 DEF Inside, Touchable
  <2>8. ASSUME NEW q \in DOMAIN tiles, q # p PROVE Apart(tiles[p], tiles[q])
    <3>1. PICK j \in 1 .. n : \E l \in 1 .. cols(j) :
            rows[j][l] = q /\ tiles[q] = Cell(size, rows, heights, j, l)
      BY <1>2
    <3>2. PICK l \in 1 .. cols(j) : rows[j][l] = q /\ tiles[q] = Cell(size, rows, heights, j, l)
      BY <3>1
    <3>3. tiles[q] = [x |-> x(j, l), y |-> y(j), w |-> w(j), h |-> heights[j]]
      BY <1>3, <3>2
    <3>4. n \in Nat
      BY <1>4, <2>3
    <3>5. CASE i = j
      <4>1. k # l /\ l \in 1 .. cols(i)
        BY <2>2, <2>8, <3>2, <3>5
      <4>2. cols(i) \in 1 .. 4
        BY <1>4, <2>3
      <4>3. k < l \/ l < k
        BY <4>1, <4>2
      <4>4. x(i, k) + w(i) <= x(j, l) \/ x(j, l) + w(j) <= x(i, k)
        <5> HIDE DEF x, w
        <5> QED BY <2>5, <3>5, <4>1, <4>3
      <4> HIDE DEF x, y, w
      <4> QED BY <2>4, <3>3, <4>4 DEF Apart
    <3>6. CASE i # j
      <4>1. i < j \/ j < i
        BY <3>4, <3>6
      <4>2. y(i) + heights[i] <= y(j) \/ y(j) + heights[j] <= y(i)
        <5> HIDE DEF y
        <5> QED BY <1>8, <2>3, <4>1
      <4> HIDE DEF x, y, w
      <4> QED BY <2>4, <3>3, <4>2 DEF Apart
    <3> QED BY <3>5, <3>6
  <2> QED BY <2>7, <2>8
<1>10. Inside(RefreshRect(size), StatusRect(size)) /\ Touchable(RefreshRect(size))
  BY ButtonFits
<1> HIDE DEF grid
<1> QED BY <1>9, <1>10 DEF GridIsSound, tiles, grid, W, bottom

-----------------------------------------------------------------------------
(* The overlay *)

Rects == [x : Int, y : Int, w : Int, h : Int]

\* The brightness buttons lie apart in their region, large enough for a finger: there is
\* always room for two columns.
LEMMA ButtonsFit ==
  ASSUME NEW region \in Rects, region.w >= 112, region.h >= 110
  PROVE  LET b == BrightnessOverlay(region)
         IN  /\ b.level \in Rects /\ b.minus \in Rects /\ b.plus \in Rects
             /\ Inside(b.level, region) /\ Inside(b.minus, region) /\ Inside(b.plus, region)
             /\ Apart(b.level, b.minus) /\ Apart(b.level, b.plus) /\ Apart(b.minus, b.plus)
             /\ Touchable(b.minus) /\ Touchable(b.plus)
<1> DEFINE x == region.x
           y == region.y
           w == region.w
           h == region.h
           pad == IF w < 160 THEN NarrowOverlayPad ELSE Max({NarrowOverlayPad, Min({w, h}) \div 12})
           down == Max({26, h \div 5})
           top == y + down
           b == BrightnessOverlay(region)
<1>1. x \in Int /\ y \in Int /\ w \in Int /\ h \in Int /\ w >= 112 /\ h >= 110
  BY DEF Rects
<1>2. b = IF (w - 2 * pad) \div 3 >= MinTouchTarget THEN InColumns(region, pad, top)
          ELSE IF w >= 2 * MinTouchTarget + 3 * pad THEN SideBySide(region, pad, top)
          ELSE Stacked(region, pad, top)
  BY DEF BrightnessOverlay
<1> HIDE DEF x, y, w, h, b
<1>3. down \in Int /\ down >= 26 /\ (down = 26 \/ 5 * down <= h)
  <2>1. h \div 5 \in Int /\ 5 * (h \div 5) <= h
    BY <1>1
  <2> QED BY <2>1, MaxOfTwo
<1>4. pad \in Int /\ pad >= 8 /\ (pad = 8 \/ (w >= 160 /\ 12 * pad <= w /\ 12 * pad <= h))
  <2> DEFINE e == Min({w, h})
             q == e \div 12
  <2>1. e \in Int /\ e <= w /\ e <= h
    BY <1>1, MinOfTwo
  <2> HIDE DEF e
  <2>2. q \in Int /\ 12 * q <= e
    BY <2>1
  <2>3. pad = IF w < 160 THEN 8 ELSE Max({8, q})
    BY DEF NarrowOverlayPad, e
  <2> HIDE DEF q, pad
  <2>4. Max({8, q}) = IF 8 < q THEN q ELSE 8
    BY <2>2, MaxOfTwo
  <2> QED BY <1>1, <2>1, <2>2, <2>3, <2>4
<1>5. top \in Int /\ top = y + down
  BY <1>1, <1>3
<1> HIDE DEF pad, down, top
<1>6. w >= 2 * MinTouchTarget + 3 * pad
  BY <1>1, <1>4 DEF MinTouchTarget
<1>7. CASE (w - 2 * pad) \div 3 >= MinTouchTarget
  <2> DEFINE high == h - (top - y) - pad
             wide == (w - 2 * pad) \div 3
             level == [x |-> x + pad + wide, y |-> top, w |-> w - 2 * pad - 2 * wide, h |-> high]
             minus == [x |-> x + pad, y |-> top, w |-> wide, h |-> high]
             plus == [x |-> x + w - pad - wide, y |-> top, w |-> wide, h |-> high]
  <2>1. b.level = level /\ b.minus = minus /\ b.plus = plus
    BY <1>2, <1>7 DEF InColumns, Rect, x, y, w, h
  <2>2. high \in Int /\ high >= 44 /\ top + high <= y + h /\ top >= y
    BY <1>1, <1>3, <1>4, <1>5
  <2>3. wide \in Int /\ wide >= 44 /\ 3 * wide <= w - 2 * pad
    BY <1>1, <1>4, <1>7 DEF MinTouchTarget
  <2> HIDE DEF high, wide
  <2>4. level \in Rects /\ minus \in Rects /\ plus \in Rects
    BY <1>1, <1>4, <1>5, <2>2, <2>3 DEF Rects
  <2>5. Inside(level, region) /\ Inside(minus, region) /\ Inside(plus, region)
    BY <1>1, <1>4, <1>5, <2>2, <2>3 DEF Inside, x, y, w, h
  <2>6. Apart(level, minus) /\ Apart(level, plus) /\ Apart(minus, plus)
    BY <1>1, <1>4, <1>5, <2>2, <2>3 DEF Apart
  <2>7. Touchable(minus) /\ Touchable(plus)
    BY <2>2, <2>3 DEF Touchable, MinTouchTarget
  <2> QED BY <2>1, <2>4, <2>5, <2>6, <2>7 DEF b
<1>8. CASE ~ ((w - 2 * pad) \div 3 >= MinTouchTarget)
  <2> DEFINE high == Max({MinTouchTarget, h \div 3})
             upper == Max({1, h - (top - y) - 2 * pad - high})
             wide == (w - 3 * pad) \div 2
             across == Max({1, w - 2 * pad})
             level == [x |-> x + pad, y |-> top, w |-> across, h |-> upper]
             minus == [x |-> x + pad, y |-> top + upper + pad, w |-> wide, h |-> high]
             plus == [x |-> x + w - pad - wide, y |-> top + upper + pad, w |-> wide, h |-> high]
  <2>1. b.level = level /\ b.minus = minus /\ b.plus = plus
    BY <1>2, <1>6, <1>8 DEF SideBySide, Rect, x, y, w, h
  <2>2. high \in Int /\ high >= 44 /\ (high = 44 \/ 3 * high <= h)
    <3>1. h \div 3 \in Int /\ 3 * (h \div 3) <= h
      BY <1>1
    <3> QED BY <3>1, MaxOfTwo DEF MinTouchTarget
  <2> HIDE DEF high
  <2>3. upper \in Int /\ upper = h - (top - y) - 2 * pad - high
    <3> DEFINE u == h - (top - y) - 2 * pad - high
    <3>1. u \in Int /\ u >= 1
      BY <1>1, <1>3, <1>4, <1>5, <2>2
    <3> HIDE DEF u
    <3>2. Max({1, u}) = u
      BY <3>1, MaxOfTwo
    <3> QED BY <3>1, <3>2 DEF u
  <2>4. across \in Int /\ across = w - 2 * pad
    <3> DEFINE u == w - 2 * pad
    <3>1. u \in Int /\ u >= 1
      BY <1>1, <1>4
    <3> HIDE DEF u
    <3>2. Max({1, u}) = u
      BY <3>1, MaxOfTwo
    <3> QED BY <3>1, <3>2 DEF u
  <2>5. wide \in Int /\ wide >= 44 /\ 2 * wide <= w - 3 * pad
    BY <1>1, <1>4, <1>6 DEF MinTouchTarget
  <2> HIDE DEF upper, wide, across
  <2>6. level \in Rects /\ minus \in Rects /\ plus \in Rects
    BY <1>1, <1>4, <1>5, <2>2, <2>3, <2>4, <2>5 DEF Rects
  <2>7. Inside(level, region) /\ Inside(minus, region) /\ Inside(plus, region)
    BY <1>1, <1>3, <1>4, <1>5, <2>2, <2>3, <2>4, <2>5 DEF Inside, x, y, w, h
  <2>8. Apart(level, minus) /\ Apart(level, plus) /\ Apart(minus, plus)
    BY <1>1, <1>4, <1>5, <2>2, <2>3, <2>4, <2>5 DEF Apart
  <2>9. Touchable(minus) /\ Touchable(plus)
    BY <2>2, <2>5 DEF Touchable, MinTouchTarget
  <2> QED BY <2>1, <2>6, <2>7, <2>8, <2>9 DEF b
<1> QED BY <1>7, <1>8

\* Its card lies on the screen, and the buttons and the text apart on the card.
LEMMA OverlayFits ==
  ASSUME NEW size \in Nat \X Nat, size[1] >= 240, size[2] >= 240
  PROVE  OverlayIsSound(size)
<1> DEFINE W == size[1]
           H == size[2]
           e == Edge(size)
           w == Min({W, Max({(W * 82) \div 100, 240})})
           h == (H * 6) \div 10
           card == [x |-> (W - w) \div 2, y |-> (H - h) \div 2, w |-> w, h |-> h]
           pad == Max({8, e \div 30})
           inner == [x |-> card.x + pad, y |-> card.y + pad, w |-> w - 2 * pad, h |-> h - 2 * pad]
           right == Min({Max({2 * MinTouchTarget + 3 * NarrowOverlayPad, (inner.w * 44) \div 100}),
                         Max({1, inner.w - pad - 1})})
           left == Max({1, inner.w - pad - right})
           footer == Min({Max({18, e \div 24}), Max({0, inner.h - 1})})
           content == Max({1, inner.h - footer})
           region == [x |-> inner.x + left + pad, y |-> inner.y, w |-> inner.w - left - pad, h |-> content]
           diag == [x |-> inner.x, y |-> inner.y, w |-> left, h |-> content]
           b == BrightnessOverlay(region)
           o == StatusOverlay(size)
<1>1. W \in Nat /\ H \in Nat /\ W >= 240 /\ H >= 240
  OBVIOUS
<1>2. o = [panel |-> card, diag |-> diag, level |-> b.level, minus |-> b.minus, plus |-> b.plus]
  BY DEF StatusOverlay, Rect
<1>3. e \in Nat /\ e >= 240 /\ e <= W /\ e <= H
  BY <1>1, MinOfTwo DEF Edge
<1> HIDE DEF W, H, e
<1>4. w \in Nat /\ w >= 240 /\ w <= W /\ 100 * w >= 82 * W - 100
  <2> DEFINE q == (W * 82) \div 100
             m == Max({q, 240})
  <2>1. q \in Nat /\ 100 * q <= W * 82 /\ W * 82 < 100 * q + 100
    BY <1>1
  <2> HIDE DEF q
  <2>2. m = IF q < 240 THEN 240 ELSE q
    BY <2>1, MaxOfTwo
  <2>3. w = Min({W, m})
    BY DEF q
  <2> HIDE DEF m, w
  <2>4. m \in Int
    BY <2>1, <2>2
  <2>5. w = IF W < m THEN W ELSE m
    BY <1>1, <2>3, <2>4, MinOfTwo
  <2> QED BY <1>1, <2>1, <2>2, <2>5
<1>5. h \in Nat /\ 10 * h <= 6 * H /\ 10 * h >= 6 * H - 9
  BY <1>1
<1>6. pad \in Nat /\ pad >= 8 /\ 30 * pad <= e
  <2>1. e \div 30 \in Int /\ e \div 30 >= 8 /\ 30 * (e \div 30) <= e
    BY <1>3
  <2> QED BY <2>1, MaxOfTwo
<1>7. card.x = (W - w) \div 2 /\ card.y = (H - h) \div 2 /\ card.w = w /\ card.h = h
  OBVIOUS
<1>8. /\ inner.x = card.x + pad /\ inner.y = card.y + pad
      /\ inner.w = w - 2 * pad /\ inner.h = h - 2 * pad
  OBVIOUS
<1>9. card.x \in Int /\ card.y \in Int /\ card.x >= 0 /\ card.y >= 0
      /\ card.x + w <= W /\ card.y + h <= H
  <2> DEFINE px == (W - w) \div 2
             py == (H - h) \div 2
  <2> HIDE DEF w, h, card
  <2>1. px \in Int /\ px >= 0 /\ px + w <= W
    BY <1>1, <1>4
  <2>2. py \in Int /\ py >= 0 /\ py + h <= H
    BY <1>1, <1>5
  <2> QED BY <1>7, <2>1, <2>2
<1> HIDE DEF w, h, pad, card
<1>10. inner.w \in Int /\ inner.h \in Int /\ inner.w - pad - 1 >= 113 /\ inner.h >= 128
  BY <1>1, <1>3, <1>4, <1>5, <1>6, <1>8
<1>11. right \in Int /\ right >= 112 /\ right <= inner.w - pad - 1
  <2> DEFINE a == (inner.w * 44) \div 100
             m == Max({2 * MinTouchTarget + 3 * NarrowOverlayPad, a})
             r == inner.w - pad - 1
             t == Max({1, r})
  <2>1. a \in Int /\ 100 * a <= inner.w * 44
    BY <1>10
  <2>2. r \in Int /\ r >= 113
    BY <1>6, <1>10
  <2>3. 2 * MinTouchTarget + 3 * NarrowOverlayPad = 112
    BY DEF MinTouchTarget, NarrowOverlayPad
  <2>4. right = Min({m, t})
    OBVIOUS
  <2> HIDE DEF a, r, inner, right
  <2>5. m = IF 112 < a THEN a ELSE 112
    BY <2>1, <2>3, MaxOfTwo
  <2>6. t = r
    BY <2>2, MaxOfTwo
  <2> HIDE DEF m, t
  <2>7. right = IF m < t THEN m ELSE t
    <3>1. m \in Int /\ t \in Int
      BY <2>1, <2>2, <2>5, <2>6
    <3> QED BY <2>4, <3>1, MinOfTwo
  <2> QED BY <2>1, <2>2, <2>5, <2>6, <2>7 DEF r
<1>12. left \in Int /\ left = inner.w - pad - right /\ left >= 1
  <2> DEFINE u == inner.w - pad - right
  <2> HIDE DEF right, inner
  <2>1. u \in Int /\ u >= 1
    BY <1>6, <1>10, <1>11
  <2> HIDE DEF u
  <2>2. Max({1, u}) = u
    BY <2>1, MaxOfTwo
  <2> QED BY <2>1, <2>2 DEF u
<1>13. footer \in Int /\ footer >= 0 /\ (footer <= 18 \/ 24 * footer <= e)
  <2> DEFINE a == Max({18, e \div 24})
             t == Max({0, inner.h - 1})
  <2>1. e \div 24 \in Int /\ 24 * (e \div 24) <= e
    BY <1>3
  <2>2. a \in Int /\ a >= 18 /\ (a = 18 \/ 24 * a <= e)
    BY <2>1, MaxOfTwo
  <2> HIDE DEF inner
  <2>3. inner.h - 1 \in Int
    BY <1>10
  <2>4. t \in Int /\ t >= 0
    BY <2>3, MaxOfTwo
  <2>5. footer = Min({a, t})
    OBVIOUS
  <2> HIDE DEF a, t, footer
  <2>6. footer = IF a < t THEN a ELSE t
    BY <2>2, <2>4, <2>5, MinOfTwo
  <2> QED BY <1>3, <2>2, <2>4, <2>6
<1>14. content \in Int /\ content = inner.h - footer /\ content >= 110 /\ content <= inner.h
  <2> DEFINE u == inner.h - footer
  <2> HIDE DEF footer, inner
  <2>1. u \in Int /\ u >= 110 /\ u <= inner.h
    BY <1>1, <1>3, <1>5, <1>6, <1>8, <1>10, <1>13
  <2> HIDE DEF u
  <2>2. Max({1, u}) = u
    BY <2>1, MaxOfTwo
  <2> QED BY <2>1, <2>2 DEF u
<1> HIDE DEF left, right, footer, content, inner
<1>15. /\ region.x = inner.x + left + pad /\ region.y = inner.y
       /\ region.w = inner.w - left - pad /\ region.h = content
  OBVIOUS
<1>16. inner.x \in Int /\ inner.y \in Int
  BY <1>6, <1>8, <1>9
<1>17. region \in Rects /\ region.w >= 112 /\ region.h >= 110
  BY <1>6, <1>10, <1>11, <1>12, <1>14, <1>16 DEF Rects
<1>18. diag \in Rects /\ diag.x = inner.x /\ diag.y = inner.y /\ diag.w = left /\ diag.h = content
  BY <1>12, <1>14, <1>16 DEF Rects
<1>19. Inside(region, card) /\ Inside(diag, card) /\ diag.x + diag.w <= region.x
  BY <1>4, <1>5, <1>6, <1>7, <1>8, <1>9, <1>10, <1>11, <1>12, <1>14, <1>15, <1>16, <1>18 DEF Inside
<1>20. card \in Rects
  BY <1>4, <1>5, <1>9 DEF Rects, card
<1> HIDE DEF region, diag
<1>21. /\ b.level \in Rects /\ b.minus \in Rects /\ b.plus \in Rects
       /\ Inside(b.level, region) /\ Inside(b.minus, region) /\ Inside(b.plus, region)
       /\ Apart(b.level, b.minus) /\ Apart(b.level, b.plus) /\ Apart(b.minus, b.plus)
       /\ Touchable(b.minus) /\ Touchable(b.plus)
  BY <1>17, ButtonsFit
<1>22. Inside(card, Rect(0, 0, W, H))
  BY <1>1, <1>4, <1>5, <1>7, <1>9 DEF Inside, Rect
<1>23. ASSUME NEW r \in Rects, Inside(r, region)
       PROVE  Inside(r, card) /\ Apart(r, diag) /\ Apart(diag, r)
  <2>1. r.x \in Int /\ r.y \in Int /\ r.w \in Int /\ r.h \in Int
    BY DEF Rects
  <2>2. region.x \in Int /\ region.y \in Int /\ region.w \in Int /\ region.h \in Int
    BY <1>17 DEF Rects
  <2>3. card.x \in Int /\ card.y \in Int /\ card.w \in Int /\ card.h \in Int
    BY <1>20 DEF Rects
  <2>4. diag.x \in Int /\ diag.w \in Int
    BY <1>18 DEF Rects
  <2>5. Inside(r, card)
    BY <1>19, <1>23, <2>1, <2>2, <2>3 DEF Inside
  <2>6. diag.x + diag.w <= r.x
    BY <1>19, <1>23, <2>1, <2>2, <2>4 DEF Inside
  <2> QED BY <2>5, <2>6 DEF Apart
<1>24. \A r, s \in Rects : Apart(r, s) => Apart(s, r)
  BY DEF Apart
<1> HIDE DEF b
<1> DEFINE parts == {b.minus, b.plus, b.level, diag}
<1>25. o.panel = card /\ o.diag = diag /\ o.level = b.level /\ o.minus = b.minus /\ o.plus = b.plus
  BY <1>2
<1>26. ASSUME NEW r \in parts
       PROVE  Inside(r, card) /\ \A s \in parts \ {r} : Apart(r, s)
  <2>1. Inside(r, card)
    BY <1>19, <1>21, <1>23
  <2>2. /\ Apart(b.minus, b.plus) /\ Apart(b.plus, b.minus) /\ Apart(b.level, b.minus)
        /\ Apart(b.minus, b.level) /\ Apart(b.level, b.plus) /\ Apart(b.plus, b.level)
    BY <1>21, <1>24
  <2>3. /\ Apart(b.minus, diag) /\ Apart(diag, b.minus) /\ Apart(b.plus, diag) /\ Apart(diag, b.plus)
        /\ Apart(b.level, diag) /\ Apart(diag, b.level)
    BY <1>21, <1>23
  <2> QED BY <2>1, <2>2, <2>3
<1> HIDE DEF parts, o
<1> QED BY <1>21, <1>22, <1>25, <1>26 DEF OverlayIsSound, parts, o, W, H

\* The assumption on the screens is a weak one: with the font heights the layout estimates,
\* every screen from 240 x 240 on has room, up to five by two in landscape and one by ten
\* in portrait.
THEOREM ScreensAreRoomy ==
  ASSUME NEW size \in Nat \X Nat, size[1] >= 240, size[2] >= 240,
         2 * size[1] <= 5 * size[2], size[2] <= 10 * size[1],
         TitleHeight[size] = EstimatedTitle(size)
  PROVE  Roomy(size)
<1> DEFINE W == size[1]
           H == size[2]
           e == Edge(size)
           m == Margin(size)
           s == StatusHeight(size)
           t == TitleHeight[size]
           o == TileOverhead(size)
           most == MostRows(size)
<1>1. W \in Nat /\ H \in Nat /\ W >= 240 /\ H >= 240 /\ 2 * W <= 5 * H /\ H <= 10 * W
  OBVIOUS
<1>2. e \in Nat /\ e >= 240 /\ e <= W /\ e <= H
  BY <1>1, MinOfTwo DEF Edge
<1>3. m \in Nat /\ m >= 4 /\ (m = 4 \/ 200 * m <= 4 * W + 100)
  <2> DEFINE n == W * 2
             d == 100
             r == Round(n, d)
  <2>1. n \in Nat /\ d \in Nat \ {0} /\ n = W * 2 /\ d = 100
    BY <1>1
  <2>2. m = Max({4, r})
    BY DEF Margin
  <2> HIDE DEF W, n, d, m
  <2>3. r \in Nat /\ 2 * (d * r) <= 2 * n + d
    BY <2>1, Halves
  <2> HIDE DEF r
  <2>4. m = IF 4 < r THEN r ELSE 4
    BY <2>2, <2>3, MaxOfTwo
  <2>5. 200 * r <= 4 * W + 100
    BY <1>1, <2>1, <2>3
  <2> QED BY <2>3, <2>4, <2>5
<1>4. s \in Nat /\ s >= 44 /\ (s = 44 \/ 2000 * s <= 170 * H + 1000)
  <2> DEFINE n == H * 85
             d == 1000
             r == Round(n, d)
  <2>1. n \in Nat /\ d \in Nat \ {0}
    BY <1>1
  <2>6. n = H * 85 /\ d = 1000
    OBVIOUS
  <2>2. s = Max({44, r})
    BY DEF StatusHeight, MinTouchTarget
  <2> HIDE DEF H, n, d, s
  <2>3. r \in Nat /\ 2 * (d * r) <= 2 * n + d
    BY <2>1, Halves
  <2> HIDE DEF r
  <2>4. s = IF 44 < r THEN r ELSE 44
    BY <2>2, <2>3, MaxOfTwo
  <2>5. 2000 * r <= 170 * H + 1000
    BY <1>1, <2>3, <2>6
  <2> QED BY <2>3, <2>4, <2>5
<1>5. t \in Nat /\ t >= 24 /\ (t = 24 \/ 16 * t <= e)
  <2> DEFINE u == Max({24, e \div 15})
             v == Max({32, (u * 5) \div 4})
             z == (v * 3) \div 4
  <2>1. t = Max({24, z})
    BY DEF EstimatedTitle
  <2> HIDE DEF e, t
  <2>2. u \in Nat /\ (u = 24 \/ 15 * u <= e)
    <3>1. e \div 15 \in Int /\ 15 * (e \div 15) <= e
      BY <1>2
    <3> QED BY <3>1, MaxOfTwo
  <2> HIDE DEF u
  <2>3. v \in Nat /\ (v = 32 \/ 4 * v <= 5 * u)
    <3>1. (u * 5) \div 4 \in Int /\ 4 * ((u * 5) \div 4) <= u * 5
      BY <2>2
    <3> QED BY <2>2, <3>1, MaxOfTwo
  <2> HIDE DEF v
  <2>4. z \in Int /\ 4 * z <= 3 * v
    BY <2>3
  <2> HIDE DEF z
  <2>5. t = IF 24 < z THEN z ELSE 24
    BY <2>1, <2>4, MaxOfTwo
  <2> QED BY <1>2, <2>2, <2>3, <2>4, <2>5
<1>6. o \in Nat /\ (2 * o <= 40 + 2 * t \/ 16 * o <= e + 16 * t)
  <2> DEFINE pad == Max({8, e \div 40})
  <2>1. o = pad + t + pad \div 2 + pad
    BY DEF TileOverhead
  <2> HIDE DEF e, t, o
  <2>2. pad \in Nat /\ (pad = 8 \/ 40 * pad <= e)
    <3>1. e \div 40 \in Int /\ 40 * (e \div 40) <= e
      BY <1>2
    <3> QED BY <3>1, MaxOfTwo
  <2> HIDE DEF pad
  <2>3. pad \div 2 \in Nat /\ 2 * (pad \div 2) <= pad
    BY <2>2
  <2> QED BY <1>2, <1>5, <2>1, <2>2, <2>3
<1>7. most = IF W <= 320 /\ H <= 320 THEN 2 ELSE IF (W - 3 * m) \div 2 >= 150 THEN 3 ELSE 5
  BY DEF MostRows, CanPair, IsUltraCompact, UltraCompactMaxEdge, MinPairedTileWidth
<1> HIDE DEF W, H, e, m, s, t, o, most
<1>8. most * (o + m) + 2 * m + s <= H
  <2>1. CASE W <= 320 /\ H <= 320
    <3>1. 2 * (o + m) + 2 * m + s <= H
      BY <1>1, <1>2, <1>3, <1>4, <1>5, <1>6, <2>1
    <3> QED BY <1>7, <2>1, <3>1
  <2>2. CASE ~ (W <= 320 /\ H <= 320) /\ (W - 3 * m) \div 2 >= 150
    <3>1. W >= 300 + 3 * m
      BY <1>1, <1>3, <2>2
    <3>2. 3 * (o + m) + 2 * m + s <= H
      BY <1>1, <1>2, <1>3, <1>4, <1>5, <1>6, <3>1
    <3> QED BY <1>7, <2>2, <3>2
  <2>3. CASE ~ (W <= 320 /\ H <= 320) /\ ~ ((W - 3 * m) \div 2 >= 150)
    <3>1. W < 300 + 3 * m
      BY <1>1, <1>3, <2>3
    <3>2. W <= 320 /\ m <= 6 /\ H > 320
      BY <1>1, <1>3, <2>3, <3>1
    <3>3. o <= 44
      <4>1. e <= 320 /\ t = 24
        BY <1>1, <1>2, <1>5, <3>2
      <4> QED BY <1>2, <1>6, <4>1
    <3>4. 5 * (o + m) + 2 * m + s <= H
      BY <1>1, <1>3, <1>4, <1>6, <3>2, <3>3
    <3> QED BY <1>7, <2>3, <3>4
  <2> QED BY <2>1, <2>2, <2>3
<1>9. s + 10 <= W
  BY <1>1, <1>4
<1> QED BY <1>1, <1>5, <1>8, <1>9 DEF Roomy, W, H, m, s, t, o, most

\* What is laid out from any readings there are is sound.
LEMMA AllSound ==
  ASSUME NEW v \in Versions \cup {0}
  PROVE  SoundlyLaidOut[v]
<1> DEFINE some(reporting) == [p \in reporting |-> ReadingsOf[v][p]]
<1>1. ReadingsOf[v] = IF v = 0 THEN <<>> ELSE Reported[v]
  BY DEF ReadingsOf
<1>2. ASSUME NEW reporting \in SUBSET DOMAIN ReadingsOf[v]
      PROVE  Counted(some(reporting))
  <2>1. CASE v = 0
    <3>1. DOMAIN ReadingsOf[v] = {}
      BY <1>1, <2>1
    <3>2. DOMAIN some(reporting) = {}
      BY <3>1
    <3> HIDE DEF some
    <3> QED BY <3>2 DEF Counted
  <2>2. CASE v # 0
    <3>1. v \in Versions /\ ReadingsOf[v] = Reported[v]
      BY <1>1, <2>2
    <3>2. \A p \in reporting : ReadingsOf[v][p] \in [session : Nat, weekly : Nat, scoped : Nat]
      BY <3>1, ReportsAssumption
    <3>3. DOMAIN some(reporting) = reporting /\ \A p \in reporting : some(reporting)[p] = ReadingsOf[v][p]
      OBVIOUS
    <3> HIDE DEF some
    <3> QED BY <3>2, <3>3 DEF Counted
  <2> QED BY <2>1, <2>2
<1>3. ASSUME NEW size \in Screens
      PROVE  /\ \A reporting \in SUBSET DOMAIN ReadingsOf[v] :
                  GridIsSound(size, Tiles(size, some(reporting)))
             /\ OverlayIsSound(size)
  <2>1. Roomy(size)
    BY ScreensAssumption
  <2>2. OverlayIsSound(size)
    BY <2>1, OverlayFits DEF Roomy
  <2> HIDE DEF some
  <2>3. \A reporting \in SUBSET DOMAIN ReadingsOf[v] : GridIsSound(size, Tiles(size, some(reporting)))
    BY <1>2, <2>1, GridFits
  <2> QED BY <2>2, <2>3
<1> QED BY <1>3 DEF SoundlyLaidOut

-----------------------------------------------------------------------------
(* The theorems *)

Inv == LightInv /\ FetcherInv /\ SleepInv /\ LitAsPromised /\ ShapeInv

LEMMA InvInit == Init => Inv
<1> SUFFICES ASSUME Init
             PROVE  Inv
  OBVIOUS
<1>1. PICK node \in FirstLevels : light = Opened(node) /\ step = StepForLevel(node)
  BY DEF Init
<1>2. node \in 0 .. MaxLevel
  BY PanelAssumption
<1>3. light \in Lights /\ Remembers(light)
  BY <1>1, <1>2, OpenedRemembers
<1>4. step \in 1 .. Steps
  BY <1>1, <1>2, StepIs
<1>5. LightInv
  BY <1>3, <1>4 DEF Init, LightInv, ChoiceIsKept, ChosenLevelStays
<1>6. FetcherInv
  <2>1. FetcherInit
    BY DEF Init
  <2>2. version \in Versions /\ version \in Nat /\ serverSpec \in ServerSpecs /\ spec \in ServerSpecs
    BY <2>1, FetcherAssumption DEF FetcherInit
  <2>3. stable \in 0 .. StableThreshold /\ events \in 0 .. MaxEvents
    BY <2>1, FetcherAssumption DEF FetcherInit
  <2>4. FetcherTypeOK
    BY <2>1, <2>2, <2>3 DEF FetcherInit, FetcherTypeOK
  <2> QED BY <2>1, <2>2, <2>4 DEF FetcherInit, FetcherInv, RefreshReaches
<1>7. LitAsPromised
  BY DEF Init, LitAsPromised
<1> QED BY <1>5, <1>6, <1>7, SleepInit, ShapeInit DEF Inv

LEMMA LightStep ==
  ASSUME LightInv, [Next]_vars
  PROVE  LightInv'
<1>1. CASE OverlayTap
  <2>1. Nudge(-1) \/ Nudge(1) \/ UNCHANGED brightness
    BY <1>1 DEF OverlayTap
  <2> QED BY <2>1, NudgeKeepsLight DEF LightInv, brightness, choice, ChoiceIsKept, ChosenLevelStays
<1>2. CASE EndFrame
  BY <1>2, EndFrameKeepsLight
<1>3. CASE Restart
  BY <1>3, RestartKeepsLight
<1>4. CASE SaveLevel
  BY <1>4, SaveLevelKeepsLight
<1>5. CASE \/ FetcherNext /\ UNCHANGED panel
           \/ BeginFrame \/ WakeTap \/ DoubleTap \/ SingleTap
           \/ \E spot \in Spots : Tap(spot)
           \/ UNCHANGED vars
  <2>1. UNCHANGED <<light, step, saving, saved, disk, chosen, slipped>>
    BY <1>5 DEF BeginFrame, WakeTap, DoubleTap, SingleTap, Tap, vars, panel, brightness, choice
  <2> QED BY <2>1 DEF LightInv, ChoiceIsKept, ChosenLevelStays
<1> QED BY <1>1, <1>2, <1>3, <1>4, <1>5 DEF Next

LEMMA FetcherStep ==
  ASSUME FetcherInv, [Next]_vars
  PROVE  FetcherInv'
<1>1. CASE FetcherNext /\ UNCHANGED panel
  BY <1>1, PollKeeps, RefreshKeeps DEF FetcherNext
<1>2. CASE OverlayTap \/ SaveLevel \/ EndFrame \/ \E spot \in Spots : Tap(spot)
  <2>1. UNCHANGED <<version, serverSpec, polling, wake, refresh, accepted>>
    BY <1>2 DEF OverlayTap, SaveLevel, EndFrame, Tap
  <2>2. Event \/ UNCHANGED events
    BY <1>2 DEF OverlayTap, Nudge, SaveLevel, EndFrame, Tap
  <2> QED BY <2>1, <2>2, PanelKeepsFetcher
<1>3. CASE SingleTap
  <2>1. UNCHANGED <<version, serverSpec, polling, wake, accepted, events>>
    BY <1>3 DEF SingleTap
  <2>2. StartRefresh \/ UNCHANGED refresh
    BY <1>3 DEF SingleTap
  <2> QED BY <2>1, <2>2, PanelKeepsFetcher
<1>4. CASE Restart
  BY <1>4, PanelKeepsFetcher DEF Restart
<1>5. CASE BeginFrame \/ WakeTap \/ DoubleTap \/ UNCHANGED vars
  <2>1. UNCHANGED <<version, serverSpec, polling, wake, refresh, accepted, events>>
    BY <1>5 DEF BeginFrame, WakeTap, DoubleTap, vars, fetcher
  <2> QED BY <2>1, PanelKeepsFetcher
<1> QED BY <1>1, <1>2, <1>3, <1>4, <1>5 DEF Next

LEMMA InvStep == Inv /\ [Next]_vars => Inv'
<1> SUFFICES ASSUME Inv, [Next]_vars PROVE Inv'
  OBVIOUS
<1>1. LightInv /\ FetcherInv /\ SleepInv /\ LitAsPromised /\ ShapeInv
      /\ FetcherTypeOK /\ spec \in ServerSpecs /\ schedule \in Valid
  BY DEF Inv, FetcherInv, FetcherTypeOK, SleepInv
<1> QED BY <1>1, LightStep, FetcherStep, SleepStep, LitStep, ShapeStep DEF Inv

THEOREM Invariance == Spec => []Inv
  BY InvInit, InvStep, PTL DEF Spec

\* What the panel remembers of its backlight is what the node holds, so that a switch it
\* skips would have changed nothing.
THEOREM MemoryIsTrue == Spec => []MemoryFollowsNode
<1>1. Inv => MemoryFollowsNode
  BY DEF Inv, LightInv, Remembers, MemoryFollowsNode
<1> QED BY <1>1, Invariance, PTL

\* The brightness a user chose stays the one the panel wakes to, and the step on the
\* overlay stands for it, however often the panel is started again with its file intact
\* and every write of the choice done: a level that was saved is taken for a step that
\* stands for it, whether the node has more levels than there are steps or fewer.
THEOREM ChoiceStays == Spec => []ChosenLevelStays
<1>1. Inv => ChosenLevelStays
  BY DEF Inv, LightInv
<1> QED BY <1>1, Invariance, PTL

\* What an accepted refresh collected is asked for without waiting out the interval.
THEOREM RefreshesReach == Spec => []RefreshReaches
<1>1. Inv => RefreshReaches
  BY DEF Inv, FetcherInv
<1> QED BY <1>1, Invariance, PTL

\* At the end of a frame the panel is lit when, and only when, it should be, whatever
\* windows the schedules have: however they overlap, touch or cross midnight and the end
\* of the week.
THEOREM LitIsPromised == Spec => []LitAsPromised
<1>1. Inv => LitAsPromised
  BY DEF Inv
<1> QED BY <1>1, Invariance, PTL

\* Every variable keeps its shape: the deadline and the taps, the views and the levels.
THEOREM TypeCorrect == Spec => []TypeOK
<1>1. Inv => TypeOK
  <2> SUFFICES ASSUME Inv PROVE TypeOK
    OBVIOUS
  <2>1. LightInv /\ FetcherTypeOK /\ SleepInv /\ ShapeInv
    BY DEF Inv, FetcherInv
  <2>2. clock \in 0 .. LastMinute
    BY <2>1 DEF SleepInv
  <2>3. {saving, saved, disk, chosen} \subseteq 1 .. MaxLevel \cup {NoLevel}
    BY <2>1, ChosenIsLevel DEF LightInv
  <2> QED BY <2>1, <2>2, <2>3 DEF LightInv, Lights, SleepInv, ShapeInv, TypeOK
<1> QED BY <1>1, Invariance, PTL

\* A finger means one thing: on every screen with room for its titles, whichever providers
\* report and with however many percentages, the tiles and the refresh button and the
\* parts of the overlay lie apart, where they belong, and are large enough.
THEOREM TargetsStayApart == Spec => []TargetsApart
<1>1. Inv => TargetsApart
  <2>1. Inv => shown \in Versions \cup {0}
    BY DEF Inv, ShapeInv
  <2> QED BY <2>1, AllSound DEF TargetsApart
<1> QED BY <1>1, Invariance, PTL
=============================================================================

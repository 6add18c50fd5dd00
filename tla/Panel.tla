--------------------------------- MODULE Panel ---------------------------------
(***************************************************************************)
(* A panel: the frames of the GUI loop (client/gui.py) with its taps, its  *)
(* sleep, its brightness and its views, over the fetcher, the backlight,   *)
(* the sleep schedule and the layout. A frame reads the clock, the         *)
(* schedule and the readings, lays the tiles out, takes the taps that are  *)
(* queued, handles them one by one and then switches the backlight and     *)
(* draws; the poll thread and the refresh thread run meanwhile. The        *)
(* process may be killed and started anew at any step.                     *)
(***************************************************************************)
EXTENDS PanelFetcher, SleepSchedule, Backlight, PanelLayout, TLC

CONSTANTS
  Specs,           \* the specs there are
  Rules,           \* Rules[s]: the rules of spec s
  DefaultSpec,     \* what holds when the server has none: BACKLIGHT_SCHEDULE or the default
  Reported,        \* Reported[v]: the readings of version v, as PanelLayout takes them
  Screens,         \* the sizes a panel may have
  Size,            \* the size of this one
  FingerGrid,      \* the touch controller tells so many places apart in each direction
  Spots,           \* where a tap may land, as the controller reports it
  NoSpot,
  FirstLevels,     \* the brightness a panel boots with
  NoLevel,
  FirstMinute, LastMinute   \* bound the clock

ASSUME PanelAssumption ==
  /\ ServerSpecs = Specs \cup {NoSpec} /\ DefaultSpec \in Specs /\ Parses(Rules[DefaultSpec])
  /\ DOMAIN Reported = Versions /\ Size \in Screens /\ DOMAIN TitleHeight = Screens
  /\ Spots \subseteq (0..FingerGrid) \X (0..FingerGrid) /\ NoSpot \notin Spots
  /\ FirstLevels \subseteq 0..MaxLevel /\ NoLevel \notin Nat
  /\ LastMinute \in Nat /\ FirstMinute \in 1..LastMinute

\* What a spec is made of: times of day, and minutes of the week (_parse_hhmm, _DAYS).
ASSUME RulesAssumption ==
  \A s \in Specs :
    /\ IsFiniteSet(Rules[s])
    /\ \A rule \in Rules[s] :
         \/ rule.form = "malformed"
         \/ rule.form = "daily" /\ {rule.from, rule.to} \subseteq 0..(DayLength - 1)
         \/ rule.form = "span" /\ {rule.from, rule.to} \subseteq 0..(Week - 1)

\* The screens have room for what is drawn (the resolutions of test_layout.py and
\* test_gui.py do), and a reading has so many percentages.
ASSUME ScreensAssumption == \A size \in Screens : Roomy(size)
ASSUME ReportsAssumption ==
  \A v \in Versions : \A p \in DOMAIN Reported[v] :
    Reported[v][p] \in [session : Nat, weekly : Nat, scoped : Nat]

VARIABLES
  clock,      \* the minute of the last frame
  frame,      \* where the loop is: "boot", "top" or "events"
  schedule,   \* _schedule: the spec whose windows hold
  cached,     \* _cached_spec
  wakeUntil,  \* _wake_until, 0 for none
  manual,     \* _manual_sleep
  dark,       \* what the frame saw before it handled the taps
  shown,      \* the version of the readings this frame is laid out from
  view,       \* "grid", "overlay", or the provider whose detail is open
  lastTap,    \* where the tap that may open a double tap was
  queue,      \* the taps not taken yet
  batch,      \* the taps of this frame
  light,      \* the backlight
  step,       \* _brightness_step
  saving,     \* the level a nudge has set and not saved yet, or NoLevel
  saved,      \* the brightness file: the level it reads as, or NoLevel
  disk,       \* what has reached the disk of it: nothing syncs it
  woken,      \* the last wake tap: its minute and the windows that held, or minute 0
  refused,    \* the last switch of the backlight failed
  chosen,     \* history: the level the user chose last, or NoLevel
  slipped     \* history: it was not written to the node, not saved, or lost

showing == <<shown, view, lastTap>>
choice == <<step, saving, saved, disk, chosen, slipped>>
brightness == <<light, choice, refused>>
sleeping == <<schedule, cached, wakeUntil, manual, woken>>
panel == <<clock, frame, dark, queue, batch, showing, brightness, sleeping>>
vars == <<fetcher, panel>>

Valid == {s \in Specs : Parses(Rules[s])}

\* What the schedule of a spec says of a minute: whether the panel sleeps, and until
\* when a tap wakes it.
Merged == [s \in Valid |-> BuildMerged(Windows(Rules[s]))]
Asleep == [s \in Valid |-> [t \in 0..LastMinute |-> IsAsleep(Merged[s], t)]]
Deadline == [s \in Valid |-> [t \in 0..LastMinute |-> WakeUntil(Merged[s], t)]]

\* What a spot is on the grid and on the overlay, and the pairs of spots that are near
\* enough for a double tap.
ReadingsOf == [v \in Versions \cup {0} |-> IF v = 0 THEN <<>> ELSE Reported[v]]
Place == [spot \in Spots |-> TapPosition(Size, spot[1], spot[2], FingerGrid)]
OnGrid == [v \in Versions \cup {0}, spot \in Spots |->
             GridTarget(Size, Tiles(Size, ReadingsOf[v]), Place[spot])]
OnOverlay == [spot \in Spots |-> OverlayTarget(Size, Place[spot])]
Near ==
  LET dist2(p, q) == (p[1] - q[1]) * (p[1] - q[1]) + (p[2] - q[2]) * (p[2] - q[2])
      tolerance == Max({40, Edge(Size) \div 6})
  IN  {pair \in Spots \X Spots : dist2(Place[pair[1]], Place[pair[2]]) <= tolerance * tolerance}

-----------------------------------------------------------------------------
(* A frame *)

\* ScheduleResolver.resolve: a spec is parsed when it is not the one looked at last,
\* and one that does not parse leaves the schedule as it was.
Chosen == IF spec = NoSpec THEN DefaultSpec ELSE spec
Resolve ==
  /\ cached' = Chosen
  /\ schedule' = IF Chosen # cached /\ Parses(Rules[Chosen]) THEN Chosen ELSE schedule

IsDark(now, sched, until, slept) ==
  slept \/ (now >= until /\ Asleep[sched][now])

\* The clock, the schedule, the readings and the queued taps, read at the top of the
\* frame. A wake deadline that is over is dropped.
BeginFrame ==
  /\ frame \in {"boot", "top"}
  /\ clock' \in {clock, clock + 1} /\ clock' <= LastMinute
  /\ Resolve
  /\ wakeUntil' = IF clock' >= wakeUntil THEN 0 ELSE wakeUntil
  /\ dark' = IsDark(clock', schedule', wakeUntil', manual)
  /\ shown' = readings
  /\ batch' = queue /\ queue' = <<>>
  /\ frame' = "events"
  /\ UNCHANGED <<fetcher, manual, woken, view, lastTap, brightness>>

TakeTap == frame = "events" /\ saving = NoLevel /\ batch # <<>> /\ batch' = Tail(batch)

\* A slip of WakeTap: the deadline is the end of the sleep window.
WakeTapToTheEnd ==
  /\ TakeTap /\ dark
  /\ manual' = FALSE /\ lastTap' = NoSpot
  /\ wakeUntil' = IF Asleep[schedule][clock] THEN CurrentWindowEnd(Merged[schedule], clock) ELSE 0
  /\ woken' = [at |-> clock, under |-> schedule]
  /\ UNCHANGED <<fetcher, clock, frame, dark, queue, shown, view, brightness, schedule, cached>>

\* A tap on a dark panel only wakes it.
WakeTap ==
  /\ TakeTap /\ dark
  /\ manual' = FALSE /\ lastTap' = NoSpot
  /\ wakeUntil' = IF Asleep[schedule][clock] THEN Deadline[schedule][clock] ELSE 0
  /\ woken' = [at |-> clock, under |-> schedule]
  /\ UNCHANGED <<fetcher, clock, frame, dark, queue, shown, view, brightness, schedule, cached>>

\* _nudge_brightness up to save_level: a step that cannot be written is still shown.
Nudge(delta) ==
  LET new == Between(1, step + delta, Steps)
      level == LevelForStep(new)
  IN  IF new = step THEN UNCHANGED <<brightness, events>>
      ELSE /\ step' = new /\ chosen' = level /\ saving' = level
           /\ \E ok \in BOOLEAN :
                /\ light' = SetLevel(light, level, ok) /\ slipped' = ~ ok
                /\ IF ok THEN UNCHANGED events ELSE Event
           /\ UNCHANGED <<saved, disk, refused>>

\* save_level empties the file and writes it, at most a few digits at once: when it
\* raises, the file is as it was or empty. The kernel may have brought the file to the
\* disk before, or not.
SaveLevel ==
  /\ frame = "events" /\ saving # NoLevel
  /\ \/ saved' = saving /\ UNCHANGED <<slipped, events>>
     \/ saved' \in {saved, NoLevel} /\ slipped' = TRUE /\ Event
  /\ saving' = NoLevel /\ disk' \in {disk, saved}
  /\ UNCHANGED <<version, serverSpec, polling, wake, refresh, accepted>>
  /\ UNCHANGED <<clock, frame, dark, queue, batch, showing, light, step, chosen, refused, sleeping>>

\* A tap on the overlay never counts for a double tap.
OverlayTap ==
  /\ TakeTap /\ ~ dark /\ view = "overlay"
  /\ \/ OnOverlay[Head(batch)] = "minus" /\ Nudge(-1) /\ UNCHANGED view
     \/ OnOverlay[Head(batch)] = "plus" /\ Nudge(1) /\ UNCHANGED view
     \/ /\ OnOverlay[Head(batch)] \notin {"minus", "plus"}
        /\ view' = IF OnOverlay[Head(batch)] = "outside" THEN "grid" ELSE view
        /\ UNCHANGED <<brightness, events>>
  /\ UNCHANGED <<version, serverSpec, polling, wake, refresh, accepted>>
  /\ UNCHANGED <<clock, frame, dark, queue, shown, lastTap, sleeping>>

\* A second tap at the same place, soon enough, puts the panel to sleep.
DoubleTap ==
  /\ TakeTap /\ ~ dark /\ view # "overlay"
  /\ <<lastTap, Head(batch)>> \in Near
  /\ manual' = TRUE /\ view' = "grid" /\ lastTap' = NoSpot
  /\ UNCHANGED <<fetcher, clock, frame, dark, queue, shown, brightness, schedule, cached,
                 wakeUntil, woken>>

\* Any other tap: the refresh button, the status line, a tile, or the way back.
SingleTap ==
  /\ TakeTap /\ ~ dark /\ view # "overlay"
  /\ LET target == IF view = "grid" THEN OnGrid[shown, Head(batch)] ELSE "back"
     IN  /\ IF target = "refresh" THEN StartRefresh ELSE UNCHANGED refresh
         /\ lastTap' = IF target = "status" THEN NoSpot ELSE Head(batch)
         /\ view' = IF target = "status" THEN "overlay"
                    ELSE IF target \in Range(ProviderOrder) THEN target ELSE "grid"
  /\ UNCHANGED <<version, serverSpec, polling, wake, accepted, events>>
  /\ UNCHANGED <<clock, frame, dark, queue, shown, brightness, sleeping>>

\* The backlight follows what the taps have made of the frame. A lit frame is drawn,
\* and a detail without a reading of its provider falls back to the grid; so does the
\* detail of the tile that Claude's work account has to itself.
EndFrame ==
  /\ frame = "events" /\ saving = NoLevel /\ batch = <<>>
  /\ LET on == ~ IsDark(clock, schedule, wakeUntil, manual)
     IN  \/ light' = SetPower(light, on, TRUE) /\ refused' = FALSE /\ UNCHANGED events
         \/ /\ ~ Redundant(light, on) /\ Event
            /\ light' = SetPower(light, on, FALSE) /\ refused' = TRUE
  /\ view' = IF ~ IsDark(clock, schedule, wakeUntil, manual) /\ view \in Range(ProviderOrder)
                /\ view \notin DOMAIN ReadingsOf[shown]
             THEN "grid" ELSE view
  /\ frame' = "top"
  /\ UNCHANGED <<version, serverSpec, polling, wake, refresh, accepted>>
  /\ UNCHANGED <<clock, dark, queue, batch, choice, shown, lastTap, sleeping>>

-----------------------------------------------------------------------------
(* The process, and the user *)

\* DashboardGui.__init__ over a node.
Starts ==
  /\ frame' = "boot"
  /\ schedule' = DefaultSpec /\ cached' = NoSpec
  /\ wakeUntil' = 0 /\ manual' = FALSE /\ dark' = FALSE
  /\ shown' = 0 /\ view' = "grid" /\ lastTap' = NoSpot
  /\ queue' = <<>> /\ batch' = <<>>
  /\ woken' = [at |-> 0, under |-> DefaultSpec] /\ refused' = FALSE

\* _init_brightness_step: a level that was saved is set again, if it can be written.
StartsLit(node, ok) ==
  IF saved' = NoLevel
  THEN ok /\ light' = Opened(node) /\ step' = StepForLevel(node)
  ELSE light' = SetLevel(Opened(node), saved', ok) /\ step' = StepForLevel(saved')

\* Killed by the updater or a crash: the node and the file stay as they are, unless the
\* file was just being saved.
IsKilled(node) ==
  /\ node = light.node
  /\ saved' \in {saved, IF saving = NoLevel THEN saved ELSE NoLevel}
  /\ UNCHANGED disk

\* A power loss: the node boots anew, and the file is the last one, an older one that is
\* on the disk, or empty.
LosesPower(node) ==
  node \in FirstLevels /\ saved' \in {saved, disk, NoLevel} /\ disk' = saved'

\* Either way the process is started again. What was chosen is lost with the file, when
\* saving it was cut off, or when the node does not take it.
Restart ==
  /\ Event /\ FetcherRestarts /\ Starts
  /\ \E node \in {light.node} \cup FirstLevels, ok \in BOOLEAN :
       /\ IsKilled(node) \/ LosesPower(node)
       /\ StartsLit(node, ok)
       /\ slipped' = (slipped \/ ~ ok \/ saved' # saved \/ saving # NoLevel)
  /\ saving' = NoLevel
  /\ UNCHANGED <<version, serverSpec, clock, chosen>>

\* A tap during a frame is one just after it: the frame has taken its taps.
Tap(spot) ==
  /\ frame # "events" /\ Event
  /\ queue' = Append(queue, spot)
  /\ UNCHANGED <<version, serverSpec, polling, wake, refresh, accepted>>
  /\ UNCHANGED <<clock, frame, dark, batch, showing, brightness, sleeping>>

Init ==
  /\ FetcherInit
  /\ clock = FirstMinute
  /\ saving = NoLevel /\ saved = NoLevel /\ disk = NoLevel /\ chosen = NoLevel
  /\ frame = "boot"
  /\ schedule = DefaultSpec /\ cached = NoSpec
  /\ wakeUntil = 0 /\ manual = FALSE /\ dark = FALSE
  /\ shown = 0 /\ view = "grid" /\ lastTap = NoSpot
  /\ queue = <<>> /\ batch = <<>>
  /\ \E node \in FirstLevels : light = Opened(node) /\ step = StepForLevel(node)
  /\ woken = [at |-> 0, under |-> DefaultSpec] /\ refused = FALSE /\ slipped = FALSE

Next ==
  \/ FetcherNext /\ UNCHANGED panel
  \/ BeginFrame \/ WakeTap \/ OverlayTap \/ SaveLevel \/ DoubleTap \/ SingleTap \/ EndFrame
  \/ Restart
  \/ \E spot \in Spots : Tap(spot)

Spec == Init /\ [][Next]_vars

-----------------------------------------------------------------------------
(* Properties *)

\* The shape of every variable.
TypeOK ==
  /\ FetcherTypeOK
  /\ clock \in 0..LastMinute /\ frame \in {"boot", "top", "events"}
  /\ schedule \in Valid /\ cached \in ServerSpecs
  /\ wakeUntil \in 0..(LastMinute + DayLength) /\ manual \in BOOLEAN /\ dark \in BOOLEAN
  /\ shown \in Versions \cup {0} /\ view \in {"grid", "overlay"} \cup Range(ProviderOrder)
  /\ lastTap \in Spots \cup {NoSpot}
  /\ queue \in Seq(Spots) /\ batch \in Seq(Spots)
  /\ light \in [node : 0..MaxLevel, onLevel : 1..MaxLevel, lastOn : {"unknown", "on", "off"}]
  /\ step \in 1..Steps /\ {saving, saved, disk, chosen} \subseteq 1..MaxLevel \cup {NoLevel}
  /\ woken \in [at : 0..LastMinute, under : Valid]
  /\ refused \in BOOLEAN /\ slipped \in BOOLEAN

\* A finger means one thing: on every screen, whichever of the providers report, every
\* tile lies above the status line, apart from the others and large enough for a finger,
\* and so does the refresh button on that line; and the brightness buttons lie apart on
\* the card and are large enough.
Inside(r, s) == s.x <= r.x /\ s.y <= r.y /\ r.x + r.w <= s.x + s.w /\ r.y + r.h <= s.y + s.h
Apart(r, s) == r.x + r.w <= s.x \/ s.x + s.w <= r.x \/ r.y + r.h <= s.y \/ s.y + s.h <= r.y
Touchable(r) == r.w >= MinTouchTarget /\ r.h >= MinTouchTarget
GridIsSound(size, tiles) ==
  LET grid == Rect(0, 0, size[1], size[2] - StatusHeight(size))
  IN  /\ \A p \in DOMAIN tiles :
           /\ Inside(tiles[p], grid) /\ Touchable(tiles[p])
           /\ \A q \in DOMAIN tiles \ {p} : Apart(tiles[p], tiles[q])
      /\ Inside(RefreshRect(size), StatusRect(size)) /\ Touchable(RefreshRect(size))
OverlayIsSound(size) ==
  LET o == StatusOverlay(size)
      parts == {o.minus, o.plus, o.level, o.diag}
  IN  /\ Inside(o.panel, Rect(0, 0, size[1], size[2]))
      /\ \A r \in parts : Inside(r, o.panel) /\ \A s \in parts \ {r} : Apart(r, s)
      /\ Touchable(o.minus) /\ Touchable(o.plus)
SoundlyLaidOut ==
  [v \in Versions \cup {0} |->
     \A size \in Screens :
       /\ \A reporting \in SUBSET DOMAIN ReadingsOf[v] :
            GridIsSound(size, Tiles(size, [p \in reporting |-> ReadingsOf[v][p]]))
       /\ OverlayIsSound(size)]
TargetsApart == SoundlyLaidOut[shown]

\* What the object remembers of the backlight is what the node holds, so that a switch
\* it skips as redundant would have changed nothing, whatever writes failed and
\* whatever brightness was set in between.
MemoryFollowsNode ==
  /\ light.lastOn = "on" => light.node = light.onLevel
  /\ light.lastOn = "off" => light.node = Off

\* At the end of every frame the panel is lit when, and only when, it should be: no
\* double tap has put it to sleep, and either the windows of its schedule leave it
\* awake or a tap has woken it, under the schedule that held then, for a time that is
\* not over. Schedules may change at the server, and be malformed, at any moment.
AwakeThrough(tap) == tap.at > 0 /\ Covered(Windows(Rules[tap.under]), tap.at)
                     /\ clock < WakeEnd(Windows(Rules[tap.under]), tap.at)
LitAsPromised ==
  frame = "top" /\ ~ refused =>
    (light.node > 0 <=>
       ~ manual /\ (AwakeThrough(woken) \/ ~ Covered(Windows(Rules[schedule]), clock)))

\* The brightness the user has chosen last is the one the panel wakes to and the one the
\* overlay's step stands for, over sleep, double taps and restarts, unless it could not be
\* written to the node, or its file was not written, or was lost with the power.
ChosenLevelStays ==
  chosen # NoLevel /\ ~ slipped => light.onLevel = chosen /\ LevelForStep(step) = chosen
=============================================================================

------------------------------- MODULE Backlight -------------------------------
(***************************************************************************)
(* The backlight of a panel (client/backlight.py) and the steps of its     *)
(* brightness (client/brightness.py). A backlight is a record: what the    *)
(* sysfs node holds, and what the object remembers of it. A panel without  *)
(* a backlight device does nothing here and is not modelled.               *)
(***************************************************************************)
EXTENDS Rounding

CONSTANTS
  MaxLevel,   \* max_brightness
  Steps       \* BRIGHTNESS_STEPS

ASSUME BacklightAssumption == MaxLevel \in Nat \ {0} /\ Steps \in Nat \ {0, 1}

Off == 0

LevelForStep(i) == Max({1, Round(Between(1, i, Steps) * MaxLevel, Steps)})
StepForLevel(level) == Between(1, Round(Between(0, level, MaxLevel) * Steps, MaxLevel), Steps)

\* A new object over a node: it wakes to the level it found, or to the highest one
\* when it found the panel dark.
Opened(node) ==
  [node |-> node, onLevel |-> IF node > 0 THEN node ELSE MaxLevel, lastOn |-> "unknown"]

\* A slip of SetLevel: the level to wake to stays that of the start.
SetLevelOnly(b, level, ok) ==
  IF ~ ok THEN b
  ELSE [b EXCEPT !.node = Between(1, level, MaxLevel), !.lastOn = "on"]

\* set_level: a failed write changes nothing.
SetLevel(b, level, ok) ==
  IF ~ ok THEN b
  ELSE [node |-> Between(1, level, MaxLevel), onLevel |-> Between(1, level, MaxLevel),
        lastOn |-> "on"]

Switched(on) == IF on THEN "on" ELSE "off"
Redundant(b, on) == b.lastOn = Switched(on)

\* A slip of SetPower: the state is remembered before the write.
SetPowerFirst(b, on, ok) ==
  IF Redundant(b, on) THEN b
  ELSE [b EXCEPT !.node = IF ok THEN IF on THEN b.onLevel ELSE Off ELSE @, !.lastOn = Switched(on)]

SetPower(b, on, ok) ==
  IF Redundant(b, on) \/ ~ ok THEN b
  ELSE [b EXCEPT !.node = IF on THEN b.onLevel ELSE Off, !.lastOn = Switched(on)]

=============================================================================

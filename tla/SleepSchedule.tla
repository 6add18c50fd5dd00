----------------------------- MODULE SleepSchedule -----------------------------
(***************************************************************************)
(* When a panel sleeps (client/schedule.py): weekly sleep windows, merged  *)
(* into contiguous spans over neighbouring weeks, and the deadline of a    *)
(* tap that wakes the panel. A time is a number of minutes since a Monday  *)
(* at 00:00; the length of a day and the days of a week are parameters.    *)
(*                                                                         *)
(* A spec is a set of rules: a "daily" rule with two times of day, a       *)
(* "span" with two minutes of the week, or a "malformed" one.              *)
(***************************************************************************)
EXTENDS Integers, Sequences, FiniteSets, SequencesExt

CONSTANTS DayLength, Days

ASSUME WeekAssumption == DayLength \in Nat \ {0} /\ Days \in Nat \ {0}

Week == Days * DayLength

WeekMin(t) == t % Week
NextMidnight(t) == (t \div DayLength + 1) * DayLength

-----------------------------------------------------------------------------
(* Parsing *)

\* A daily window whose end is not after its start crosses midnight.
RuleWindows(rule) ==
  IF rule.form = "daily"
  THEN {[start |-> d * DayLength + rule.from,
         end |-> d * DayLength + rule.to + IF rule.to <= rule.from THEN DayLength ELSE 0] :
         d \in 0..(Days - 1)}
  ELSE {[start |-> rule.from, end |-> rule.to]}

\* One malformed rule has the whole spec rejected.
Parses(rules) == \A rule \in rules : rule.form # "malformed"
Windows(rules) == UNION {RuleWindows(rule) : rule \in rules}

-----------------------------------------------------------------------------
(* SleepSchedule: the merged spans *)

Length(w) == (w.end - w.start) % Week
Offsets == {-Week, 0, Week, 2 * Week}

Spans(windows) ==
  {<<w.start + off, w.start + off + Length(w)>> :
     w \in {v \in windows : Length(v) # 0}, off \in Offsets}

\* spans.sort()
Before(a, b) == a[1] < b[1] \/ (a[1] = b[1] /\ a[2] < b[2])
Sorted(spans) ==
  [i \in 1..Cardinality(spans) |->
     CHOOSE s \in spans : Cardinality({p \in spans : Before(p, s)}) = i - 1]

\* A span that overlaps or touches the last one extends it.
Extend(merged, s) ==
  IF merged # <<>> /\ s[1] <= Last(merged)[2]
  THEN Append(Front(merged), <<Last(merged)[1], Max({Last(merged)[2], s[2]})>>)
  ELSE Append(merged, s)

BuildMerged(windows) ==
  LET spans == Sorted(Spans(windows))
      merged[i \in 0..Len(spans)] == IF i = 0 THEN <<>> ELSE Extend(merged[i - 1], spans[i])
  IN  merged[Len(spans)]

\* The spans that contain t, looked for in the middle copy of the week.
Containing(merged, t) ==
  {s \in Range(merged) : s[1] <= Week + WeekMin(t) /\ Week + WeekMin(t) < s[2]}

IsAsleep(merged, t) == Containing(merged, t) # {}

CurrentWindowEnd(merged, t) ==
  LET span == CHOOSE s \in Containing(merged, t) : TRUE
  IN  t + span[2] - (Week + WeekMin(t))

\* The deadline of a tap at t, or t itself when the panel is not asleep.
WakeUntil(merged, t) ==
  IF IsAsleep(merged, t) THEN Min({CurrentWindowEnd(merged, t), NextMidnight(t)}) ELSE t

-----------------------------------------------------------------------------
(* What it should say, straight from the windows: the panel sleeps at t    *)
(* when one of them covers t, and a tap keeps it awake up to the first     *)
(* minute that is midnight or that no window covers.                       *)

Covered(windows, t) == \E w \in windows : (t - w.start) % Week < Length(w)

WakeEnd(windows, t) ==
  CHOOSE u \in (t + 1)..NextMidnight(t) :
    /\ u = NextMidnight(t) \/ ~ Covered(windows, u)
    /\ \A v \in (t + 1)..(u - 1) : Covered(windows, v)
=============================================================================

-------------------------------- MODULE MCPanel --------------------------------
(***************************************************************************)
(* A small instance of Panel for TLC: a week of two days of three minutes. *)
(* The nights of one spec cross midnight; the windows of the weekend touch *)
(* at midday, overlap at midnight and wrap the week; and one spec does     *)
(* not parse. At first only Claude's work account and two others report,   *)
(* then every provider does, with as many bars as it can have.             *)
(*                                                                         *)
(* The panel is the 1280 x 720 one, turned by 90 degrees. Its spots are,   *)
(* as the touch controller tells them, the status line, the refresh        *)
(* button, and the places of - and + on the overlay, which are tiles on    *)
(* the grid.                                                               *)
(***************************************************************************)
EXTENDS Panel

CONSTANTS night, weekend, bad
MCRules ==
  night :> {[form |-> "daily", from |-> 2, to |-> 1]}
  @@ weekend :> {[form |-> "daily", from |-> 0, to |-> 1], [form |-> "span", from |-> 1, to |-> 2],
                 [form |-> "span", from |-> 5, to |-> 1]}
  @@ bad :> {[form |-> "daily", from |-> 1, to |-> 2], [form |-> "malformed"]}

Windowed(session, weekly, scoped) == [session |-> session, weekly |-> weekly, scoped |-> scoped]
MCReported ==
  <<"claude_work" :> Windowed(1, 1, 0) @@ "zai" :> Windowed(1, 0, 0) @@ "ollama" :> Windowed(0, 0, 0),
    "claude" :> Windowed(1, 1, 1) @@ "claude_work" :> Windowed(1, 1, 1)
    @@ "codex" :> Windowed(1, 0, 1) @@ "antigravity" :> Windowed(1, 1, 1)
    @@ "zai" :> Windowed(1, 1, 0) @@ "ollama" :> Windowed(1, 1, 0) @@ "umans" :> Windowed(0, 0, 0)>>
MCUsage == <<1, 2>>

MCScreens == {<<240, 320>>, <<320, 240>>, <<390, 844>>, <<844, 390>>, <<480, 320>>, <<800, 480>>,
              <<720, 1280>>, <<1280, 720>>}
MCSize == <<1280, 720>>
MCTitleHeight == [size \in MCScreens |-> EstimatedTitle(size)]

Status == <<2, 50>>
Button == <<4, 97>>
Minus == <<50, 62>>
Plus == <<34, 82>>
MCSpots == {Status, Button, Minus, Plus}
=============================================================================

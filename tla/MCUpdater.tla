------------------------------ MODULE MCUpdater ------------------------------
(***************************************************************************)
(* A small instance of Updater for TLC: the launcher, the GUI's unit and   *)
(* the unit of another service. Revision 2 changes the launcher and the    *)
(* GUI's unit and needs a new dependency, revision 3 carries a unit that   *)
(* is refused and one that the GUI does not survive, and revision 4 cannot *)
(* be imported.                                                            *)
(***************************************************************************)
EXTENDS Updater, TLC

CONSTANTS launcher, guiUnit, touchUnit
MCOrder == <<launcher, touchUnit, guiUnit>>
MCContent ==
  launcher :> <<1, 2, 2, 2>> @@ guiUnit :> <<1, 2, 3, 2>> @@ touchUnit :> <<1, 1, 3, 1>>
MCUnverifiable == {<<touchUnit, 3>>}
MCFatal == {<<guiUnit, 3>>}
MCDeps == <<1, 2, 2, 2>>
=============================================================================

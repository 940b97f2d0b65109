--------------------------- MODULE MCRiskManager ---------------------------
(***************************************************************************)
(* Instances for TLC, one scene to a behaviour: the risk book with its     *)
(* stops, under constant limits; and the limits while operators change     *)
(* them.  The scenes share no state.                                       *)
(***************************************************************************)
EXTENDS PositionStops, RiskSettings, TLC

VARIABLE scene

BothSides == {1, -1}
LossOrWin == {-5, 10}
Symmetry == Permutations(Symbols)

SceneInit == scene \in {"book", "settings"} /\ StopsInit /\ SettingsInit

BookScene == scene = "book" /\ StopsNext /\ UNCHANGED <<scene, settingsVars>>
SettingsScene == scene = "settings" /\ SettingsNext /\ UNCHANGED <<scene, stopVars>>

SceneNext == BookScene \/ SettingsScene

SceneSpec == SceneInit /\ [][SceneNext]_<<scene, stopVars, settingsVars>>
=============================================================================

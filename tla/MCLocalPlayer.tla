----------------------------- MODULE MCLocalPlayer -----------------------------
(***************************************************************************)
(* A small instance of LocalPlayer for TLC: names at the boundaries of the *)
(* handlers that take them.                                                *)
(***************************************************************************)
EXTENDS LocalPlayer, TLC

CONSTANTS
  bohdana,  \* 20 characters of two bytes each, which a rename cuts
  bo,       \* to these
  chris     \* 21 characters, one more than a join takes

ThreeNames == {bohdana, bo, chris}
Lengths == (bohdana :> 20) @@ (bo :> 11) @@ (chris :> 21)
Cuts    == (bohdana :> bo) @@ (bo :> bo) @@ (chris :> chris)

(* A bound.  Slots and local player only meet in the phase, the own id and *)
(* the own slot's place, so names and places vary in every slot while the  *)
(* local player has done nothing, and in one way while he acts.            *)
Idling ==
  /\ ~told /\ ~iSpawned /\ ~bIsSpectating /\ s_spawnStage = "Idle"
  /\ SpawnInfo = Origin /\ fNormalModePos = Origin /\ pedAt = Origin

PlainRoster ==
  /\ \A id \in Ids : {playerInfo[id].name, announced[id]} \subseteq {Nobody, bo}
  /\ playerInfo[LastId] = [Empty EXCEPT !.name = playerInfo[LastId].name]

OneAtATime == Idling \/ PlainRoster
=============================================================================

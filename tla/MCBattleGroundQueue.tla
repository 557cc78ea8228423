------------------------ MODULE MCBattleGroundQueue ------------------------
(***************************************************************************)
(* Instances of BattleGroundQueue for TLC.                                 *)
(***************************************************************************)
EXTENDS BattleGroundQueue

CONSTANTS a1, a2, h1

Two == {a1, h1}
Three == {a1, a2, h1}
Sides == [p \in Player |-> IF p = h1 THEN "horde" ELSE "alliance"]
Solo == {{p} : p \in Player}
SoloOrPair == Solo \cup {{a1, a2}}
OnlyA1 == {a1}
=============================================================================

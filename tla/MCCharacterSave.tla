-------------------------- MODULE MCCharacterSave --------------------------
(***************************************************************************)
(* Instances of CharacterSave for TLC.                                     *)
(***************************************************************************)
EXTENDS CharacterSave

CONSTANTS ann, bob, sword

Two == {ann, bob}
OnlyAnn == {ann}
OneItem == {sword}
AnnsItems == [x \in OneItem |-> ann]
=============================================================================

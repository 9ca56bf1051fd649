---------------------------- MODULE MCToggleChord ----------------------------
(* Instances of ToggleChord for TLC: a chord of two buttons beside a third, *)
(* which is reported in part and with the third as well.                    *)
EXTENDS ToggleChord

ChordMask == {"l4", "r4"}
ButtonMasks == {{"l4", "a"}, {"l4", "r4", "a"}}
=============================================================================

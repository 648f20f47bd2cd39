--------------------------- MODULE MCChatTimeline ---------------------------
(***************************************************************************)
(* An instance of ChatTimeline for TLC.                                    *)
(***************************************************************************)
EXTENDS ChatTimeline, TLC

CONSTANTS s1, s2

TwoSlots == {s1, s2}

SlotSymmetry == Permutations(TwoSlots)
=============================================================================

---------------------------- MODULE MCUserRecords ----------------------------
(* Instances of UserRecords for TLC.                                       *)
EXTENDS UserRecords, TLC

SlotSymmetry == Permutations(Slots)
=============================================================================

------------------------------- MODULE MCStageRun -------------------------------
(***************************************************************************)
(* A small materialization stage.  The workers of a pool are alike.        *)
(***************************************************************************)
EXTENDS StageRun, TLC

SlotSymmetry == Permutations(Slots)
=============================================================================

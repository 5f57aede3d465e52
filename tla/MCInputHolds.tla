------------------------------ MODULE MCInputHolds ------------------------------
(***************************************************************************)
(* InputHolds for TLC. Its constants are bounds, given in the .cfg files:  *)
(* inputs, blocks and epochs are numbers, so there is no symmetry.         *)
(***************************************************************************)
EXTENDS InputHolds
================================================================================

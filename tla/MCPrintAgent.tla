---------------------------- MODULE MCPrintAgent ----------------------------
(***************************************************************************)
(* Instances of PrintAgent for TLC.  Slots are interchangeable (every      *)
(* action and every safety property treats them alike), so they may be     *)
(* permuted where no liveness is checked.                                  *)
(***************************************************************************)
EXTENDS PrintAgent, TLC

SlotSymmetry == Permutations(Slots)
=============================================================================

---------------------------- MODULE MCConnection ----------------------------
(* Instances of Connection for TLC.  Only the faults are bounded; the      *)
(* back-off has the values of the code, in seconds: 1, 2, 4, ..., 32, 60.  *)
EXTENDS Connection

MinSeconds == 1
MaxSeconds == 60
=============================================================================

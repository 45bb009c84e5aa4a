----------------------------- MODULE MCPrinter -----------------------------
(* Concurrent calls of sendToPrinter.  Calls with a good address are alike: *)
(* they may be permuted where no call has a bad one and no liveness is      *)
(* checked.                                                                 *)
EXTENDS Printer, TLC

CallSymmetry == Permutations(Calls)
=============================================================================

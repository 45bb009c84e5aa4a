------------------------------ MODULE MCHealth ------------------------------
(***************************************************************************)
(* Instances of Health for TLC.  Requests share nothing but the history    *)
(* and the process, so one at a time is enough.  A body of single bytes    *)
(* and one with a character of two lie within the limit, one exceeds it,   *)
(* one is empty and one is the literal null.                               *)
(***************************************************************************)
EXTENDS Health

SomeBodies ==
  { [length |-> 3, chars |-> {1..1, 2..2, 3..3},       holds |-> "job"],
    [length |-> 3, chars |-> {1..1, 2..3},             holds |-> "job"],
    [length |-> 4, chars |-> {1..1, 2..2, 3..3, 4..4}, holds |-> "job"],
    [length |-> 0, chars |-> {},                       holds |-> "bad"],
    [length |-> 1, chars |-> {1..1},                   holds |-> "null"] }

SomeLimits == {NaN, -1, 0, 1, 2, 3}
=============================================================================

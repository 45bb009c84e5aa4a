---------------------------- MODULE MCLifecycle -----------------------------
(***************************************************************************)
(* Instances of Lifecycle for TLC: one environment that is right, and one  *)
(* for each way to be wrong, on both sides of a boundary.                  *)
(***************************************************************************)
EXTENDS Lifecycle

SomeCalls == {"h1", "h2", "r", "a"}

KindOf == [c \in SomeCalls |->
             CASE c = "r" -> "result" [] c = "a" -> "auth" [] OTHER -> "heartbeat"]

Good == [given |-> Required, reverbPort |-> 443, healthPort |-> 65535, agentId |-> 1]

SomeEnvironments ==
  { Good,
    [Good EXCEPT !.given = Required \ {"TENANT_ID"}],
    [Good EXCEPT !.reverbPort = NoInt],
    [Good EXCEPT !.healthPort = 65536],
    [Good EXCEPT !.agentId = 0] }
=============================================================================

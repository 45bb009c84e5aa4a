---------------------------- MODULE PrintPromise ----------------------------
(***************************************************************************)
(* What a call of sendToPrinter promises to the job path, with no sockets, *)
(* timers or flags: an attempt is open from the call until it settles,     *)
(* settles once, and parts of the ticket reach the network only while it   *)
(* is open, none of them twice.  How it settles says nothing of how much   *)
(* was handed over: the code resolves a ticket that broke off.             *)
(***************************************************************************)
EXTENDS Naturals

CONSTANTS
  Calls,  \* attempts
  Chunks  \* the parts of a ticket

VARIABLES
  outcome, \* "none", "pending", "resolved" or "rejected"
  handed   \* how many parts the network has taken

promiseVars == <<outcome, handed>>

Init ==
  /\ outcome = [c \in Calls |-> "none"]
  /\ handed = [c \in Calls |-> 0]

\* The call itself may fail, before anything is sent.
Call(c) ==
  /\ outcome[c] = "none"
  /\ \E o \in {"pending", "rejected"} : outcome' = [outcome EXCEPT ![c] = o]
  /\ UNCHANGED handed

HandOver(c) ==
  /\ outcome[c] = "pending"
  /\ handed[c] < Chunks
  /\ handed' = [handed EXCEPT ![c] = @ + 1]
  /\ UNCHANGED outcome

Settle(c) ==
  /\ outcome[c] = "pending"
  /\ \E o \in {"resolved", "rejected"} : outcome' = [outcome EXCEPT ![c] = o]
  /\ UNCHANGED handed

Next == \E c \in Calls : Call(c) \/ HandOver(c) \/ Settle(c)

Spec == Init /\ [][Next]_promiseVars
=============================================================================

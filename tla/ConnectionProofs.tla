-------------------------- MODULE ConnectionProofs --------------------------
(* Proofs about Connection for every back-off and any number of faults.    *)
EXTENDS Connection, TLAPS

(***************************************************************************)
(* The invariant ties the flags of the agent to the state of the client:   *)
(* the agent is connected only while no timer is pending and a client is   *)
(* there, a channel is held only over a connection, and a connection has   *)
(* bound its handler.                                                      *)
(***************************************************************************)
IInv ==
  /\ TypeOK
  /\ HandleIsArmed
  /\ NeverStranded
  /\ ConnectedIsLive
  /\ stopped <=> pusher = "none"
  /\ stopped => ~armed /\ ~connected
  /\ channel # "none" => pusher = "connected"
  /\ pusher = "connected" => handlers = 1

LEMMA InitInv == Init => IInv
  <1>1. MinBackoff \in MinBackoff..MaxBackoff /\ 0 \in Nat
    BY ConnectionConstants DEF ConnectionConstants
  <1> QED
    BY <1>1, Zenon DEF Init, IInv, TypeOK, HandleIsArmed, NeverStranded,
       ConnectedIsLive

(* Scheduling a reconnect leaves a timer armed and never lowers the        *)
(* back-off.                                                               *)
LEMMA ScheduleFacts ==
  ASSUME IInv, NEW pending \in BOOLEAN, pending => armed, ScheduleReconnect(pending)
  PROVE  /\ handle' = TRUE
         /\ armed' = TRUE
         /\ backoff' \in MinBackoff..MaxBackoff
         /\ backoff' \in Nat
         /\ backoff' >= backoff
  <1>1. backoff \in MinBackoff..MaxBackoff /\ armed \in BOOLEAN
    BY DEF IInv, TypeOK
  <1>2. CASE pending
    BY <1>1, <1>2, ConnectionConstants DEF ScheduleReconnect, ConnectionConstants
  <1>3. CASE ~pending
    BY <1>1, <1>3, ConnectionConstants DEF ScheduleReconnect, ConnectionConstants
  <1> QED
    BY <1>2, <1>3

LEMMA NextInv == IInv /\ [Next]_vars => IInv'
  <1> SUFFICES ASSUME IInv, [Next]_vars PROVE IInv'
    OBVIOUS
  <1> USE DEF IInv, TypeOK, HandleIsArmed, NeverStranded, ConnectedIsLive
  <1>min. MinBackoff \in MinBackoff..MaxBackoff /\ 1 \in Nat /\ 0 \in Nat
    BY ConnectionConstants DEF ConnectionConstants
  <1>add. \A n \in Nat : n + 1 \in Nat
    OBVIOUS
  <1>1. CASE PusherConnected
    BY <1>min, <1>1, Zenon DEF PusherConnected, Subscribe
  <1>2. CASE PusherRetries
    BY <1>add, <1>2, Zenon DEF PusherRetries
  <1>3. CASE PusherError
    <2>1. handle' = TRUE /\ armed' = TRUE /\ backoff' \in MinBackoff..MaxBackoff
      BY <1>3, ScheduleFacts DEF PusherError
    <2> QED
      BY <1>add, <1>3, <2>1, Zenon DEF PusherError
  <1>4. CASE PusherDisconnected
    <2>1. handle' = TRUE /\ armed' = TRUE /\ backoff' \in MinBackoff..MaxBackoff
      BY <1>4, ScheduleFacts DEF PusherDisconnected
    <2> QED
      BY <1>add, <1>4, <2>1, Zenon DEF PusherDisconnected
  <1>5. CASE ReconnectTimer
    <2>1. CASE pusher = "disconnected"
      BY <1>min, <1>5, <2>1, Zenon DEF ReconnectTimer
    <2>2. CASE pusher # "disconnected"
      <3>1. handle' = TRUE /\ armed' = TRUE /\ backoff' \in MinBackoff..MaxBackoff
        BY <1>5, <2>2, ScheduleFacts DEF ReconnectTimer
      <3> QED
        BY <1>min, <1>5, <2>2, <3>1, Zenon DEF ReconnectTimer
    <2> QED
      BY <2>1, <2>2
  <1>6. CASE SubscriptionAnswers
    BY <1>6, Zenon DEF SubscriptionAnswers
  <1>7. CASE Stop
    BY <1>min, <1>7, Zenon DEF Stop
  <1>8. CASE UNCHANGED vars
    BY <1>8 DEF vars
  <1> QED
    BY <1>1, <1>2, <1>3, <1>4, <1>5, <1>6, <1>7, <1>8 DEF Next

THEOREM Invariance == Spec => []IInv
  BY InitInv, NextInv, PTL DEF Spec

(* An agent that is not connected always has a way back.                   *)
THEOREM AlwaysAWayBack == Spec => []NeverStranded
  <1>1. IInv => NeverStranded
    BY DEF IInv
  <1> QED
    BY <1>1, Invariance, PTL

(* The handle of the reconnect timer and the timer live and die together.  *)
THEOREM HandleFollowsTimer == Spec => []HandleIsArmed
  <1>1. IInv => HandleIsArmed
    BY DEF IInv
  <1> QED
    BY <1>1, Invariance, PTL

(* No timer of an outage outlives it, to take down the client that is      *)
(* connected again, and no client that is gone counts as connected.        *)
THEOREM ConnectedStaysLive == Spec => []ConnectedIsLive
  <1>1. IInv => ConnectedIsLive
    BY DEF IInv
  <1> QED
    BY <1>1, Invariance, PTL

(* No job event is ever handled twice by one connection, or not at all.    *)
THEOREM JobsHandledOnce == Spec => []OneHandler
  <1>1. IInv => OneHandler
    BY DEF IInv, TypeOK, OneHandler
  <1> QED
    BY <1>1, Invariance, PTL

(* A stopped connection stays down.                                        *)
THEOREM StopIsFinal == Spec => []StoppedIsQuiet
  <1>1. IInv => StoppedIsQuiet
    BY DEF IInv, StoppedIsQuiet
  <1> QED
    BY <1>1, Invariance, PTL

(* During an outage the back-off only grows.                               *)
THEOREM BackoffGrows == Spec => BackoffFallsOnConnect
  <1>1. IInv /\ [Next]_vars =>
          [backoff' < backoff => pusher = "connecting" /\ pusher' = "connected"]_vars
    <2> SUFFICES ASSUME IInv, Next
                 PROVE  \/ pusher = "connecting" /\ pusher' = "connected"
                        \/ ~(backoff' < backoff)
      OBVIOUS
    <2>nat. backoff \in Nat /\ (handle => armed)
      BY ConnectionConstants DEF IInv, TypeOK, HandleIsArmed, ConnectionConstants
    <2>1. CASE PusherConnected
      BY <2>1 DEF PusherConnected
    <2>2. CASE PusherError \/ PusherDisconnected
      <3>1. backoff' \in Nat /\ backoff' >= backoff
        <4>1. handle \in BOOLEAN /\ ScheduleReconnect(handle)
          BY <2>2 DEF PusherError, PusherDisconnected, IInv, TypeOK
        <4> QED
          BY <2>nat, <4>1, ScheduleFacts, Zenon
      <3> QED
        BY <2>nat, <3>1
    <2>3. CASE ReconnectTimer
      <3>1. CASE pusher = "disconnected"
        BY <2>nat, <2>3, <3>1 DEF ReconnectTimer
      <3>2. CASE pusher # "disconnected"
        <4>1. backoff' \in Nat /\ backoff' >= backoff
          BY <2>3, <3>2, ScheduleFacts, Zenon DEF ReconnectTimer
        <4> QED
          BY <2>nat, <4>1
      <3> QED
        BY <3>1, <3>2
    <2>4. CASE PusherRetries \/ SubscriptionAnswers \/ Stop
      BY <2>nat, <2>4 DEF PusherRetries, SubscriptionAnswers, Stop
    <2> QED
      BY <2>1, <2>2, <2>3, <2>4 DEF Next
  <1> QED
    BY <1>1, Invariance, PTL DEF Spec, BackoffFallsOnConnect
=============================================================================

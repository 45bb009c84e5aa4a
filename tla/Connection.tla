----------------------------- MODULE Connection -----------------------------
(***************************************************************************)
(* AgentConnection of connection.js, over one pusher-js client at a time.  *)
(*                                                                         *)
(* pusher-js is external.  What the model assumes of it: a client starts   *)
(* connecting when it is made; it may reconnect by itself and announce     *)
(* `connected' again (which is why _subscribe unbinds first); it announces *)
(* `error' whether or not that costs it the connection; `disconnected' is  *)
(* announced when the connection is closed for good, by the server or, in  *)
(* the same call stack, by its own disconnect(); after disconnect() it is  *)
(* silent.  Every connection subscribes anew, which the authorizer may     *)
(* fail.                                                                   *)
(***************************************************************************)
EXTENDS Naturals

CONSTANTS
  MinBackoff,   \* MIN_BACKOFF_MS
  MaxBackoff,   \* MAX_BACKOFF_MS
  AuthOutcomes, \* how channel authorization may end: "ok", "refused"
  MaxFaults     \* bound: losses, errors and closings of a connection

ASSUME ConnectionConstants ==
  /\ MinBackoff \in Nat \ {0}
  /\ MaxBackoff \in Nat
  /\ MinBackoff <= MaxBackoff
  /\ AuthOutcomes \subseteq {"ok", "refused"}
  /\ MaxFaults \in Nat

VARIABLES
  stopped,   \* _stopped
  connected, \* _connected
  backoff,   \* _backoff
  handle,    \* _reconnectTimer is not null
  armed,     \* the timer it stands for has yet to fire
  pusher,    \* the client: "none" (_pusher is null), "connecting",
             \* "connected" or "disconnected"
  channel,   \* the subscription of the client: "none", "pending",
             \* "subscribed" or "refused"
  handlers,  \* how many print_job.ready handlers are bound to the channel
  faults     \* losses, errors and closings so far

vars ==
  <<stopped, connected, backoff, handle, armed, pusher, channel, handlers, faults>>

TypeOK ==
  /\ stopped \in BOOLEAN
  /\ connected \in BOOLEAN
  /\ backoff \in MinBackoff..MaxBackoff
  /\ handle \in BOOLEAN
  /\ armed \in BOOLEAN
  /\ pusher \in {"none", "connecting", "connected", "disconnected"}
  /\ channel \in {"none", "pending", "subscribed", "refused"}
  /\ handlers \in Nat
  /\ faults \in Nat

(* The constructor and the call of connect() in index.js.                  *)
Init ==
  /\ stopped = FALSE
  /\ connected = FALSE
  /\ backoff = MinBackoff
  /\ handle = FALSE
  /\ armed = FALSE
  /\ pusher = "connecting"
  /\ channel = "none"
  /\ handlers = 0
  /\ faults = 0

-----------------------------------------------------------------------------
\* Seeded fault: the back-off wraps around at its cap.
ScheduleReconnectWrapping(pending) ==
  IF pending
  THEN handle' = TRUE /\ UNCHANGED <<armed, backoff>>
  ELSE /\ handle' = TRUE
       /\ armed' = TRUE
       /\ backoff' = IF backoff * 2 <= MaxBackoff THEN backoff * 2 ELSE MinBackoff

\* Seeded fault: the callback forgets that its timer is gone, so a later
\* call finds one pending.
ScheduleReconnectOnce(pending) ==
  IF handle
  THEN handle' = TRUE /\ armed' = (armed /\ pending) /\ UNCHANGED backoff
  ELSE /\ handle' = TRUE
       /\ armed' = TRUE
       /\ backoff' = IF backoff * 2 < MaxBackoff THEN backoff * 2 ELSE MaxBackoff

(* _scheduleReconnect when the connection is not stopped: `pending' says   *)
(* whether _reconnectTimer is set at that point.                           *)
ScheduleReconnect(pending) ==
  IF pending
  THEN handle' = TRUE /\ UNCHANGED <<armed, backoff>>
  ELSE /\ handle' = TRUE
       /\ armed' = TRUE
       /\ backoff' = IF backoff * 2 < MaxBackoff THEN backoff * 2 ELSE MaxBackoff

\* Seeded fault: no unbind_all.
SubscribeAgain == channel' = "pending" /\ handlers' = handlers + 1

(* _subscribe: unbind whatever an earlier connection of the same client    *)
(* bound, subscribe, bind one handler of each kind.                        *)
Subscribe == channel' = "pending" /\ handlers' = 1

\* Seeded fault: no clearTimeout.
PusherConnectedKeepingTimer ==
  /\ pusher = "connecting"
  /\ pusher' = "connected"
  /\ connected' = TRUE
  /\ backoff' = MinBackoff
  /\ Subscribe
  /\ UNCHANGED <<stopped, handle, armed, faults>>

(* The client announces `connected', for the first time or again.          *)
PusherConnected ==
  /\ pusher = "connecting"
  /\ pusher' = "connected"
  /\ handle' = FALSE
  /\ armed' = FALSE
  /\ connected' = TRUE
  /\ backoff' = MinBackoff
  /\ Subscribe
  /\ UNCHANGED <<stopped, faults>>

(* The client loses its connection and starts over without a word.         *)
PusherRetries ==
  /\ pusher = "connected"
  /\ faults < MaxFaults
  /\ faults' = faults + 1
  /\ pusher' = "connecting"
  /\ channel' = "none"
  /\ UNCHANGED <<stopped, connected, backoff, handle, armed, handlers>>

(* The client announces `error'.                                           *)
PusherError ==
  /\ pusher \in {"connecting", "connected"}
  /\ faults < MaxFaults
  /\ faults' = faults + 1
  /\ connected' = FALSE
  /\ ScheduleReconnect(handle)
  /\ \/ UNCHANGED <<pusher, channel>>
     \/ pusher' = "connecting" /\ channel' = "none"
  /\ UNCHANGED <<stopped, handlers>>

(* The connection is closed for good.                                      *)
PusherDisconnected ==
  /\ pusher \in {"connecting", "connected"}
  /\ faults < MaxFaults
  /\ faults' = faults + 1
  /\ connected' = FALSE
  /\ ScheduleReconnect(handle)
  /\ pusher' = "disconnected"
  /\ channel' = "none"
  /\ UNCHANGED <<stopped, handlers>>

(* The reconnect timer fires: forget the timer, _cleanup, connect.  The    *)
(* old client announces `disconnected' from inside disconnect(), unless it *)
(* already was, and so schedules the next attempt before this one starts.  *)
ReconnectTimer ==
  /\ armed
  /\ IF pusher = "disconnected"
     THEN /\ handle' = FALSE
          /\ armed' = FALSE
          /\ UNCHANGED <<connected, backoff>>
     ELSE /\ connected' = FALSE
          /\ ScheduleReconnect(FALSE)
  /\ pusher' = "connecting"
  /\ channel' = "none"
  /\ handlers' = 0
  /\ UNCHANGED <<stopped, faults>>

(* The authorizer answers and the subscription succeeds or fails.  Neither *)
(* outcome does more than write a log line.                                *)
SubscriptionAnswers ==
  /\ channel = "pending"
  /\ \/ "ok" \in AuthOutcomes /\ channel' = "subscribed"
     \/ "refused" \in AuthOutcomes /\ channel' = "refused"
  /\ UNCHANGED <<stopped, connected, backoff, handle, armed, pusher, handlers, faults>>

\* Seeded fault: _stopped is set last, so the `disconnected' that the
\* client announces while it is torn down schedules a reconnect.
StopLate ==
  /\ ~stopped
  /\ stopped' = TRUE
  /\ connected' = FALSE
  /\ IF pusher = "disconnected"
     THEN handle' = FALSE /\ armed' = FALSE /\ UNCHANGED backoff
     ELSE ScheduleReconnect(FALSE)
  /\ pusher' = "none"
  /\ channel' = "none"
  /\ handlers' = 0
  /\ UNCHANGED faults

(* stop(), from shutdown.  The `disconnected' the client announces while   *)
(* it is torn down finds _stopped set and schedules nothing.               *)
Stop ==
  /\ ~stopped
  /\ stopped' = TRUE
  /\ connected' = FALSE
  /\ handle' = FALSE
  /\ armed' = FALSE
  /\ pusher' = "none"
  /\ channel' = "none"
  /\ handlers' = 0
  /\ UNCHANGED <<backoff, faults>>

Next ==
  \/ PusherConnected
  \/ PusherRetries
  \/ PusherError
  \/ PusherDisconnected
  \/ ReconnectTimer
  \/ SubscriptionAnswers
  \/ Stop

Spec == Init /\ [][Next]_vars

(* Timers fire, the network lets a client connect in the end, and the      *)
(* authorizer answers: fetch is aborted after BACKEND_TIMEOUT_MS.  That a  *)
(* client gets the time to connect before the timer replaces it rests on   *)
(* the back-off, which grows to a minute while it has not.                 *)
FairSpec ==
  /\ Spec
  /\ WF_vars(PusherConnected)
  /\ WF_vars(ReconnectTimer)
  /\ WF_vars(SubscriptionAnswers)

-----------------------------------------------------------------------------
(***************************************************************************)
(* Never stranded: an agent that is not connected has a client that is     *)
(* connecting or a timer that will make one, whatever order the events of  *)
(* the old client, the timer and the teardown come in.                     *)
(***************************************************************************)
NeverStranded ==
  ~stopped => connected \/ armed \/ pusher = "connecting"

(***************************************************************************)
(* _reconnectTimer never outlives its timer: if it did, the early return   *)
(* of _scheduleReconnect would refuse every later reconnect.               *)
(***************************************************************************)
HandleIsArmed == handle = armed

(***************************************************************************)
(* What /health says can be relied on this far.  isConnected follows the   *)
(* announcements of the client only, and may be true while the client is   *)
(* reconnecting by itself; but never of a client that is closed or gone,   *)
(* nor while a reconnect timer left over from an outage has yet to fire    *)
(* and tear the live client down.                                          *)
(***************************************************************************)
ConnectedIsLive ==
  connected => ~armed /\ pusher \in {"connecting", "connected"}

(***************************************************************************)
(* A print job is handled once: however often one client reconnects, a     *)
(* subscribed channel has exactly one handler.  Two would print each       *)
(* ticket twice.                                                           *)
(***************************************************************************)
OneHandler == channel = "subscribed" => handlers = 1

(***************************************************************************)
(* Stopping is final: nothing that happens during the teardown or after it *)
(* leaves a timer or a client behind, which would take jobs again.         *)
(***************************************************************************)
StoppedIsQuiet == stopped => ~armed /\ ~connected /\ pusher = "none"

(***************************************************************************)
(* The back-off is given up only for a connection: no event of an outage   *)
(* brings it down, so a long outage is not met with quick reconnects.      *)
(***************************************************************************)
BackoffFallsOnConnect ==
  [][backoff' < backoff => pusher = "connecting" /\ pusher' = "connected"]_vars

(***************************************************************************)
(* Once the network stays up, the agent is connected for good and has the  *)
(* answer to its subscription, whatever faults came before: no timer left  *)
(* over from them takes the connection down again.                         *)
(***************************************************************************)
Reconnects ==
  <>[](stopped \/ (connected /\ channel \in {"subscribed", "refused"}))

(***************************************************************************)
(* health.js:5: non-200 means unhealthy.  An agent that answers 200 for as *)
(* long as it runs, then, gets its jobs: one that is connected is          *)
(* subscribed before long.                                                 *)
(***************************************************************************)
HealthyIsSubscribed == connected ~> ~connected \/ channel = "subscribed"
=============================================================================

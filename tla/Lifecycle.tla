----------------------------- MODULE Lifecycle ------------------------------
(***************************************************************************)
(* The life of the agent's process: start with the checks of config.js,    *)
(* the calls to the backend (backend.js), shutdown (index.js), and the     *)
(* service manager that starts it again after a failure but not after an   *)
(* exit with code 0.                                                       *)
(*                                                                         *)
(* A call is one invocation of reportHeartbeat, reportResult or            *)
(* channelAuth.  It waits for the headers of the answer under an abort     *)
(* timer, then, if the code reads a body, for that body with no timer of   *)
(* its own.  Any number of each kind may be under way, each independent of *)
(* the others; Kind bounds them.                                           *)
(*                                                                         *)
(* An answer is "ok", "error" (any other status), "bare410" (a proxy says  *)
(* 410) or "revoked" (410 with error: agent_revoked), which the backend    *)
(* gives once the agent is no longer enrolled and never before.            *)
(***************************************************************************)
EXTENDS Integers

CONSTANTS
  Calls,         \* names for the calls under way
  Kind,          \* the kind of call each name is for
  Environments,  \* the settings the process may be given
  NoInt,         \* a setting that is no integer
  MaxCrashes,    \* bound: failures of a running or starting process
  MaxStarts      \* bound: starts of a stopped agent by hand or by a reboot

Required == {"BACKEND_URL", "REVERB_APP_KEY", "REVERB_HOST",
             "AGENT_ID", "TENANT_ID", "AGENT_TOKEN"}

Environment ==
  [ given      : SUBSET Required,  \* set, and not to the empty string
    reverbPort : Int \cup {NoInt},
    healthPort : Int \cup {NoInt},
    agentId    : Int \cup {NoInt} ]

Kinds == {"heartbeat", "result", "auth"}

Answers == {"ok", "error", "bare410", "revoked"}

ASSUME LifecycleConstants ==
  /\ Kind \in [Calls -> Kinds]
  /\ NoInt \notin Int
  /\ Environments \subseteq Environment
  /\ MaxCrashes \in Nat
  /\ MaxStarts \in Nat

VARIABLES
  env,       \* the environment, the same for every start
  enrolled,  \* the backend knows the agent
  proc,      \* "starting", "up", "crashed" (exit code not 0), "stopped"
  call,      \* "free", "sent", or the answer whose body a call waits for
  crashes,   \* failures so far
  starts,    \* starts by hand so far
  signalled  \* SIGTERM or SIGINT ended the last process

vars == <<env, enrolled, proc, call, crashes, starts, signalled>>

TypeOK ==
  /\ env \in Environments
  /\ enrolled \in BOOLEAN
  /\ proc \in {"starting", "up", "crashed", "stopped"}
  /\ call \in [Calls -> {"free", "sent"} \cup Answers]
  /\ crashes \in Nat
  /\ starts \in Nat
  /\ signalled \in BOOLEAN

Init ==
  /\ env \in Environments
  /\ enrolled = TRUE
  /\ proc = "starting"
  /\ call = [c \in Calls |-> "free"]
  /\ crashes = 0
  /\ starts = 0
  /\ signalled = FALSE

-----------------------------------------------------------------------------
(* required and parseEnvInt for each setting.                              *)
ConfigOk(e) ==
  /\ Required \subseteq e.given
  /\ e.reverbPort \in 1..65535
  /\ e.healthPort \in 1..65535
  /\ e.agentId # NoInt /\ e.agentId >= 1

\* The process ends with everything it was waiting for.
Exit(p) == proc' = p /\ call' = [c \in Calls |-> "free"]

Start ==
  /\ proc = "starting"
  /\ IF ConfigOk(env) THEN proc' = "up" ELSE proc' = "crashed"
  /\ UNCHANGED <<env, enrolled, call, crashes, starts, signalled>>

(* Restart=on-failure and its like.                                        *)
Restart ==
  /\ proc = "crashed"
  /\ proc' = "starting"
  /\ UNCHANGED <<env, enrolled, call, crashes, starts, signalled>>

StartByHand ==
  /\ proc = "stopped"
  /\ starts < MaxStarts
  /\ starts' = starts + 1
  /\ proc' = "starting"
  /\ signalled' = FALSE
  /\ UNCHANGED <<env, enrolled, call, crashes>>

Crash ==
  /\ proc \in {"starting", "up"}
  /\ crashes < MaxCrashes
  /\ crashes' = crashes + 1
  /\ Exit("crashed")
  /\ UNCHANGED <<env, enrolled, starts, signalled>>

(* shutdown runs to process.exit(0) in one piece, so its guard against a   *)
(* second call, and the fire-only-once of signalRevoked, find nothing left *)
(* to guard.                                                               *)
Shutdown == proc = "up" /\ Exit("stopped")

(* SIGTERM and SIGINT; before the handlers are set they kill the process.  *)
Signal ==
  /\ Shutdown \/ (proc = "starting" /\ Exit("stopped"))
  /\ signalled' = TRUE
  /\ UNCHANGED <<env, enrolled, crashes, starts>>

(* Somebody deletes the agent in the backend.                              *)
Revoke ==
  /\ enrolled
  /\ enrolled' = FALSE
  /\ UNCHANGED <<env, proc, call, crashes, starts, signalled>>

-----------------------------------------------------------------------------
\* A step of one call that leaves all else alone.
Becomes(c, state) ==
  /\ call' = [call EXCEPT ![c] = state]
  /\ UNCHANGED <<env, enrolled, proc, crashes, starts, signalled>>

(* fetchWithTimeout: the request is out and the abort timer runs.          *)
Send(c) ==
  /\ proc = "up"
  /\ call[c] = "free"
  /\ Becomes(c, "sent")

\* Seeded fault: a heartbeat does not look at the body of a 410.
ReadsBodyUnlessHeartbeat(k, a) ==
  k # "heartbeat" /\ (a \in {"bare410", "revoked", "error"} \/ (a = "ok" /\ k = "auth"))

(* isRevokedResponse reads the body of every 410; reportResult and         *)
(* channelAuth read the text of an error, channelAuth that of a success.   *)
ReadsBody(k, a) ==
  \/ a \in {"bare410", "revoked"}
  \/ a = "error" /\ k # "heartbeat"
  \/ a = "ok" /\ k = "auth"

(* The headers are in; the abort timer is cleared.                         *)
Answer(c, a) ==
  /\ call[c] = "sent"
  /\ enrolled => a # "revoked"
  /\ ~enrolled => a # "ok"
  /\ Becomes(c, IF ReadsBody(Kind[c], a) THEN a ELSE "free")

\* Seeded fault: an aborted call is left in a state of its own.
AbortUnsettled(c) == call[c] = "sent" /\ Becomes(c, "aborted")

(* The abort timer fires, or the transport fails: the call settles.        *)
Abort(c) ==
  /\ call[c] = "sent"
  /\ Becomes(c, "free")

\* Seeded fault: any 410 counts.
RevokedByStatus(a) == a \in {"bare410", "revoked"}

(* isRevokedResponse, once the body is there.                              *)
IsRevoked(a) == a = "revoked"

(* The body is in: a revoked agent shuts down, any other call settles.     *)
ReadBody(c) ==
  /\ call[c] \in Answers
  /\ IF IsRevoked(call[c])
       THEN Shutdown /\ UNCHANGED <<env, enrolled, crashes, starts, signalled>>
       ELSE Becomes(c, "free")

(* The body breaks off; the failed read is caught and counts as not        *)
(* revoked.  No timer of the code ends the wait for a body: it may last.   *)
LoseBody(c) ==
  /\ call[c] \in Answers
  /\ Becomes(c, "free")

Next ==
  \/ Start
  \/ Restart
  \/ StartByHand
  \/ Crash
  \/ Signal
  \/ Revoke
  \/ \E c \in Calls :
       \/ Send(c)
       \/ \E a \in Answers : Answer(c, a)
       \/ Abort(c)
       \/ ReadBody(c)
       \/ LoseBody(c)

Spec == Init /\ [][Next]_vars

(***************************************************************************)
(* Fairness of the code and of the machine.  The process starts and the    *)
(* service manager restarts it; the abort timer fires; setInterval sends   *)
(* heartbeat after heartbeat, whatever else is under way.                  *)
(***************************************************************************)
Heartbeats == {c \in Calls : Kind[c] = "heartbeat"}

Fairness ==
  /\ WF_vars(Start)
  /\ WF_vars(Restart)
  /\ \A c \in Calls : WF_vars(Abort(c))
  /\ WF_vars(\E c \in Heartbeats : Send(c))

(* Assumed of the network, for heartbeats only: a body does not trickle    *)
(* for ever but arrives or breaks off, and of the heartbeats that are sent *)
(* again and again one is answered whole.  The bodies of reports and       *)
(* authorizations may be waited for without end.                           *)
Reachable ==
  /\ \A c \in Heartbeats : WF_vars(LoseBody(c))
  /\ SF_vars(\E c \in Heartbeats : Answer(c, "revoked"))
  /\ \A c \in Heartbeats : SF_vars(call[c] = "revoked" /\ ReadBody(c))

FairSpec == Spec /\ Fairness

ReachableSpec == FairSpec /\ Reachable

-----------------------------------------------------------------------------
(***************************************************************************)
(* backend.js:43.  The agent stops for good, with the exit code that keeps *)
(* it from being restarted, only when it was told to or was deleted: not   *)
(* because of an error, a proxy's 410 or a body that breaks off.           *)
(***************************************************************************)
StopsOnPurpose == proc = "stopped" => signalled \/ ~enrolled

(***************************************************************************)
(* backend.js:11.  A deleted agent that runs shuts down instead of         *)
(* retrying for ever, however many calls, crashes and lost answers come    *)
(* between, and with reports and authorizations that hang for good: some   *)
(* heartbeat is told and believed.                                         *)
(***************************************************************************)
RevokedAgentStops == ~enrolled /\ ConfigOk(env) ~> proc = "stopped"
=============================================================================

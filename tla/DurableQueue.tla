---------------------------- MODULE DurableQueue ----------------------------
(***************************************************************************)
(* What the job buffer promises to the rest of the agent, with no files,   *)
(* tables, flows or crashes: a durable queue.  An accepted job is in the   *)
(* queue, and stays there until it is done; the queue may hold jobs that   *)
(* are done already (they may be printed again) and jobs that were offered *)
(* but not accepted; nothing else ever enters it.                          *)
(***************************************************************************)
CONSTANT Jobs

VARIABLES
  offered,   \* jobs handed to the agent
  accepted,  \* jobs the agent answers for
  queue,     \* jobs that survive a crash
  done       \* jobs that were printed or given up

queueVars == <<offered, accepted, queue, done>>

Init ==
  /\ offered = {}
  /\ accepted = {}
  /\ queue = {}
  /\ done = {}

\* The queue is brought up to date: only what is done may leave it, and only
\* what was offered may enter it.
Update ==
  /\ queue \ queue' \subseteq done'
  /\ queue' \ queue \subseteq offered'

Accept(j) ==
  /\ offered' = offered \cup {j}
  /\ accepted' = accepted \cup {j}
  /\ done' = done
  /\ Update
  /\ j \in queue'

Refuse(j) ==
  /\ offered' = offered \cup {j}
  /\ UNCHANGED <<accepted, queue, done>>

Complete(j) ==
  /\ j \in offered
  /\ done' = done \cup {j}
  /\ Update
  /\ UNCHANGED <<offered, accepted>>

Flush ==
  /\ Update
  /\ UNCHANGED <<offered, accepted, done>>

Next ==
  \/ \E j \in Jobs : Accept(j) \/ Refuse(j) \/ Complete(j)
  \/ Flush

Spec == Init /\ [][Next]_queueVars

\* The reason for having a queue.
NothingForgotten == accepted \subseteq queue \cup done
=============================================================================

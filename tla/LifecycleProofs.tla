-------------------------- MODULE LifecycleProofs --------------------------
(* Proofs about Lifecycle for any calls under way, any settings and any    *)
(* number of crashes and starts.                                           *)
EXTENDS Lifecycle, TLAPS

(***************************************************************************)
(* Why the agent stops only on purpose: an answer that says revoked, whose *)
(* body a call waits for, was given after the agent was deleted, and       *)
(* deletion is final.  What the backend promises of `revoked' is used once *)
(* (Answer) and carried by the call until the body is read.                *)
(***************************************************************************)
RevokedIsTrue == \A c \in Calls : call[c] = "revoked" => ~enrolled

IInv == TypeOK /\ RevokedIsTrue /\ StopsOnPurpose

LEMMA InitInv == Init => IInv
  <1> SUFFICES ASSUME Init PROVE IInv
    OBVIOUS
  <1>1. enrolled \in BOOLEAN /\ signalled \in BOOLEAN
    BY Zenon DEF Init
  <1> QED
    BY <1>1 DEF Init, IInv, TypeOK, RevokedIsTrue, StopsOnPurpose

(* A process that ends takes its calls along.                              *)
LEMMA ExitKeeps ==
  ASSUME IInv, NEW p \in {"crashed", "stopped"}, Exit(p), UNCHANGED <<env, enrolled>>,
         starts' \in Nat, crashes' \in Nat, signalled' \in BOOLEAN,
         p = "stopped" => signalled' \/ ~enrolled
  PROVE  IInv'
  BY DEF IInv, TypeOK, RevokedIsTrue, StopsOnPurpose, Exit

(* A step of one call: only the answer it takes up matters.                *)
LEMMA BecomesKeeps ==
  ASSUME IInv, NEW c \in Calls, NEW s \in {"free", "sent"} \cup Answers,
         Becomes(c, s), s = "revoked" => ~enrolled
  PROVE  IInv'
  BY DEF IInv, TypeOK, RevokedIsTrue, StopsOnPurpose, Becomes

(* Steps that leave the calls alone and end no process.                    *)
LEMMA SupervisorKeeps ==
  ASSUME IInv, Start \/ Restart \/ StartByHand
  PROVE  IInv'
  <1>1. signalled' \in BOOLEAN
    <2>1. CASE StartByHand
      BY <2>1, Zenon DEF StartByHand
    <2>2. CASE Start \/ Restart
      BY <2>2 DEF Start, Restart, IInv, TypeOK
    <2> QED
      BY <2>1, <2>2
  <1>2. TypeOK'
    BY <1>1 DEF IInv, TypeOK, Start, Restart, StartByHand
  <1>3. RevokedIsTrue'
    BY DEF IInv, RevokedIsTrue, Start, Restart, StartByHand
  <1>4. StopsOnPurpose'
    BY DEF StopsOnPurpose, Start, Restart, StartByHand
  <1> QED
    BY <1>2, <1>3, <1>4 DEF IInv

LEMMA RevokeKeeps ==
  ASSUME IInv, Revoke
  PROVE  IInv'
  <1>1. enrolled' \in BOOLEAN
    BY Zenon DEF Revoke
  <1>2. ~enrolled'
    BY DEF Revoke
  <1> QED
    BY <1>1, <1>2 DEF IInv, TypeOK, RevokedIsTrue, StopsOnPurpose, Revoke

(* The one step that stops the process because of an answer.               *)
LEMMA ReadBodyKeeps ==
  ASSUME IInv, NEW c \in Calls, ReadBody(c)
  PROVE  IInv'
  <1>1. CASE IsRevoked(call[c])
    <2>1. ~enrolled
      BY <1>1 DEF IsRevoked, IInv, RevokedIsTrue
    <2>2. Exit("stopped") /\ UNCHANGED <<env, enrolled, crashes, starts, signalled>>
      BY <1>1 DEF ReadBody, Shutdown
    <2> QED
      BY <2>1, <2>2, ExitKeeps DEF IInv, TypeOK
  <1>2. CASE ~IsRevoked(call[c])
    BY <1>2, BecomesKeeps DEF ReadBody
  <1> QED
    BY <1>1, <1>2

LEMMA StepInv == IInv /\ [Next]_vars => IInv'
  <1> SUFFICES ASSUME IInv, [Next]_vars PROVE IInv'
    OBVIOUS
  <1>1. CASE Start \/ Restart \/ StartByHand
    BY <1>1, SupervisorKeeps
  <1>2. CASE Crash
    BY <1>2, ExitKeeps DEF Crash, IInv, TypeOK
  <1>3. CASE Signal
    <2>1. signalled' \in BOOLEAN
      BY <1>3, Zenon DEF Signal
    <2>2. signalled' /\ Exit("stopped")
      BY <1>3 DEF Signal, Shutdown
    <2> QED
      BY <1>3, <2>1, <2>2, ExitKeeps DEF Signal, IInv, TypeOK
  <1>4. CASE Revoke
    BY <1>4, RevokeKeeps
  <1>5. CASE \E c \in Calls : Send(c)
    BY <1>5, BecomesKeeps DEF Send
  <1>6. ASSUME NEW c \in Calls, NEW a \in Answers, Answer(c, a)
        PROVE  IInv'
    <2>1. a = "revoked" => ~enrolled
      BY <1>6 DEF Answer
    <2> QED
      BY <1>6, <2>1, BecomesKeeps DEF Answer
  <1>7. CASE \E c \in Calls : Abort(c) \/ LoseBody(c)
    BY <1>7, BecomesKeeps DEF Abort, LoseBody
  <1>8. CASE \E c \in Calls : ReadBody(c)
    BY <1>8, ReadBodyKeeps
  <1>9. CASE UNCHANGED vars
    BY <1>9 DEF vars, IInv, TypeOK, RevokedIsTrue, StopsOnPurpose
  <1> QED
    BY <1>1, <1>2, <1>3, <1>4, <1>5, <1>6, <1>7, <1>8, <1>9 DEF Next

(* The inductive invariant holds always.                                   *)
THEOREM Invariance == Spec => []IInv
  BY InitInv, StepInv, PTL DEF Spec

(* backend.js, config.js, index.js:79.  Type correctness.                  *)
THEOREM TypeCorrect == Spec => []TypeOK
  <1>1. IInv => TypeOK
    BY DEF IInv
  <1> QED
    BY <1>1, Invariance, PTL

(* backend.js:43.  The agent stops for good only if it was told to or was  *)
(* deleted, whatever answers arrive, in whatever order they are read.      *)
THEOREM OnlyOnPurpose == Spec => []StopsOnPurpose
  <1>1. IInv => StopsOnPurpose
    BY DEF IInv
  <1> QED
    BY <1>1, Invariance, PTL

=============================================================================

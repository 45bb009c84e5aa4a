--------------------------- MODULE PrinterProofs ---------------------------
(* Proofs about Printer for any number of concurrent calls and chunks.     *)
EXTENDS Printer, TLAPS

(***************************************************************************)
(* TimerOfPhase is not inductive: the socket of a settled call must not    *)
(* come back to a phase that arms a timer, which is what destroying it on  *)
(* an error is for.  The invariant is the life of a call: the only         *)
(* combinations of promise, flag, socket and timer it goes through.        *)
(***************************************************************************)
Life ==
  { <<"none",     FALSE, "none",       "none">>,
    <<"pending",  FALSE, "connecting", "connect">>,
    <<"pending",  FALSE, "writing",    "write">>,
    <<"rejected", FALSE, "none",       "connect">>,
    <<"resolved", TRUE,  "ended",      "none">>,
    <<"resolved", TRUE,  "closed",     "none">>,
    <<"rejected", TRUE,  "closed",     "none">> }

InLife(c) == <<promise[c], settled[c], socket[c], timer[c]>> \in Life

IInv == TypeOK /\ \A c \in Calls : InLife(c)

LEMMA LifeTimers == IInv => TimerOfPhase
  BY DEF IInv, InLife, Life, TimerOfPhase

(* It is enough that the call that moves ends up in its life again.        *)
LEMMA OthersStay ==
  ASSUME IInv, NEW c \in Calls, TypeOK', InLife(c)',
         \A d \in Calls \ {c} : UNCHANGED <<promise[d], settled[d], socket[d], timer[d]>>
  PROVE  IInv'
  BY DEF IInv, InLife

LEMMA SettleKeeps ==
  ASSUME IInv, NEW c \in Calls, NEW outcome \in {"resolved", "rejected"},
         NEW s \in {"none", "connecting", "writing", "ended", "closed"},
         Settle(c, outcome, s), UNCHANGED taken,
         \/ promise[c] = "pending" /\ outcome = "rejected"
         \/ promise[c] = "pending" /\ outcome = "resolved" /\ s \in {"ended", "closed"}
         \/ promise[c] = "rejected" /\ ~settled[c] /\ outcome = "rejected"
         \/ promise[c] = "resolved" /\ s = "closed"
  PROVE  IInv'
  <1>1. TypeOK'
    BY DEF IInv, TypeOK, Settle
  <1>2. \A d \in Calls \ {c} : UNCHANGED <<promise[d], settled[d], socket[d], timer[d]>>
    BY DEF IInv, TypeOK, Settle
  <1>3. CASE promise[c] = "pending"
    <2>0. ~settled[c]
      BY <1>3 DEF IInv, InLife, Life
    <2>1. /\ promise'[c] = outcome
          /\ settled'[c] = TRUE
          /\ timer'[c] = "none"
          /\ socket'[c] = IF outcome = "rejected" THEN "closed" ELSE s
      BY <1>3, <2>0 DEF IInv, TypeOK, Settle
    <2>2. InLife(c)'
      BY <1>3, <2>1 DEF InLife, Life
    <2> QED
      BY <1>1, <1>2, <2>2, OthersStay
  <1>4. CASE promise[c] = "resolved" /\ s = "closed"
    <2>0. settled[c] = TRUE /\ timer[c] = "none"
      BY <1>4 DEF IInv, InLife, Life
    <2>1. /\ promise'[c] = "resolved" /\ settled'[c] = TRUE
          /\ timer'[c] = "none" /\ socket'[c] = "closed"
      BY <1>4, <2>0 DEF IInv, TypeOK, Settle
    <2>3. InLife(c)'
      BY <2>1 DEF InLife, Life
    <2> QED
      BY <1>1, <1>2, <2>3, OthersStay
  <1>5. CASE promise[c] = "rejected" /\ ~settled[c] /\ outcome = "rejected"
    <2>1. /\ promise'[c] = "rejected" /\ settled'[c] = TRUE
          /\ timer'[c] = "none" /\ socket'[c] = "closed"
      BY <1>5 DEF IInv, TypeOK, Settle
    <2>2. InLife(c)'
      BY <2>1 DEF InLife, Life
    <2> QED
      BY <1>1, <1>2, <2>2, OthersStay
  <1> QED
    BY <1>3, <1>4, <1>5

LEMMA StepInv ==
  ASSUME IInv, NEW c \in Calls, Step(c)
  PROVE  IInv'
  <1> USE DEF IInv, TypeOK
  <1>1. CASE SendToPrinter(c)
    <2>1. settled[c] = FALSE /\ socket[c] = "none"
      BY <1>1 DEF SendToPrinter, InLife, Life
    <2>2. CASE c \in BadAddress
      <3>1. /\ promise'[c] = "rejected" /\ settled'[c] = FALSE
            /\ socket'[c] = "none" /\ timer'[c] = "connect"
        BY <1>1, <2>1, <2>2 DEF SendToPrinter
      <3>2. InLife(c)'
        BY <3>1 DEF InLife, Life
      <3> QED
        BY <1>1, <2>2, <3>2, OthersStay DEF SendToPrinter
    <2>3. CASE c \notin BadAddress
      <3>1. /\ promise'[c] = "pending" /\ settled'[c] = FALSE
            /\ socket'[c] = "connecting" /\ timer'[c] = "connect"
        BY <1>1, <2>1, <2>3 DEF SendToPrinter
      <3>2. InLife(c)'
        BY <3>1 DEF InLife, Life
      <3> QED
        BY <1>1, <2>3, <3>2, OthersStay DEF SendToPrinter
    <2> QED
      BY <2>2, <2>3
  <1>2. CASE ConnectTimeout(c)
    <2>1. /\ socket[c] \in {"none", "connecting"}
          /\ \/ promise[c] = "pending"
             \/ promise[c] = "rejected" /\ ~settled[c]
      BY <1>2 DEF ConnectTimeout, InLife, Life
    <2> QED
      BY <1>2, <2>1, SettleKeeps DEF ConnectTimeout
  <1>3. CASE Connected(c)
    <2>1. promise[c] = "pending" /\ settled[c] = FALSE
      BY <1>3 DEF Connected, InLife, Life
    <2>2. /\ promise'[c] = "pending" /\ settled'[c] = FALSE
          /\ socket'[c] = "writing" /\ timer'[c] = "write"
      BY <1>3, <2>1 DEF Connected
    <2>3. InLife(c)'
      BY <2>2 DEF InLife, Life
    <2> QED
      BY <1>3, <2>3, OthersStay DEF Connected
  <1>4. CASE WriteTimeout(c)
    <2>1. promise[c] = "pending" /\ socket[c] = "writing"
      BY <1>4 DEF WriteTimeout, InLife, Life
    <2> QED
      BY <1>4, <2>1, SettleKeeps DEF WriteTimeout
  <1>5. CASE Take(c)
    BY <1>5, PrinterConstants DEF Take, InLife, PrinterConstants
  <1>6. CASE Finish(c)
    <2>1. promise[c] = "pending"
      BY <1>6 DEF Finish, InLife, Life
    <2> QED
      BY <1>6, <2>1, SettleKeeps DEF Finish
  <1>7. CASE SocketError(c)
    <2>1. promise[c] = IF socket[c] = "ended" THEN "resolved" ELSE "pending"
      BY <1>7 DEF SocketError, InLife, Life
    <2> QED
      BY <1>7, <2>1, SettleKeeps DEF SocketError
  <1>8. CASE PrinterCloses(c)
    <2>1. promise[c] = "resolved" /\ settled[c] = TRUE /\ timer[c] = "none"
      BY <1>8 DEF PrinterCloses, InLife, Life
    <2>2. /\ promise'[c] = "resolved" /\ settled'[c] = TRUE
          /\ timer'[c] = "none" /\ socket'[c] = "closed"
      BY <1>8, <2>1 DEF PrinterCloses
    <2>3. InLife(c)'
      BY <2>2 DEF InLife, Life
    <2> QED
      BY <1>8, <2>3, OthersStay DEF PrinterCloses
  <1> QED
    BY <1>1, <1>2, <1>3, <1>4, <1>5, <1>6, <1>7, <1>8 DEF Step

THEOREM Invariance == Spec => []IInv
  <1>1. Init => IInv
    BY PrinterConstants DEF Init, IInv, TypeOK, InLife, Life, PrinterConstants
  <1>2. IInv /\ [Next]_vars => IInv'
    <2>1. CASE UNCHANGED vars
      BY <2>1 DEF vars, IInv, TypeOK, InLife
    <2> QED
      BY <2>1, StepInv DEF Next
  <1> QED
    BY <1>1, <1>2, PTL DEF Spec

(***************************************************************************)
(* No call is ever left without the timer that would settle it, and no     *)
(* settled call keeps one.                                                 *)
(***************************************************************************)
THEOREM TimersFollowPhases == Spec => []TimerOfPhase
  BY LifeTimers, Invariance, PTL

(***************************************************************************)
(* A rejected call is over: its socket is destroyed and sends nothing, so  *)
(* a retry of the job cannot overlap with late bytes of this attempt.      *)
(***************************************************************************)
THEOREM RejectionIsFinal == Spec => RejectedSendsNothing
  <1>1. IInv /\ [Next]_vars =>
          [\A c \in Calls : promise[c] = "rejected" => taken'[c] = taken[c]]_vars
    <2> SUFFICES ASSUME IInv, Next, NEW c \in Calls, promise[c] = "rejected"
                 PROVE  taken'[c] = taken[c]
      OBVIOUS
    <2>1. socket[c] \in {"none", "closed"}
      BY DEF IInv, InLife, Life
    <2>2. PICK d \in Calls : Step(d)
      BY DEF Next
    <2>3. CASE Take(d)
      BY <2>1, <2>3 DEF Take, IInv, TypeOK
    <2> QED
      BY <2>2, <2>3 DEF Step, SendToPrinter, ConnectTimeout, Connected, WriteTimeout,
                        Finish, SocketError, PrinterCloses
  <1> QED
    BY <1>1, Invariance, PTL DEF Spec, RejectedSendsNothing
-----------------------------------------------------------------------------
(* A step of a call settles it, hands a chunk over, starts it, or changes  *)
(* nothing that its caller or the network can see.                         *)
LEMMA SettleMaps ==
  ASSUME IInv, NEW c \in Calls, NEW outcome \in {"resolved", "rejected"}, NEW s,
         Settle(c, outcome, s), UNCHANGED taken
  PROVE  Promise!Settle(c) \/ UNCHANGED Promise!promiseVars
  <1>1. CASE promise[c] = "pending" /\ ~settled[c]
    BY <1>1 DEF Settle, Promise!Settle, IInv, TypeOK
  <1>2. CASE settled[c]
    BY <1>2 DEF Settle, Promise!promiseVars
  <1>3. CASE promise[c] # "pending" /\ ~settled[c]
    <2>1. promise' = promise
      BY <1>3 DEF Settle, IInv, TypeOK
    <2> QED
      BY <2>1 DEF Promise!promiseVars
  <1> QED
    BY <1>1, <1>2, <1>3

LEMMA StepMaps ==
  ASSUME IInv, NEW c \in Calls, Step(c)
  PROVE  Promise!Next \/ UNCHANGED Promise!promiseVars
  <1>1. CASE SendToPrinter(c)
    <2>1. Promise!Call(c)
      BY <1>1 DEF SendToPrinter, Promise!Call
    <2> QED
      BY <2>1 DEF Promise!Next
  <1>2. CASE Take(c)
    <2>1. promise[c] = "pending"
      BY <1>2 DEF Take, IInv, InLife, Life
    <2>2. Promise!HandOver(c)
      BY <1>2, <2>1 DEF Take, Promise!HandOver
    <2> QED
      BY <2>2 DEF Promise!Next
  <1>3. CASE ConnectTimeout(c) \/ WriteTimeout(c) \/ Finish(c) \/ SocketError(c)
    <2>1. PICK outcome \in {"resolved", "rejected"}, s \in {socket[c], "ended", "closed"} :
            Settle(c, outcome, s) /\ UNCHANGED taken
      BY <1>3 DEF ConnectTimeout, WriteTimeout, Finish, SocketError
    <2> QED
      BY <2>1, SettleMaps DEF Promise!Next
  <1>4. CASE Connected(c) \/ PrinterCloses(c)
    BY <1>4 DEF Connected, PrinterCloses, Promise!promiseVars
  <1> QED
    BY <1>1, <1>2, <1>3, <1>4 DEF Step

(***************************************************************************)
(* sendToPrinter keeps its promise to the job path, for any number of      *)
(* calls: each is open once, sends only while it is open, and no event of  *)
(* its socket changes anything once it has settled.                        *)
(***************************************************************************)
THEOREM PrinterKeepsPromise == Spec => ImplementsPromise
  <1>1. Init => Promise!Init
    BY DEF Init, Promise!Init
  <1>2. IInv /\ [Next]_vars => [Promise!Next]_(Promise!promiseVars)
    <2> SUFFICES ASSUME IInv, [Next]_vars
                 PROVE  Promise!Next \/ UNCHANGED Promise!promiseVars
      OBVIOUS
    <2>1. CASE UNCHANGED vars
      BY <2>1 DEF vars, Promise!promiseVars
    <2>2. CASE Next
      BY <2>2, StepMaps DEF Next
    <2> QED
      BY <2>1, <2>2
  <1> QED
    BY <1>1, <1>2, Invariance, PTL DEF Spec, ImplementsPromise, Promise!Spec
=============================================================================

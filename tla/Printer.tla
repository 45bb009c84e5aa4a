------------------------------ MODULE Printer ------------------------------
(***************************************************************************)
(* sendToPrinter of printer.js: a promise, a socket and two timers, raced  *)
(* by the events of the socket.  Every call has a socket of its own, and   *)
(* any number of calls may be under way, to one printer or to several.     *)
(*                                                                         *)
(* net.Socket and the printer are external.  What the model assumes of     *)
(* them: a destroyed socket delivers no more events and takes no more      *)
(* bytes; the callback given to socket.end is called once, when the last   *)
(* byte has been handed over or when the socket fails before that, and in  *)
(* the second case it is called before the event `error' is emitted.       *)
(***************************************************************************)
EXTENDS Naturals

CONSTANTS
  Calls,      \* calls of sendToPrinter
  BadAddress, \* those whose port or host makes socket.connect throw
  Chunks      \* in how many writes the kernel takes a ticket

ASSUME PrinterConstants == BadAddress \subseteq Calls /\ Chunks \in Nat \ {0}

VARIABLES
  promise, \* what the caller sees
  settled, \* the flag of settle
  socket,  \* "connecting"; "writing": connected, end() called; "ended":
           \* all handed over, our side closed; "closed"
  timer,   \* the timer that is armed: "connect", "write" or "none"
  taken    \* how many chunks the kernel has taken

vars == <<promise, settled, socket, timer, taken>>

TypeOK ==
  /\ promise \in [Calls -> {"none", "pending", "resolved", "rejected"}]
  /\ settled \in [Calls -> BOOLEAN]
  /\ socket  \in [Calls -> {"none", "connecting", "writing", "ended", "closed"}]
  /\ timer   \in [Calls -> {"none", "connect", "write"}]
  /\ taken   \in [Calls -> 0..Chunks]

Init ==
  /\ promise = [c \in Calls |-> "none"]
  /\ settled = [c \in Calls |-> FALSE]
  /\ socket  = [c \in Calls |-> "none"]
  /\ timer   = [c \in Calls |-> "none"]
  /\ taken   = [c \in Calls |-> 0]

-----------------------------------------------------------------------------
\* Seeded fault: settle(err) does not destroy the socket.
SettleKeepingSocket(c, outcome, s) ==
  /\ socket' = [socket EXCEPT ![c] = s]
  /\ IF settled[c] THEN UNCHANGED <<promise, settled, timer>>
     ELSE /\ settled' = [settled EXCEPT ![c] = TRUE]
          /\ timer'   = [timer EXCEPT ![c] = "none"]
          /\ promise' = [promise EXCEPT ![c] = IF @ = "pending" THEN outcome ELSE @]

(* settle, in an event that leaves the socket in state s: the first call   *)
(* decides, clears both timers and, on an error, destroys the socket.      *)
Settle(c, outcome, s) ==
  IF settled[c]
  THEN /\ socket' = [socket EXCEPT ![c] = s]
       /\ UNCHANGED <<promise, settled, timer>>
  ELSE /\ socket'  = [socket EXCEPT ![c] = IF outcome = "rejected" THEN "closed" ELSE s]
       /\ settled' = [settled EXCEPT ![c] = TRUE]
       /\ timer'   = [timer EXCEPT ![c] = "none"]
       /\ promise' = [promise EXCEPT ![c] = IF @ = "pending" THEN outcome ELSE @]

(* The connect timer is armed before socket.connect.  When that throws,    *)
(* the executor's exception rejects the promise and nobody clears it.      *)
SendToPrinter(c) ==
  /\ promise[c] = "none"
  /\ timer' = [timer EXCEPT ![c] = "connect"]
  /\ \/ /\ c \in BadAddress
        /\ promise' = [promise EXCEPT ![c] = "rejected"]
        /\ UNCHANGED socket
     \/ /\ c \notin BadAddress
        /\ promise' = [promise EXCEPT ![c] = "pending"]
        /\ socket'  = [socket EXCEPT ![c] = "connecting"]
  /\ UNCHANGED <<settled, taken>>

ConnectTimeout(c) ==
  /\ timer[c] = "connect"
  /\ Settle(c, "rejected", socket[c])
  /\ UNCHANGED taken

\* Seeded fault: no timer guards the write.
ConnectedUnguarded(c) ==
  /\ socket[c] = "connecting"
  /\ timer'  = [timer EXCEPT ![c] = "none"]
  /\ socket' = [socket EXCEPT ![c] = "writing"]
  /\ UNCHANGED <<promise, settled, taken>>

(* The callback of connect: one timer goes, the other is armed, and the    *)
(* ticket is handed to the socket together with the end of the stream.     *)
Connected(c) ==
  /\ socket[c] = "connecting"
  /\ timer'  = [timer EXCEPT ![c] = "write"]
  /\ socket' = [socket EXCEPT ![c] = "writing"]
  /\ UNCHANGED <<promise, settled, taken>>

WriteTimeout(c) ==
  /\ timer[c] = "write"
  /\ Settle(c, "rejected", socket[c])
  /\ UNCHANGED taken

(* The kernel takes bytes as fast as the printer makes room for them.      *)
Take(c) ==
  /\ socket[c] = "writing"
  /\ taken[c] < Chunks
  /\ taken' = [taken EXCEPT ![c] = @ + 1]
  /\ UNCHANGED <<promise, settled, socket, timer>>

(* Everything is handed over: the callback of end settles.                 *)
Finish(c) ==
  /\ socket[c] = "writing"
  /\ taken[c] = Chunks
  /\ Settle(c, "resolved", "ended")
  /\ UNCHANGED taken

(* The socket fails.  Before the connection there is only the event        *)
(* `error'.  While the ticket is being written the callback of end comes   *)
(* first, with an error that `() => settle(null)' does not look at, and    *)
(* the event `error' then finds the promise settled.                       *)
SocketError(c) ==
  /\ \/ socket[c] = "connecting" /\ Settle(c, "rejected", "closed")
     \/ socket[c] = "writing" /\ Settle(c, "resolved", "closed")
     \/ socket[c] = "ended" /\ Settle(c, "rejected", "closed")
  /\ UNCHANGED taken

(* The printer closes its side of a connection that we have ended.         *)
PrinterCloses(c) ==
  /\ socket[c] = "ended"
  /\ socket' = [socket EXCEPT ![c] = "closed"]
  /\ UNCHANGED <<promise, settled, timer, taken>>

Step(c) ==
  \/ SendToPrinter(c)
  \/ ConnectTimeout(c)
  \/ Connected(c)
  \/ WriteTimeout(c)
  \/ Take(c)
  \/ Finish(c)
  \/ SocketError(c)
  \/ PrinterCloses(c)

Next == \E c \in Calls : Step(c)

Spec == Init /\ [][Next]_vars

(* Timers fire.  Nothing is assumed of the network or the printer.         *)
FairSpec ==
  /\ Spec
  /\ \A c \in Calls : WF_vars(ConnectTimeout(c)) /\ WF_vars(WriteTimeout(c))

-----------------------------------------------------------------------------
(***************************************************************************)
(* A pending promise has exactly the timer of the phase its socket is in,  *)
(* and a settled call has none: no phase goes unwatched, and no timer of a *)
(* finished call fires on the caller.                                      *)
(***************************************************************************)
TimerOfPhase ==
  \A c \in Calls :
    /\ promise[c] = "pending" =>
         timer[c] = IF socket[c] = "connecting" THEN "connect" ELSE "write"
    /\ settled[c] => timer[c] = "none"

(***************************************************************************)
(* A call that was rejected sends nothing afterwards, however late the     *)
(* connection is made: the job of a rejected call is retried, and late     *)
(* bytes would print it twice.                                             *)
(***************************************************************************)
RejectedSendsNothing ==
  [][\A c \in Calls : promise[c] = "rejected" => taken'[c] = taken[c]]_vars

(***************************************************************************)
(* The abstract view.  The socket, its two timers and the flag look to the *)
(* caller like an attempt that is open, settles once, and sends nothing    *)
(* before or after: however the events of the socket race the timers, and  *)
(* whatever other calls are under way, no byte of an attempt follows its   *)
(* end, be it success or failure.                                          *)
(***************************************************************************)
Promise == INSTANCE PrintPromise WITH outcome <- promise, handed <- taken

ImplementsPromise == Promise!Spec

(***************************************************************************)
(* Every call settles, whatever the printer does: the retry loop and       *)
(* handleJob wait for it without a limit of their own.                     *)
(***************************************************************************)
EventuallySettles ==
  \A c \in Calls : promise[c] = "pending" ~> promise[c] \in {"resolved", "rejected"}

(***************************************************************************)
(* printer.js:5: resolves on success or rejects with an error.  So where   *)
(* the promise resolves, the whole ticket was handed over.                 *)
(***************************************************************************)
ResolvedMeansHandedOver ==
  \A c \in Calls : promise[c] = "resolved" => taken[c] = Chunks
=============================================================================

----------------------------- MODULE PrintAgent -----------------------------
(***************************************************************************)
(* The job path of the agent: index.js (handleJob, retryBufferedJobs, the  *)
(* start and the shutdown of the process) over buffer.js, worker.js and    *)
(* the result reports of backend.js.                                       *)
(*                                                                         *)
(* Node runs one continuation at a time, so an action is the code between  *)
(* two awaits: whatever a flow does up to its next `await' is one step.    *)
(* Flows interleave only at awaits.  A flow is one invocation of handleJob *)
(* ("live") or of retryBufferedJobs ("retry"); Slots bounds how many are   *)
(* in flight at once.  A retry flow holds the part of dueJobs() or of      *)
(* abandonedJobs() it has yet to visit, read once and never read again.    *)
(*                                                                         *)
(* The printer is seen through the promise of sendToPrinter, which         *)
(* resolves or rejects, and the backend through the promise of             *)
(* reportResult, which always resolves.                                    *)
(*                                                                         *)
(* Assumed of the machine: Date.now() does not step back by more than the  *)
(* time that has really passed, so a row never grows younger.              *)
(***************************************************************************)
EXTENDS JobTable, FiniteSets

CONSTANTS
  Slots,          \* names for the flows in flight
  NoJob,          \* the job of a slot that runs no flow
  Printable,      \* the jobs processJob finds nothing wrong with
  WriteFaults,    \* how writeFileSync may fail: "refused", "truncated"
  PrintOutcomes,  \* how sendToPrinter may settle: "sent", "failed"
  MaxDeliveries,  \* bound: how often one job id is handed to handleJob
  MaxStops        \* bound: how often the process crashes or is shut down

ASSUME AgentConstants ==
  /\ IsFiniteSet(Slots)
  /\ NoJob \notin Jobs
  /\ Printable \subseteq Jobs
  /\ WriteFaults \subseteq {"refused", "truncated"}
  /\ PrintOutcomes \subseteq {"sent", "failed"}
  /\ MaxDeliveries \in Nat
  /\ MaxStops \in Nat

VARIABLES
  mode,       \* the process: "up", "crashed" (exit code not 0), "stopped"
  mem,        \* the in-memory database of sql.js
  disk,       \* agent-buffer.db
  behind,     \* the last write of this process failed
  flow,       \* the flow each slot runs
  deliveries, \* how often each job was handed to handleJob
  stops,      \* crashes and shutdowns so far
  owed,       \* jobs handleJob accepted: enqueue returned, so it went on
  waiting,    \* those not printed or given up since they were last accepted
  sent,       \* jobs a sendToPrinter resolved for
  prints,     \* how often it did
  gaveUp      \* jobs whose report of abandonment resolved

table  == <<mem, disk, behind>>
ledger == <<owed, waiting, sent, prints, gaveUp>>
bounds == <<deliveries, stops>>
vars   == <<mode, mem, disk, behind, flow, deliveries, stops,
            owed, waiting, sent, prints, gaveUp>>

Modes == {"up", "crashed", "stopped"}

Flow ==
  [ kind : {"free", "live", "retry"},
    pc   : {"idle", "printing", "reportOk", "reportFail", "reportAbandoned"},
    job  : Jobs \cup {NoJob},
    todo : SUBSET Jobs ]

Free == [kind |-> "free", pc |-> "idle", job |-> NoJob, todo |-> {}]

TypeOK ==
  /\ mode \in Modes
  /\ mem \in Table
  /\ disk \in Table
  /\ behind \in BOOLEAN
  /\ flow \in [Slots -> Flow]
  /\ deliveries \in [Jobs -> Nat]
  /\ stops \in Nat
  /\ owed \subseteq Jobs
  /\ waiting \subseteq owed
  /\ sent \subseteq Jobs
  /\ prints \in [Jobs -> Nat]
  /\ gaveUp \subseteq Jobs

Init ==
  /\ mode = "up"
  /\ mem = EmptyTable
  /\ disk = EmptyTable
  /\ behind = FALSE
  /\ flow = [s \in Slots |-> Free]
  /\ deliveries = [j \in Jobs |-> 0]
  /\ stops = 0
  /\ owed = {}
  /\ waiting = {}
  /\ sent = {}
  /\ prints = [j \in Jobs |-> 0]
  /\ gaveUp = {}

-----------------------------------------------------------------------------
(* Writing to disk.  _persist exports the whole table and overwrites the   *)
(* file in place.  A write that fails throws, and leaves the file as it    *)
(* was when the open is refused, empty when the write fails after the open *)
(* has truncated it.                                                       *)
WriteOutcomes == {"written"} \cup WriteFaults

\* Seeded fault: the table is exported before the change is made to it.
PersistStale(t, w) ==
  /\ disk' = IF w = "written" THEN mem ELSE IF w = "refused" THEN disk ELSE EmptyTable
  /\ behind' = (w # "written")

Persist(t, w) ==
  /\ disk' = IF w = "written" THEN t ELSE IF w = "refused" THEN disk ELSE EmptyTable
  /\ behind' = (w # "written")

(* processJob up to its first await: a job it finds fault with goes        *)
(* straight to the failure report, any other to the printer.               *)
Attempt(kind, j, todo) ==
  [ kind |-> kind, pc |-> IF j \in Printable THEN "printing" ELSE "reportFail",
    job |-> j, todo |-> todo ]

Abandonment(j, todo) ==
  [kind |-> "retry", pc |-> "reportAbandoned", job |-> j, todo |-> todo]

(* The two loops of retryBufferedJobs.  The second reads abandonedJobs()   *)
(* when the first is done, in the same step.  No ORDER BY: any order.      *)
NextAbandoned(todo) ==
  IF todo = {} THEN {Free} ELSE {Abandonment(j, todo \ {j}) : j \in todo}

NextDue(todo, t) ==
  IF todo = {} THEN NextAbandoned(AbandonedJobs(t))
               ELSE {Attempt("retry", j, todo \ {j}) : j \in todo}

(* How a flow goes on once its attempt has been recorded in table t: a     *)
(* failed write throws, which ends a live flow and a retry flow alike.     *)
AfterAttempt(f, t, w) ==
  IF f.kind = "retry" /\ w = "written" THEN NextDue(f.todo, t) ELSE {Free}

-----------------------------------------------------------------------------
(* handleJob: a job arrives over the socket or from POST /reprint.         *)
HandleJob(s, j) ==
  /\ mode = "up"
  /\ flow[s] = Free
  /\ deliveries[j] < MaxDeliveries
  /\ deliveries' = [deliveries EXCEPT ![j] = @ + 1]
  /\ mem' = Enqueue(mem, j)
  /\ \E w \in WriteOutcomes :
       /\ Persist(Enqueue(mem, j), w)
       /\ \/ /\ w = "written"
             /\ flow' = [flow EXCEPT ![s] = Attempt("live", j, {})]
             /\ owed' = owed \cup {j}
             /\ waiting' = waiting \cup {j}
          \/ /\ w # "written"
             /\ UNCHANGED <<flow, owed, waiting>>
  /\ UNCHANGED <<mode, stops, sent, prints, gaveUp>>

(* The timer of the retry loop fires.  Nothing keeps it from firing while  *)
(* an earlier invocation of retryBufferedJobs is still waiting.            *)
RetryTick(s) ==
  /\ mode = "up"
  /\ flow[s] = Free
  /\ \E f \in NextDue(DueJobs(mem), mem) : flow' = [flow EXCEPT ![s] = f]
  /\ UNCHANGED <<mode, table, bounds, ledger>>

(* sendToPrinter settles, and processJob starts the report of the result.  *)
PrinterAnswers(s) ==
  /\ mode = "up"
  /\ flow[s].pc = "printing"
  /\ \/ /\ "sent" \in PrintOutcomes
        /\ flow' = [flow EXCEPT ![s].pc = "reportOk"]
        /\ sent' = sent \cup {flow[s].job}
        /\ prints' = [prints EXCEPT ![flow[s].job] = @ + 1]
        /\ waiting' = waiting \ {flow[s].job}
     \/ /\ "failed" \in PrintOutcomes
        /\ flow' = [flow EXCEPT ![s].pc = "reportFail"]
        /\ UNCHANGED <<sent, prints, waiting>>
  /\ UNCHANGED <<mode, table, bounds, owed, gaveUp>>

\* Seeded fault: the removal is not written to disk.
FinishSentUnsaved(s) ==
  /\ mode = "up"
  /\ flow[s].pc = "reportOk"
  /\ mem' = Remove(mem, flow[s].job)
  /\ \E f \in AfterAttempt(flow[s], Remove(mem, flow[s].job), "written") :
       flow' = [flow EXCEPT ![s] = f]
  /\ UNCHANGED <<mode, disk, behind, bounds, ledger>>

\* Seeded fault: a removal that cannot be written is taken back in memory.
FinishSentIfSaved(s) ==
  /\ mode = "up"
  /\ flow[s].pc = "reportOk"
  /\ \E w \in WriteOutcomes :
       /\ Persist(Remove(mem, flow[s].job), w)
       /\ mem' = IF w = "written" THEN Remove(mem, flow[s].job) ELSE mem
       /\ \E f \in AfterAttempt(flow[s], mem', w) : flow' = [flow EXCEPT ![s] = f]
  /\ UNCHANGED <<mode, bounds, ledger>>

(* reportResult resolves after a print: the job leaves the buffer.         *)
FinishSent(s) ==
  /\ mode = "up"
  /\ flow[s].pc = "reportOk"
  /\ mem' = Remove(mem, flow[s].job)
  /\ \E w \in WriteOutcomes :
       /\ Persist(Remove(mem, flow[s].job), w)
       /\ \E f \in AfterAttempt(flow[s], Remove(mem, flow[s].job), w) :
            flow' = [flow EXCEPT ![s] = f]
  /\ UNCHANGED <<mode, bounds, ledger>>

(* reportResult resolves after a failure: recordFailure, which writes      *)
(* nothing when the row is gone.                                           *)
FinishFailed(s) ==
  /\ mode = "up"
  /\ flow[s].pc = "reportFail"
  /\ mem' = RecordFailure(mem, flow[s].job)
  /\ \E w \in WriteOutcomes :
       /\ IF mem[flow[s].job] = NoRow
            THEN w = "written" /\ UNCHANGED <<disk, behind>>
            ELSE Persist(RecordFailure(mem, flow[s].job), w)
       /\ \E f \in AfterAttempt(flow[s], RecordFailure(mem, flow[s].job), w) :
            flow' = [flow EXCEPT ![s] = f]
  /\ UNCHANGED <<mode, bounds, ledger>>

(* reportResult resolves for an abandoned job, whether or not the backend  *)
(* got the report, which leaves no trace, and removeAbandoned follows.     *)
FinishAbandoned(s) ==
  /\ mode = "up"
  /\ flow[s].pc = "reportAbandoned"
  /\ mem' = RemoveAbandoned(mem, flow[s].job)
  /\ \E w \in WriteOutcomes :
       /\ Persist(RemoveAbandoned(mem, flow[s].job), w)
       /\ \E f \in IF w = "written" THEN NextAbandoned(flow[s].todo) ELSE {Free} :
            flow' = [flow EXCEPT ![s] = f]
  /\ gaveUp' = gaveUp \cup {flow[s].job}
  /\ waiting' = waiting \ {flow[s].job}
  /\ UNCHANGED <<mode, bounds, owed, sent, prints>>

(* The process ends, by itself (an uncaught exception, a kill, a power     *)
(* cut) or through shutdown (SIGTERM, SIGINT, agent revoked).  Every flow  *)
(* and the table in memory are lost; shutdown writes nothing.              *)
Halt(m) ==
  /\ mode = "up"
  /\ stops < MaxStops
  /\ stops' = stops + 1
  /\ mode' = m
  /\ mem' = EmptyTable
  /\ behind' = FALSE
  /\ flow' = [s \in Slots |-> Free]
  /\ UNCHANGED <<disk, deliveries, ledger>>

Crash == Halt("crashed")

Shutdown == Halt("stopped")

(* JobBuffer.create on start, d units of time later: load the file,        *)
(* migrate, write it back.  When that write fails create throws, and the   *)
(* process exits with a failure before it has done anything else; the file *)
(* is then as it was, or empty.                                            *)
Boot ==
  /\ mode # "up"
  /\ \E d \in 0..TTL, w \in WriteOutcomes :
       /\ disk' = IF w = "truncated" THEN EmptyTable ELSE Older(disk, d)
       /\ \/ w = "written" /\ mode' = "up" /\ mem' = Older(disk, d)
          \/ w # "written" /\ mode' = "crashed" /\ UNCHANGED mem
  /\ UNCHANGED <<behind, flow, bounds, ledger>>

(* The wall clock while the process runs: any flow may be waiting.         *)
Elapse ==
  /\ mode = "up"
  /\ mem' = Older(mem, 1)
  /\ disk' = Older(disk, 1)
  /\ UNCHANGED <<mode, behind, flow, bounds, ledger>>

Next ==
  \/ \E s \in Slots :
       \/ \E j \in Jobs : HandleJob(s, j)
       \/ RetryTick(s)
       \/ PrinterAnswers(s)
       \/ FinishSent(s)
       \/ FinishFailed(s)
       \/ FinishAbandoned(s)
  \/ Crash
  \/ Shutdown
  \/ Boot
  \/ Elapse

Spec == Init /\ [][Next]_vars

(***************************************************************************)
(* Fairness.  The timers of printer.js settle the promise of a print; a    *)
(* report settles by the abort timer of backend.js, and if an error is     *)
(* answered because its text arrives or breaks off, which is assumed of    *)
(* the network; setInterval fires again and again; the clock runs.         *)
(* Nothing is assumed of writes, nor, for it ends with a write, of a start.*)
(***************************************************************************)
Fairness ==
  /\ \A s \in Slots : /\ WF_vars(PrinterAnswers(s))
                       /\ WF_vars(FinishSent(s))
                       /\ WF_vars(FinishFailed(s))
                       /\ WF_vars(FinishAbandoned(s))
  /\ WF_vars(\E s \in Slots : RetryTick(s))
  /\ WF_vars(Elapse)

FairSpec == Spec /\ Fairness

-----------------------------------------------------------------------------
(***************************************************************************)
(* At-least-once: a job that handleJob accepted is on disk until some      *)
(* attempt has sent it or its abandonment has been reported, whatever the  *)
(* flows, the crashes and the refused writes in between.  It needs that no *)
(* write fails after it has truncated the file.                            *)
(***************************************************************************)
NoLostJob == \A j \in owed \ (sent \cup gaveUp) : disk[j] # NoRow

(***************************************************************************)
(* A job that is not abandoned leaves the table in only one way: a flow    *)
(* that has sent it comes back from its report.  In particular a retry     *)
(* flow that reported an abandonment late cannot delete the row of a job   *)
(* that was removed and delivered anew in the meantime.                    *)
(***************************************************************************)
Returns(s, pc, j) == flow[s].pc = pc /\ flow[s].job = j /\ flow'[s] # flow[s]

LiveRowLeavesOnlySent ==
  [][\A j \in Jobs :
       /\ mode = "up" /\ mode' = "up"
       /\ mem[j] # NoRow /\ mem'[j] = NoRow
       /\ ~mem[j].abandoned
       => \E s \in Slots : Returns(s, "reportOk", j)]_vars

(***************************************************************************)
(* Abandonment is final: however many flows still hold the job and record  *)
(* a failure after it was abandoned, none turns it back into a live job,   *)
(* which would be retried without end.                                     *)
(***************************************************************************)
AbandonedIsFinal ==
  [][\A j \in Jobs :
       j \in AbandonedJobs(mem) /\ j \in Present(mem')
       => j \in AbandonedJobs(mem')]_vars

(***************************************************************************)
(* A job comes into the table of a running agent only through handleJob:   *)
(* a flow that fails after another flow has sent and removed the same job  *)
(* does not bring it back.                                                 *)
(***************************************************************************)
RowsComeFromDeliveries ==
  [][\A j \in Jobs :
       /\ mode = "up" /\ mode' = "up"
       /\ mem[j] = NoRow /\ mem'[j] # NoRow
       => deliveries'[j] = deliveries[j] + 1]_vars

(***************************************************************************)
(* Whenever the last write succeeded the file is the table: no change is   *)
(* left to a later write, so a crash at any await loses no attempt, no     *)
(* abandonment and no removal, and one good write makes up for any number  *)
(* of failed ones.                                                         *)
(***************************************************************************)
DiskInStep == mode = "up" /\ ~behind => disk = mem

(***************************************************************************)
(* What the agent holds: the table of a running process, the file of one   *)
(* that is down.  Whatever flows overlap, a job leaves only when it was    *)
(* sent or given up, and there are two ways to lose one: the process ends  *)
(* while its last write has failed, or a start fails in its own write,     *)
(* after that has truncated the file.  So nothing is lost by failed writes *)
(* that a good one has made up for, by a start that succeeds, by one that  *)
(* fails where no write truncates, or by the clock.                        *)
(***************************************************************************)
Held == IF mode = "up" THEN Present(mem) ELSE Present(disk)

HeldUntilDone ==
  [][\/ Held \ Held' \subseteq sent' \cup gaveUp'
     \/ mode = "up" /\ mode' # "up" /\ behind
     \/ mode # "up" /\ mode' # "up" /\ "truncated" \in WriteFaults /\ disk' = EmptyTable]_vars

(***************************************************************************)
(* How far attempt_count can pass MAX_ATTEMPTS.  Nothing keeps two flows   *)
(* from attempting the same job at once, and each failure counts.  Yet the *)
(* count stays below MAX_ATTEMPTS plus the flows that can overlap plus the *)
(* times the job was delivered again: whatever writes fail and however     *)
(* often the process restarts, a job that is abandoned is not retried.     *)
(***************************************************************************)
CountBound(d) == MaxAttempts + Cardinality(Slots) + d - 2

AttemptsBounded ==
  \A j \in Jobs :
    /\ mem[j] # NoRow => mem[j].attempts <= CountBound(deliveries[j])
    /\ disk[j] # NoRow => disk[j].attempts <= CountBound(deliveries[j])

(***************************************************************************)
(* How often a ticket is printed, as far as sendToPrinter knows: an        *)
(* attempt that timed out may have printed too.  At-least-once delivery    *)
(* may print it again, but not at will: at most once for every flow that   *)
(* can overlap, for each delivery and each end of the process.  In         *)
(* particular a job whose flows never overlap is printed at most once per  *)
(* delivery and restart, however many attempts fail and however often its  *)
(* removal cannot be written.                                              *)
(***************************************************************************)
PrintsBounded ==
  \A j \in Jobs : prints[j] <= Cardinality(Slots) * (deliveries[j] + stops)

(***************************************************************************)
(* The buffer drains: once deliveries and crashes end, a running agent     *)
(* empties its table for good, every job sent or abandoned and reported,   *)
(* even with overlapping flows and failing writes.  A process that is not  *)
(* started again, or fails in the write of every start, drains nothing;    *)
(* the premise says that neither goes on for ever.                         *)
(***************************************************************************)
BufferDrains ==
  []<>(mode # "crashed") => <>[](mode = "stopped" \/ (mode = "up" /\ Present(mem) = {}))

(***************************************************************************)
(* The abstract view.  With the file for the queue, the agent implements a *)
(* durable queue: a crash, a restart, a refused write and every mixture of *)
(* flows look from outside like a queue that accepts jobs and lets go only *)
(* of those that were sent or given up.                                    *)
(***************************************************************************)
Offered == {j \in Jobs : deliveries[j] > 0}

Queue == INSTANCE DurableQueue
           WITH offered <- Offered, accepted <- owed,
                queue <- Present(disk), done <- sent \cup gaveUp

ImplementsQueue == Queue!Spec

-----------------------------------------------------------------------------
(***************************************************************************)
(* What the documentation says of the program, and the code does not do.   *)
(* Each is checked by a run that shows the violation.                      *)
(***************************************************************************)

(***************************************************************************)
(* README.md:14: jobs are retried if the printer or the network is         *)
(* unavailable.  So where nothing fails, no ticket that was printed is     *)
(* sent to the printer again.                                              *)
(***************************************************************************)
NoReprintAfterPrint ==
  \A s \in Slots : flow[s].pc = "printing" => flow[s].job \notin sent

(***************************************************************************)
(* README.md:128: on failure the buffer schedules a retry.  So a job that  *)
(* was accepted and has not been printed or given up since is in the table *)
(* or in the hands of a flow.                                              *)
(***************************************************************************)
NoAcceptedJobForgotten ==
  mode = "up" =>
    \A j \in waiting : mem[j] # NoRow \/ \E s \in Slots : flow[s].job = j
=============================================================================

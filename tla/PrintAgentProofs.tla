-------------------------- MODULE PrintAgentProofs --------------------------
(***************************************************************************)
(* Proofs about PrintAgent for every set of jobs and slots, every limit    *)
(* and every bound.  The inductive invariant is IInv.                      *)
(***************************************************************************)
EXTENDS PrintAgent, JobTableProofs, FiniteSetTheorems

\* A flow that waits on something holds a job.
Holds(f) == f.pc # "idle" => f.job \in Jobs

\* What a flow can be when its last report has come back, or at its start.
FreshFlow == {f \in Flow : Holds(f) /\ f.pc # "reportOk"}

\* While the process is down there is no table in memory and no flow.
DownIsEmpty == mode # "up" => mem = EmptyTable /\ flow = [s \in Slots |-> Free]

\* A flow that reports success holds a job that was sent.
OkMeansSent == \A s \in Slots : flow[s].pc = "reportOk" => flow[s].job \in sent

IInv ==
  /\ TypeOK
  /\ \A s \in Slots : Holds(flow[s])
  /\ OkMeansSent
  /\ DownIsEmpty
  /\ Sound(mem)
  /\ Sound(disk)

-----------------------------------------------------------------------------
LEMMA FreeFresh == Free \in FreshFlow
  BY DEF Free, FreshFlow, Flow, Holds

LEMMA AttemptFresh ==
  ASSUME NEW kind \in {"live", "retry"}, NEW j \in Jobs, NEW todo \in SUBSET Jobs
  PROVE  Attempt(kind, j, todo) \in FreshFlow
  BY DEF Attempt, FreshFlow, Flow, Holds

LEMMA NextAbandonedFresh ==
  ASSUME NEW todo \in SUBSET Jobs
  PROVE  NextAbandoned(todo) \subseteq FreshFlow
  BY FreeFresh DEF NextAbandoned, Abandonment, FreshFlow, Flow, Holds

LEMMA NextDueFresh ==
  ASSUME NEW todo \in SUBSET Jobs, NEW t
  PROVE  NextDue(todo, t) \subseteq FreshFlow
  <1>1. AbandonedJobs(t) \subseteq Jobs
    BY DEF AbandonedJobs, Present
  <1>2. \A j \in todo : Attempt("retry", j, todo \ {j}) \in FreshFlow
    BY AttemptFresh
  <1> QED
    BY <1>1, <1>2, NextAbandonedFresh DEF NextDue

LEMMA AfterAttemptFresh ==
  ASSUME NEW f \in Flow, NEW t, NEW w
  PROVE  AfterAttempt(f, t, w) \subseteq FreshFlow
  <1>1. f.todo \in SUBSET Jobs
    BY DEF Flow
  <1> QED
    BY <1>1, FreeFresh, NextDueFresh DEF AfterAttempt

(* A write leaves a table on disk, the new one, the old one or none.       *)
LEMMA PersistFacts ==
  ASSUME NEW t \in Table, NEW w \in WriteOutcomes, disk \in Table, Persist(t, w)
  PROVE  /\ disk' \in Table /\ behind' \in BOOLEAN
         /\ Sound(t) /\ Sound(disk) => Sound(disk')
         /\ w = "written" => disk' = t
         /\ "truncated" \notin WriteFaults /\ w # "written" => disk' = disk
  BY AgentConstants, EmptyTableFacts DEF Persist, WriteOutcomes, AgentConstants

(* Replacing one flow by a fresh one keeps what IInv says of flows.        *)
LEMMA FreshFlowKeeps ==
  ASSUME IInv, NEW s \in Slots, NEW f \in FreshFlow,
         flow' = [flow EXCEPT ![s] = f], sent' = sent
  PROVE  /\ flow' \in [Slots -> Flow]
         /\ \A x \in Slots : Holds(flow'[x])
         /\ OkMeansSent'
  BY DEF IInv, TypeOK, FreshFlow, OkMeansSent

-----------------------------------------------------------------------------
LEMMA InitInv == Init => IInv
  <1> SUFFICES ASSUME Init PROVE IInv
    OBVIOUS
  <1>1. Free \in Flow /\ Holds(Free) /\ Free.pc # "reportOk"
    BY FreeFresh DEF FreshFlow
  <1>2. TypeOK
    BY <1>1, EmptyTableFacts DEF Init, TypeOK, Modes
  <1>3. OkMeansSent /\ \A s \in Slots : Holds(flow[s])
    BY <1>1 DEF Init, OkMeansSent
  <1> QED
    BY <1>2, <1>3, EmptyTableFacts DEF Init, IInv, DownIsEmpty

LEMMA HandleJobInv ==
  ASSUME IInv, NEW s \in Slots, NEW j \in Jobs, HandleJob(s, j)
  PROVE  IInv'
  <1> DEFINE t == Enqueue(mem, j)
  <1>1. t \in Table /\ Sound(t)
    BY EnqueueFacts DEF IInv, TypeOK
  <1>2. PICK w \in WriteOutcomes :
          /\ Persist(t, w)
          /\ \/ /\ w = "written"
                /\ flow' = [flow EXCEPT ![s] = Attempt("live", j, {})]
                /\ owed' = owed \cup {j}
                /\ waiting' = waiting \cup {j}
             \/ /\ w # "written"
                /\ UNCHANGED <<flow, owed, waiting>>
    BY DEF HandleJob
  <1>3. disk' \in Table /\ behind' \in BOOLEAN /\ Sound(disk')
    BY <1>1, <1>2, PersistFacts DEF IInv, TypeOK
  <1>4. Attempt("live", j, {}) \in FreshFlow
    BY AttemptFresh
  <1>5. /\ flow' \in [Slots -> Flow]
        /\ \A x \in Slots : Holds(flow'[x])
        /\ OkMeansSent'
    <2>1. sent' = sent
      BY DEF HandleJob
    <2>2. CASE flow' = [flow EXCEPT ![s] = Attempt("live", j, {})]
      BY <1>4, <2>1, <2>2, FreshFlowKeeps
    <2>3. CASE flow' = flow
      BY <2>1, <2>3 DEF IInv, TypeOK, OkMeansSent
    <2> QED
      BY <1>2, <2>2, <2>3
  <1>6. mem' = t /\ mode = "up" /\ mode' = "up"
    BY DEF HandleJob
  <1>7. TypeOK'
    BY <1>1, <1>2, <1>3, <1>5, <1>6 DEF IInv, TypeOK, HandleJob
  <1> QED
    BY <1>1, <1>3, <1>5, <1>6, <1>7 DEF IInv, DownIsEmpty

LEMMA RetryTickInv ==
  ASSUME IInv, NEW s \in Slots, RetryTick(s)
  PROVE  IInv'
  <1>1. DueJobs(mem) \subseteq Jobs
    BY DEF DueJobs, Present
  <1>2. PICK f \in NextDue(DueJobs(mem), mem) : flow' = [flow EXCEPT ![s] = f]
    BY DEF RetryTick
  <1>3. f \in FreshFlow
    BY <1>1, <1>2, NextDueFresh
  <1>4. /\ UNCHANGED <<mode, mem, disk, behind, deliveries, stops, owed, waiting, sent, prints, gaveUp>>
        /\ mode = "up"
    BY DEF RetryTick, table, bounds, ledger
  <1>5. /\ flow' \in [Slots -> Flow]
        /\ \A x \in Slots : Holds(flow'[x])
        /\ OkMeansSent'
    BY <1>2, <1>3, <1>4, FreshFlowKeeps
  <1> QED
    BY <1>4, <1>5 DEF IInv, TypeOK, DownIsEmpty

LEMMA PrinterAnswersInv ==
  ASSUME IInv, NEW s \in Slots, PrinterAnswers(s)
  PROVE  IInv'
  <1>1. flow[s] \in Flow /\ flow[s].job \in Jobs
    BY DEF IInv, TypeOK, Holds, PrinterAnswers
  <1>2. UNCHANGED <<mode, mem, disk, behind, deliveries, stops, owed, gaveUp>> /\ mode = "up"
    BY DEF PrinterAnswers, table, bounds
  <1>3. /\ sent \subseteq sent'
        /\ sent' \subseteq Jobs
        /\ waiting' \subseteq waiting
        /\ prints' \in [Jobs -> Nat]
    BY <1>1 DEF PrinterAnswers, IInv, TypeOK
  <1>4. PICK pc \in {"reportOk", "reportFail"} :
          /\ flow' = [flow EXCEPT ![s].pc = pc]
          /\ pc = "reportOk" => flow[s].job \in sent'
    BY DEF PrinterAnswers
  <1>5. /\ flow' \in [Slots -> Flow]
        /\ flow'[s].pc = pc /\ flow'[s].job = flow[s].job
        /\ \A x \in Slots \ {s} : flow'[x] = flow[x]
    BY <1>1, <1>4 DEF IInv, TypeOK, Flow
  <1>6. OkMeansSent' /\ \A x \in Slots : Holds(flow'[x])
    BY <1>1, <1>3, <1>4, <1>5 DEF IInv, OkMeansSent, Holds
  <1> QED
    BY <1>2, <1>3, <1>5, <1>6 DEF IInv, TypeOK, DownIsEmpty

LEMMA FinishSentInv ==
  ASSUME IInv, NEW s \in Slots, FinishSent(s)
  PROVE  IInv'
  <1> DEFINE t == Remove(mem, flow[s].job)
  <1>1. flow[s] \in Flow /\ flow[s].job \in Jobs
    BY DEF IInv, TypeOK, Holds, FinishSent
  <1>2. t \in Table /\ Sound(t)
    BY <1>1, RemoveFacts DEF IInv, TypeOK
  <1>3. PICK w \in WriteOutcomes :
          Persist(t, w) /\ \E f \in AfterAttempt(flow[s], t, w) : flow' = [flow EXCEPT ![s] = f]
    BY DEF FinishSent
  <1>4. disk' \in Table /\ behind' \in BOOLEAN /\ Sound(disk')
    BY <1>2, <1>3, PersistFacts DEF IInv, TypeOK
  <1>5. /\ mem' = t
        /\ UNCHANGED <<mode, deliveries, stops, owed, waiting, sent, prints, gaveUp>>
        /\ mode = "up"
    BY DEF FinishSent, bounds, ledger
  <1>6. /\ flow' \in [Slots -> Flow]
        /\ \A x \in Slots : Holds(flow'[x])
        /\ OkMeansSent'
    BY <1>1, <1>3, <1>5, AfterAttemptFresh, FreshFlowKeeps
  <1> QED
    BY <1>2, <1>4, <1>5, <1>6 DEF IInv, TypeOK, DownIsEmpty

LEMMA FinishFailedInv ==
  ASSUME IInv, NEW s \in Slots, FinishFailed(s)
  PROVE  IInv'
  <1> DEFINE t == RecordFailure(mem, flow[s].job)
  <1>1. flow[s] \in Flow /\ flow[s].job \in Jobs
    BY DEF IInv, TypeOK, Holds, FinishFailed
  <1>2. t \in Table /\ Sound(t)
    BY <1>1, RecordFailureFacts DEF IInv, TypeOK
  <1>3. PICK w \in WriteOutcomes :
          /\ (disk' = disk /\ behind' = behind) \/ Persist(t, w)
          /\ \E f \in AfterAttempt(flow[s], t, w) : flow' = [flow EXCEPT ![s] = f]
    BY DEF FinishFailed
  <1>4. disk' \in Table /\ behind' \in BOOLEAN /\ Sound(disk')
    BY <1>2, <1>3, PersistFacts DEF IInv, TypeOK
  <1>5. /\ mem' = t
        /\ UNCHANGED <<mode, deliveries, stops, owed, waiting, sent, prints, gaveUp>>
        /\ mode = "up"
    BY DEF FinishFailed, bounds, ledger
  <1>6. /\ flow' \in [Slots -> Flow]
        /\ \A x \in Slots : Holds(flow'[x])
        /\ OkMeansSent'
    BY <1>1, <1>3, <1>5, AfterAttemptFresh, FreshFlowKeeps
  <1> QED
    BY <1>2, <1>4, <1>5, <1>6 DEF IInv, TypeOK, DownIsEmpty

LEMMA FinishAbandonedInv ==
  ASSUME IInv, NEW s \in Slots, FinishAbandoned(s)
  PROVE  IInv'
  <1> DEFINE t == RemoveAbandoned(mem, flow[s].job)
  <1>1. flow[s] \in Flow /\ flow[s].job \in Jobs /\ flow[s].todo \in SUBSET Jobs
    BY DEF IInv, TypeOK, Holds, Flow, FinishAbandoned
  <1>2. t \in Table /\ Sound(t)
    BY <1>1, RemoveAbandonedFacts DEF IInv, TypeOK
  <1>3. PICK w \in WriteOutcomes :
          /\ Persist(t, w)
          /\ \E f \in IF w = "written" THEN NextAbandoned(flow[s].todo) ELSE {Free} :
               flow' = [flow EXCEPT ![s] = f]
    BY DEF FinishAbandoned
  <1>4. disk' \in Table /\ behind' \in BOOLEAN /\ Sound(disk')
    BY <1>2, <1>3, PersistFacts DEF IInv, TypeOK
  <1>5. /\ mem' = t
        /\ UNCHANGED <<mode, deliveries, stops, owed, sent, prints>>
        /\ mode = "up"
    BY DEF FinishAbandoned, bounds
  <1>6. PICK f \in FreshFlow : flow' = [flow EXCEPT ![s] = f]
    BY <1>1, <1>3, NextAbandonedFresh, FreeFresh
  <1>7. /\ flow' \in [Slots -> Flow]
        /\ \A x \in Slots : Holds(flow'[x])
        /\ OkMeansSent'
    BY <1>5, <1>6, FreshFlowKeeps
  <1>8. waiting' \subseteq waiting /\ gaveUp' \subseteq Jobs
    BY <1>1 DEF FinishAbandoned, IInv, TypeOK
  <1> QED
    BY <1>2, <1>4, <1>5, <1>7, <1>8 DEF IInv, TypeOK, DownIsEmpty

LEMMA HaltInv ==
  ASSUME IInv, NEW m \in {"crashed", "stopped"}, Halt(m)
  PROVE  IInv'
  <1>1. UNCHANGED <<disk, deliveries, owed, waiting, sent, prints, gaveUp>>
    BY DEF Halt, ledger
  <1>2. /\ flow' = [s \in Slots |-> Free] /\ mem' = EmptyTable
        /\ mode' = m /\ stops' = stops + 1 /\ behind' = FALSE
    BY DEF Halt
  <1>3. Free \in Flow /\ Holds(Free) /\ Free.pc # "reportOk"
    BY FreeFresh DEF FreshFlow
  <1>4. TypeOK'
    <2>1. behind' \in BOOLEAN
      BY <1>2, Zenon
    <2>2. mode' \in Modes /\ stops' \in Nat
      BY <1>2 DEF IInv, TypeOK, Modes
    <2>3. flow' \in [Slots -> Flow]
      BY <1>2, <1>3
    <2> QED
      BY <1>1, <1>2, <2>1, <2>2, <2>3, EmptyTableFacts DEF IInv, TypeOK
  <1> QED
    BY <1>1, <1>2, <1>3, <1>4, EmptyTableFacts DEF IInv, OkMeansSent, DownIsEmpty

(* A start loads the file and writes it back, or fails in that write.      *)
LEMMA BootFacts ==
  ASSUME Boot
  PROVE  \E d \in Nat :
           \/ mode' = "up" /\ mem' = Older(disk, d) /\ disk' = Older(disk, d)
           \/ /\ mode' = "crashed"
              /\ mem' = mem
              /\ \/ disk' = Older(disk, d)
                 \/ "truncated" \in WriteFaults /\ disk' = EmptyTable
  <1>1. PICK d \in 0..TTL, w \in WriteOutcomes :
          /\ disk' = IF w = "truncated" THEN EmptyTable ELSE Older(disk, d)
          /\ \/ w = "written" /\ mode' = "up" /\ mem' = Older(disk, d)
             \/ w # "written" /\ mode' = "crashed" /\ mem' = mem
    BY DEF Boot
  <1>2. d \in Nat
    BY TableConstants DEF TableConstants
  <1>3. w = "truncated" => "truncated" \in WriteFaults
    BY DEF WriteOutcomes
  <1> QED
    BY <1>1, <1>2, <1>3

LEMMA BootInv ==
  ASSUME IInv, Boot
  PROVE  IInv'
  <1>1. PICK d \in Nat :
           \/ mode' = "up" /\ mem' = Older(disk, d) /\ disk' = Older(disk, d)
           \/ /\ mode' = "crashed"
              /\ mem' = mem
              /\ disk' = Older(disk, d) \/ disk' = EmptyTable
    BY BootFacts
  <1>2. mem' \in Table /\ disk' \in Table /\ Sound(mem') /\ Sound(disk')
    BY <1>1, OlderFacts, EmptyTableFacts DEF IInv, TypeOK
  <1>3. UNCHANGED <<behind, flow, deliveries, stops, owed, waiting, sent, prints, gaveUp>>
    BY DEF Boot, bounds, ledger
  <1>4. mode' \in Modes /\ (mode' # "up" => mem' = mem) /\ mode # "up"
    BY <1>1 DEF Boot, Modes
  <1> QED
    BY <1>2, <1>3, <1>4 DEF IInv, TypeOK, OkMeansSent, DownIsEmpty

LEMMA ElapseInv ==
  ASSUME IInv, Elapse
  PROVE  IInv'
  <1>1. mem' \in Table /\ disk' \in Table /\ Sound(mem') /\ Sound(disk')
    BY OlderFacts DEF Elapse, IInv, TypeOK
  <1>2. /\ UNCHANGED <<mode, behind, flow, deliveries, stops, owed, waiting, sent, prints, gaveUp>>
        /\ mode = "up"
    BY DEF Elapse, bounds, ledger
  <1> QED
    BY <1>1, <1>2 DEF IInv, TypeOK, OkMeansSent, DownIsEmpty

LEMMA NextInv == IInv /\ [Next]_vars => IInv'
  <1> SUFFICES ASSUME IInv, [Next]_vars PROVE IInv'
    OBVIOUS
  <1>1. CASE \E s \in Slots : \E j \in Jobs : HandleJob(s, j)
    BY <1>1, HandleJobInv
  <1>2. CASE \E s \in Slots : RetryTick(s)
    BY <1>2, RetryTickInv
  <1>3. CASE \E s \in Slots : PrinterAnswers(s)
    BY <1>3, PrinterAnswersInv
  <1>4. CASE \E s \in Slots : FinishSent(s)
    BY <1>4, FinishSentInv
  <1>5. CASE \E s \in Slots : FinishFailed(s)
    BY <1>5, FinishFailedInv
  <1>6. CASE \E s \in Slots : FinishAbandoned(s)
    BY <1>6, FinishAbandonedInv
  <1>7. CASE Crash \/ Shutdown
    BY <1>7, HaltInv DEF Crash, Shutdown
  <1>8. CASE Boot
    BY <1>8, BootInv
  <1>9. CASE Elapse
    BY <1>9, ElapseInv
  <1>10. CASE UNCHANGED vars
    BY <1>10 DEF vars, IInv, TypeOK, OkMeansSent, DownIsEmpty
  <1> QED
    BY <1>1, <1>2, <1>3, <1>4, <1>5, <1>6, <1>7, <1>8, <1>9, <1>10 DEF Next

THEOREM Invariance == Spec => []IInv
  BY InitInv, NextInv, PTL DEF Spec

(***************************************************************************)
(* Type correctness: among other things the back-off never exceeds its     *)
(* cap, and only accepted jobs are waiting.                                *)
(***************************************************************************)
THEOREM TypeCorrect == Spec => []TypeOK
  <1>1. IInv => TypeOK
    BY DEF IInv
  <1> QED
    BY <1>1, Invariance, PTL

-----------------------------------------------------------------------------
(***************************************************************************)
(* What each step does to the rows in memory, in the one form the theorems *)
(* about rows need: which row it may delete, add, revive.                  *)
(***************************************************************************)
LEMMA ExhaustedStays ==
  ASSUME NEW r \in Row, Exhausted(r)
  PROVE  FailedRow(r).abandoned
  <1>1. r.attempts \in Nat /\ FailedRow(r).attempts = r.attempts + 1 /\ FailedRow(r).age = r.age
    BY FailedRowFacts DEF Row
  <1>2. Exhausted(FailedRow(r))
    BY <1>1, TableConstants DEF Exhausted, TableConstants
  <1> QED
    BY <1>2, FailedRowFacts

LEMMA AbandonedStep ==
  ASSUME IInv, [Next]_vars, NEW j \in Jobs,
         j \in AbandonedJobs(mem), j \in Present(mem')
  PROVE  j \in AbandonedJobs(mem')
  <1> mem \in Table /\ mem[j] # NoRow /\ mem[j].abandoned /\ mem'[j] # NoRow
    BY DEF IInv, TypeOK, AbandonedJobs, Present
  <1> SUFFICES mem'[j].abandoned
    BY DEF AbandonedJobs, Present
  <1>1. CASE mem'[j] = mem[j]
    BY <1>1
  <1>2. ASSUME NEW s \in Slots, NEW i \in Jobs, HandleJob(s, i)
        PROVE  mem'[j] = mem[j]
    BY <1>2, EnqueueFacts DEF HandleJob
  <1>3. ASSUME NEW s \in Slots, FinishSent(s)
        PROVE  mem'[j] = mem[j]
    <2>1. flow[s].job \in Jobs
      BY <1>3 DEF FinishSent, IInv, Holds
    <2> QED
      BY <1>3, <2>1, RemoveFacts DEF FinishSent
  <1>4. ASSUME NEW s \in Slots, FinishFailed(s)
        PROVE  mem'[j].abandoned
    <2>1. flow[s].job \in Jobs /\ mem' = RecordFailure(mem, flow[s].job)
      BY <1>4 DEF FinishFailed, IInv, Holds
    <2>2. mem[j] \in Row /\ Exhausted(mem[j])
      BY DEF Table, IInv, Sound
    <2>3. mem'[j] = mem[j] \/ mem'[j] = FailedRow(mem[j])
      BY <2>1, RecordFailureFacts
    <2> QED
      BY <2>2, <2>3, ExhaustedStays
  <1>5. ASSUME NEW s \in Slots, FinishAbandoned(s)
        PROVE  mem'[j] = mem[j]
    <2>1. flow[s].job \in Jobs /\ mem' = RemoveAbandoned(mem, flow[s].job)
      BY <1>5 DEF FinishAbandoned, IInv, Holds
    <2> QED
      BY <2>1, RemoveAbandonedFacts
  <1>6. CASE Crash \/ Shutdown
    BY <1>6 DEF Crash, Shutdown, Halt, EmptyTable
  <1>7. CASE Boot
    BY <1>7, BootFacts DEF Boot, IInv, DownIsEmpty, EmptyTable
  <1>8. CASE Elapse
    BY <1>8, OlderFacts DEF Elapse
  <1>9. CASE UNCHANGED mem
    BY <1>9
  <1> QED
    BY <1>1, <1>2, <1>3, <1>4, <1>5, <1>6, <1>7, <1>8, <1>9
    DEF Next, RetryTick, PrinterAnswers, table, vars

(***************************************************************************)
(* Abandonment is final, for any number of overlapping flows: the limits   *)
(* of recordFailure are thresholds, and neither attempts nor age go down.  *)
(***************************************************************************)
THEOREM AbandonmentIsFinal == Spec => AbandonedIsFinal
  <1>1. IInv /\ [Next]_vars =>
          [\A j \in Jobs :
             j \in AbandonedJobs(mem) /\ j \in Present(mem')
             => j \in AbandonedJobs(mem')]_vars
    BY AbandonedStep
  <1> QED
    BY <1>1, Invariance, PTL DEF Spec, AbandonedIsFinal

LEMMA NewRowStep ==
  ASSUME IInv, [Next]_vars, NEW j \in Jobs,
         mode = "up", mode' = "up", mem[j] = NoRow, mem'[j] # NoRow
  PROVE  deliveries'[j] = deliveries[j] + 1
  <1> mem \in Table /\ deliveries \in [Jobs -> Nat]
    BY DEF IInv, TypeOK
  <1>1. ASSUME NEW s \in Slots, NEW i \in Jobs, HandleJob(s, i)
        PROVE  deliveries'[j] = deliveries[j] + 1
    <2>1. i = j
      BY <1>1, EnqueueFacts DEF HandleJob
    <2> QED
      BY <1>1, <2>1 DEF HandleJob
  <1>2. ASSUME NEW s \in Slots, FinishSent(s) \/ FinishFailed(s) \/ FinishAbandoned(s)
        PROVE  FALSE
    <2>1. flow[s].job \in Jobs
      BY <1>2 DEF FinishSent, FinishFailed, FinishAbandoned, IInv, Holds
    <2>2. CASE FinishSent(s)
      BY <2>1, <2>2, RemoveFacts DEF FinishSent
    <2>3. CASE FinishFailed(s)
      BY <2>1, <2>3, RecordFailureFacts DEF FinishFailed
    <2>4. CASE FinishAbandoned(s)
      BY <2>1, <2>4, RemoveAbandonedFacts DEF FinishAbandoned
    <2> QED
      BY <1>2, <2>2, <2>3, <2>4
  <1>3. ASSUME Elapse PROVE FALSE
    BY <1>3, OlderFacts DEF Elapse
  <1> QED
    BY <1>1, <1>2, <1>3
    DEF Next, RetryTick, PrinterAnswers, Crash, Shutdown, Halt, Boot, table, vars

(***************************************************************************)
(* A failure recorded late never brings back a job that another flow has   *)
(* sent and removed: rows come from deliveries alone.                      *)
(***************************************************************************)
THEOREM NoRowComesBack == Spec => RowsComeFromDeliveries
  <1>1. IInv /\ [Next]_vars =>
          [\A j \in Jobs :
             /\ mode = "up" /\ mode' = "up"
             /\ mem[j] = NoRow /\ mem'[j] # NoRow
             => deliveries'[j] = deliveries[j] + 1]_vars
    BY NewRowStep
  <1> QED
    BY <1>1, Invariance, PTL DEF Spec, RowsComeFromDeliveries

LEMMA LiveRowStep ==
  ASSUME IInv, [Next]_vars, NEW j \in Jobs,
         mode = "up", mode' = "up", mem[j] # NoRow, mem'[j] = NoRow, ~mem[j].abandoned
  PROVE  \E s \in Slots : Returns(s, "reportOk", j)
  <1> mem \in Table
    BY DEF IInv, TypeOK
  <1>1. ASSUME NEW s \in Slots, NEW i \in Jobs, HandleJob(s, i)
        PROVE  FALSE
    BY <1>1, EnqueueFacts DEF HandleJob
  <1>2. ASSUME NEW s \in Slots, FinishFailed(s) \/ FinishAbandoned(s)
        PROVE  FALSE
    <2>1. flow[s].job \in Jobs
      BY <1>2 DEF FinishFailed, FinishAbandoned, IInv, Holds
    <2>2. CASE FinishFailed(s)
      BY <2>1, <2>2, RecordFailureFacts DEF FinishFailed
    <2>3. CASE FinishAbandoned(s)
      BY <2>1, <2>3, RemoveAbandonedFacts DEF FinishAbandoned
    <2> QED
      BY <1>2, <2>2, <2>3
  <1>3. ASSUME NEW s \in Slots, FinishSent(s)
        PROVE  Returns(s, "reportOk", j)
    <2>1. flow \in [Slots -> Flow] /\ flow[s] \in Flow /\ flow[s].job \in Jobs
      BY <1>3 DEF FinishSent, IInv, TypeOK, Holds
    <2>2. flow[s].job = j
      BY <1>3, <2>1, RemoveFacts DEF FinishSent
    <2>3. PICK f \in FreshFlow : flow' = [flow EXCEPT ![s] = f]
      BY <1>3, <2>1, AfterAttemptFresh DEF FinishSent
    <2>4. flow'[s] # flow[s]
      BY <1>3, <2>1, <2>3 DEF FinishSent, FreshFlow
    <2> QED
      BY <1>3, <2>2, <2>4 DEF FinishSent, Returns
  <1>4. ASSUME Elapse PROVE FALSE
    BY <1>4, OlderFacts DEF Elapse
  <1> QED
    BY <1>1, <1>2, <1>3, <1>4
    DEF Next, RetryTick, PrinterAnswers, Crash, Shutdown, Halt, Boot, table, vars

(***************************************************************************)
(* No live job is lost from the table by a late report of abandonment.     *)
(***************************************************************************)
THEOREM OnlySentJobsLeave == Spec => LiveRowLeavesOnlySent
  <1>1. IInv /\ [Next]_vars =>
          [\A j \in Jobs :
             /\ mode = "up" /\ mode' = "up"
             /\ mem[j] # NoRow /\ mem'[j] = NoRow
             /\ ~mem[j].abandoned
             => \E s \in Slots : Returns(s, "reportOk", j)]_vars
    BY LiveRowStep
  <1> QED
    BY <1>1, Invariance, PTL DEF Spec, LiveRowLeavesOnlySent

-----------------------------------------------------------------------------
LEMMA DiskStep ==
  ASSUME IInv, DiskInStep, [Next]_vars
  PROVE  DiskInStep'
  <1> SUFFICES ASSUME mode' = "up", ~behind'
               PROVE  disk' = mem'
    BY DEF DiskInStep
  <1>0. \A t, w : Persist(t, w) => disk' = t
    BY DEF Persist
  <1>1. ASSUME NEW s \in Slots, NEW j \in Jobs, HandleJob(s, j)
        PROVE  disk' = mem'
    BY <1>0, <1>1 DEF HandleJob
  <1>2. ASSUME NEW s \in Slots, FinishSent(s)
        PROVE  disk' = mem'
    BY <1>0, <1>2 DEF FinishSent
  <1>3. ASSUME NEW s \in Slots, FinishFailed(s)
        PROVE  disk' = mem'
    <2>1. CASE mem[flow[s].job] = NoRow
      BY <1>3, <2>1 DEF FinishFailed, RecordFailure, DiskInStep
    <2>2. CASE mem[flow[s].job] # NoRow
      BY <1>0, <1>3, <2>2 DEF FinishFailed
    <2> QED
      BY <2>1, <2>2
  <1>4. ASSUME NEW s \in Slots, FinishAbandoned(s)
        PROVE  disk' = mem'
    BY <1>0, <1>4 DEF FinishAbandoned
  <1>5. ASSUME NEW s \in Slots, RetryTick(s) \/ PrinterAnswers(s)
        PROVE  disk' = mem'
    BY <1>5 DEF RetryTick, PrinterAnswers, DiskInStep, table
  <1>6. ASSUME Crash \/ Shutdown
        PROVE  FALSE
    BY <1>6 DEF Crash, Shutdown, Halt
  <1>7. CASE Boot
    BY <1>7, BootFacts DEF Boot, IInv, DownIsEmpty
  <1>8. CASE Elapse
    BY <1>8 DEF Elapse, DiskInStep
  <1>9. CASE UNCHANGED vars
    BY <1>9 DEF vars, DiskInStep
  <1> QED
    BY <1>1, <1>2, <1>3, <1>4, <1>5, <1>6, <1>7, <1>8, <1>9 DEF Next

(***************************************************************************)
(* After any write that succeeds, a crash at any await finds the table of  *)
(* the running agent on disk: attempts, abandonments, removals included.   *)
(***************************************************************************)
THEOREM FileFollowsTable == Spec => []DiskInStep
  <1>1. Init => DiskInStep
    BY DEF Init, DiskInStep
  <1> QED
    BY <1>1, DiskStep, Invariance, PTL DEF Spec
-----------------------------------------------------------------------------
(* A job that is held before a step and not after it.                      *)
LEMMA HeldStep ==
  ASSUME IInv, DiskInStep, [Next]_vars, NEW j \in Held, j \notin Held'
  PROVE  \/ j \in sent' \cup gaveUp'
         \/ mode = "up" /\ mode' # "up" /\ behind
         \/ mode # "up" /\ mode' # "up" /\ "truncated" \in WriteFaults /\ disk' = EmptyTable
  <1> j \in Jobs /\ mem \in Table /\ disk \in Table
    BY DEF IInv, TypeOK, Held, Present
  <1>1. ASSUME NEW s \in Slots, NEW i \in Jobs, HandleJob(s, i)
        PROVE  FALSE
    BY <1>1, EnqueueFacts DEF HandleJob, Held, Present
  <1>2. ASSUME NEW s \in Slots, FinishSent(s)
        PROVE  j \in sent'
    <2>1. flow[s].job \in Jobs /\ flow[s].job \in sent /\ sent' = sent
      BY <1>2 DEF FinishSent, IInv, Holds, OkMeansSent, ledger
    <2> QED
      BY <1>2, <2>1, RemoveFacts DEF FinishSent, Held, Present
  <1>3. ASSUME NEW s \in Slots, FinishFailed(s)
        PROVE  FALSE
    <2>1. flow[s].job \in Jobs
      BY <1>3 DEF FinishFailed, IInv, Holds
    <2> QED
      BY <1>3, <2>1, RecordFailureFacts DEF FinishFailed, Held, Present
  <1>4. ASSUME NEW s \in Slots, FinishAbandoned(s)
        PROVE  j \in gaveUp'
    <2>1. flow[s].job \in Jobs
      BY <1>4 DEF FinishAbandoned, IInv, Holds
    <2> QED
      BY <1>4, <2>1, RemoveAbandonedFacts DEF FinishAbandoned, Held, Present
  <1>5. ASSUME Crash \/ Shutdown
        PROVE  mode = "up" /\ mode' # "up" /\ behind
    BY <1>5 DEF Crash, Shutdown, Halt, Held, DiskInStep, Present
  <1>6. ASSUME Boot
        PROVE  mode # "up" /\ mode' # "up" /\ "truncated" \in WriteFaults /\ disk' = EmptyTable
    <2>1. mode # "up" /\ disk[j] # NoRow
      BY <1>6 DEF Boot, Held, Present
    <2>2. \A d \in Nat : j \in Present(Older(disk, d))
      BY <2>1, OlderFacts DEF Present
    <2>3. mode' = "up" => j \notin Present(mem')
      BY DEF Held
    <2>4. mode' # "up" => j \notin Present(disk')
      BY DEF Held
    <2> QED
      BY <1>6, <2>1, <2>2, <2>3, <2>4, BootFacts
  <1>7. ASSUME Elapse
        PROVE  FALSE
    BY <1>7, OlderFacts DEF Elapse, Held, Present
  <1> QED
    BY <1>1, <1>2, <1>3, <1>4, <1>5, <1>6, <1>7
    DEF Next, RetryTick, PrinterAnswers, Held, table, vars

(***************************************************************************)
(* A job the agent holds leaves done, with a process whose last write had  *)
(* failed, or with a file that a start truncated and could not write: for  *)
(* every mixture of flows and every way a write fails, that of a start     *)
(* included.                                                               *)
(***************************************************************************)
THEOREM NothingHeldIsLost == Spec => HeldUntilDone
  <1>1. IInv /\ DiskInStep /\ [Next]_vars =>
          [\/ Held \ Held' \subseteq sent' \cup gaveUp'
           \/ mode = "up" /\ mode' # "up" /\ behind
           \/ mode # "up" /\ mode' # "up" /\ "truncated" \in WriteFaults /\ disk' = EmptyTable]_vars
    BY HeldStep
  <1> QED
    BY <1>1, Invariance, FileFollowsTable, PTL DEF Spec, HeldUntilDone
-----------------------------------------------------------------------------
(***************************************************************************)
(* How far the count of attempts can go.  The invariant counts the flows   *)
(* that have an attempt at the job under way or still on their list: each  *)
(* of them may add one failure, a retry flow starts only on a live row,    *)
(* which is below the limit, and a delivery pays for the attempt it adds.  *)
(***************************************************************************)
Attempting(f, j) ==
  f.pc \in {"printing", "reportOk", "reportFail"} /\ (f.job = j \/ j \in f.todo)

Attempters(fl, j) == {s \in Slots : Attempting(fl[s], j)}

RowCounted(row, d, n) == row # NoRow => d >= 1 /\ row.attempts + n <= CountBound(d)

Counted ==
  /\ \A s \in Slots : flow[s].job \notin flow[s].todo
  /\ \A j \in Jobs :
       /\ RowCounted(mem[j], deliveries[j], Cardinality(Attempters(flow, j)))
       /\ RowCounted(disk[j], deliveries[j], 0)

LEMMA AttemptersSize ==
  ASSUME NEW fl, NEW j
  PROVE  /\ IsFiniteSet(Attempters(fl, j))
         /\ Cardinality(Attempters(fl, j)) \in Nat
         /\ Cardinality(Slots) \in Nat
         /\ Cardinality(Attempters(fl, j)) <= Cardinality(Slots)
  <1>1. Attempters(fl, j) \in SUBSET Slots
    BY DEF Attempters
  <1> QED
    BY <1>1, AgentConstants, FS_Subset, FS_CardinalityType DEF AgentConstants

(* Two sets of slots that differ in one slot at most.                      *)
LEMMA OneSlotChanges ==
  ASSUME NEW X \in SUBSET Slots, NEW Y \in SUBSET Slots, NEW s, X \ {s} = Y \ {s}
  PROVE  /\ Cardinality(X) \in Nat /\ Cardinality(Y) \in Nat
         /\ (s \in X <=> s \in Y) => Cardinality(Y) = Cardinality(X)
         /\ s \in X /\ s \notin Y => Cardinality(Y) = Cardinality(X) - 1
         /\ s \notin X /\ s \in Y => Cardinality(Y) = Cardinality(X) + 1
  <1>1. IsFiniteSet(X) /\ IsFiniteSet(Y)
    BY AgentConstants, FS_Subset DEF AgentConstants
  <1>2. Cardinality(X) \in Nat /\ Cardinality(Y) \in Nat
    BY <1>1, FS_CardinalityType
  <1>3. (s \in X <=> s \in Y) => X = Y
    OBVIOUS
  <1>4. /\ s \in X => Cardinality(X \ {s}) = Cardinality(X) - 1
        /\ s \notin X => Cardinality(X \ {s}) = Cardinality(X)
        /\ s \in Y => Cardinality(Y \ {s}) = Cardinality(Y) - 1
        /\ s \notin Y => Cardinality(Y \ {s}) = Cardinality(Y)
    BY <1>1, FS_RemoveElement
  <1> QED
    BY <1>2, <1>3, <1>4

(* One flow is replaced: the attempters of a job lose at most that flow,   *)
(* and gain it only if it takes the job on.                                *)
LEMMA OneFlowChanges ==
  ASSUME NEW fl \in [Slots -> Flow], NEW s \in Slots, NEW g, NEW j,
         NEW h, h = [fl EXCEPT ![s] = g]
  PROVE  LET n == Cardinality(Attempters(fl, j))
             m == Cardinality(Attempters(h, j))
         IN  /\ m <= n + 1
             /\ (Attempting(g, j) => Attempting(fl[s], j)) => m <= n
             /\ Attempting(fl[s], j) /\ ~Attempting(g, j) => m <= n - 1
  <1> DEFINE A == Attempters(fl, j)
             B == Attempters(h, j)
  <1>1. h[s] = g /\ \A x \in Slots \ {s} : h[x] = fl[x]
    OBVIOUS
  <1>2. /\ A \in SUBSET Slots /\ B \in SUBSET Slots /\ A \ {s} = B \ {s}
        /\ s \in A <=> Attempting(fl[s], j)
        /\ s \in B <=> Attempting(g, j)
    BY <1>1 DEF Attempters
  <1> HIDE DEF A, B
  <1>3. /\ Cardinality(A) \in Nat /\ Cardinality(B) \in Nat
        /\ (s \in A <=> s \in B) => Cardinality(B) = Cardinality(A)
        /\ s \in A /\ s \notin B => Cardinality(B) = Cardinality(A) - 1
        /\ s \notin A /\ s \in B => Cardinality(B) = Cardinality(A) + 1
    BY <1>2, OneSlotChanges
  <1>4. /\ Cardinality(B) <= Cardinality(A) + 1
        /\ (Attempting(g, j) => Attempting(fl[s], j)) => Cardinality(B) <= Cardinality(A)
        /\ Attempting(fl[s], j) /\ ~Attempting(g, j) => Cardinality(B) <= Cardinality(A) - 1
    BY <1>2, <1>3
  <1> QED
    BY <1>4 DEF A, B

(* A flow goes on only with what was on its list, and takes each job off   *)
(* the list before it attempts it.                                         *)
LEMMA GoesOn ==
  ASSUME NEW todo \in SUBSET Jobs, NEW t, NEW g \in NextDue(todo, t)
  PROVE  /\ g.job \notin g.todo
         /\ \A j \in Jobs : Attempting(g, j) => j \in todo
  <1> USE AgentConstants DEF AgentConstants
  <1>1. CASE todo # {}
    BY <1>1 DEF NextDue, Attempt, Attempting
  <1>2. CASE todo = {}
    BY <1>2 DEF NextDue, NextAbandoned, Abandonment, Free, Attempting
  <1> QED
    BY <1>1, <1>2

LEMMA GivesUp ==
  ASSUME NEW todo \in SUBSET Jobs, NEW g \in NextAbandoned(todo) \cup {Free}
  PROVE  g.job \notin g.todo /\ \A j \in Jobs : ~Attempting(g, j)
  BY AgentConstants DEF AgentConstants, NextAbandoned, Abandonment, Free, Attempting

LEMMA GoesOnAfter ==
  ASSUME NEW f \in Flow, NEW t, NEW w, NEW g \in AfterAttempt(f, t, w)
  PROVE  /\ g.job \notin g.todo
         /\ \A j \in Jobs : Attempting(g, j) => j \in f.todo
  <1>1. f.todo \in SUBSET Jobs
    BY DEF Flow
  <1> QED
    BY <1>1, GoesOn, GivesUp DEF AfterAttempt

LEMMA CountTypes ==
  ASSUME IInv, NEW j \in Jobs
  PROVE  /\ deliveries[j] \in Nat
         /\ mem[j] # NoRow => mem[j].attempts \in Nat
         /\ disk[j] # NoRow => disk[j].attempts \in Nat
         /\ MaxAttempts \in Nat /\ MaxAttempts >= 1
  <1>1. \A t \in Table : t[j] # NoRow => t[j].attempts \in Nat
    BY DEF Table, Row
  <1> QED
    BY <1>1, TableConstants DEF IInv, TypeOK, TableConstants

(* The step of one flow.  It is enough to look at the table in memory: the *)
(* file holds a row of the new table, a row it held, or none.              *)
LEMMA CountedStep ==
  ASSUME IInv, IInv', Counted, NEW s \in Slots, NEW g,
         flow' = [flow EXCEPT ![s] = g] \/ flow' = flow,
         g.job \notin g.todo,
         \A j \in Jobs : /\ deliveries'[j] >= deliveries[j]
                         /\ disk'[j] \in {NoRow, disk[j], mem'[j]}
                         /\ RowCounted(mem'[j], deliveries'[j], Cardinality(Attempters(flow', j)))
  PROVE  Counted'
  <1>1. \A x \in Slots : flow'[x].job \notin flow'[x].todo
    BY DEF Counted, IInv, TypeOK
  <1>2. ASSUME NEW j \in Jobs
        PROVE  RowCounted(disk'[j], deliveries'[j], 0)
    <2> DEFINE m == Cardinality(Attempters(flow', j))
    <2>1. m \in Nat /\ Cardinality(Slots) \in Nat
      BY AttemptersSize
    <2>2. deliveries[j] \in Nat /\ deliveries'[j] \in Nat /\ MaxAttempts \in Nat
      BY CountTypes DEF IInv, TypeOK
    <2>3. /\ disk[j] # NoRow => disk[j].attempts \in Nat
          /\ mem'[j] # NoRow => mem'[j].attempts \in Nat
      BY CountTypes DEF IInv, TypeOK, Table, Row
    <2>4. RowCounted(disk[j], deliveries[j], 0) /\ RowCounted(mem'[j], deliveries'[j], m)
      BY DEF Counted
    <2> HIDE DEF m
    <2> QED
      BY <2>1, <2>2, <2>3, <2>4 DEF RowCounted, CountBound
  <1> QED
    BY <1>1, <1>2 DEF Counted

LEMMA PersistRows ==
  ASSUME NEW t, NEW w \in WriteOutcomes, NEW j \in Jobs, Persist(t, w)
  PROVE  disk'[j] \in {NoRow, disk[j], t[j]}
  BY DEF Persist, EmptyTable

LEMMA HandleJobCounted ==
  ASSUME IInv, IInv', Counted, NEW s \in Slots, NEW i \in Jobs, HandleJob(s, i)
  PROVE  Counted'
  <1> DEFINE g == Attempt("live", i, {})
  <1>1. flow \in [Slots -> Flow] /\ mem \in Table /\ mem' \in Table
    BY DEF IInv, TypeOK
  <1>2. flow' = [flow EXCEPT ![s] = g] \/ flow' = flow
    BY DEF HandleJob
  <1>3. g.job \notin g.todo /\ \A j \in Jobs \ {i} : ~Attempting(g, j)
    BY DEF Attempt, Attempting
  <1>4. ASSUME NEW j \in Jobs
        PROVE  /\ deliveries'[j] >= deliveries[j]
               /\ disk'[j] \in {NoRow, disk[j], mem'[j]}
               /\ RowCounted(mem'[j], deliveries'[j], Cardinality(Attempters(flow', j)))
    <2> DEFINE n == Cardinality(Attempters(flow, j))
               m == Cardinality(Attempters(flow', j))
    <2>1. n \in Nat /\ m \in Nat /\ Cardinality(Slots) \in Nat /\ m <= Cardinality(Slots)
      BY AttemptersSize
    <2>2. m <= n + 1 /\ (j # i => m <= n)
      <3>1. CASE flow' = flow
        BY <2>1, <3>1
      <3>2. CASE flow' = [flow EXCEPT ![s] = g]
        <4> HIDE DEF g
        <4> QED
          BY <1>1, <1>3, <3>2, OneFlowChanges
      <3> QED
        BY <1>2, <3>1, <3>2
    <2>3. deliveries'[j] = IF j = i THEN deliveries[j] + 1 ELSE deliveries[j]
      BY DEF HandleJob, IInv, TypeOK
    <2>4. /\ mem[j] # NoRow => mem'[j] = mem[j]
          /\ mem[j] = NoRow /\ j = i => mem'[j].attempts = 0
          /\ mem[j] = NoRow /\ j # i => mem'[j] = NoRow
      BY <1>1, EnqueueFacts DEF HandleJob
    <2>5. RowCounted(mem[j], deliveries[j], n)
      BY DEF Counted
    <2>6. disk'[j] \in {NoRow, disk[j], mem'[j]}
      BY PersistRows DEF HandleJob
    <2> HIDE DEF n, m
    <2>7. RowCounted(mem'[j], deliveries'[j], m)
      BY <2>1, <2>2, <2>3, <2>4, <2>5, CountTypes DEF RowCounted, CountBound
    <2>8. deliveries'[j] >= deliveries[j]
      BY <2>3, CountTypes
    <2> QED
      BY <2>6, <2>7, <2>8 DEF m
  <1> HIDE DEF g
  <1> QED
    BY <1>2, <1>3, <1>4, CountedStep
(* Only a live row starts a retry, and a live row is below the limit.      *)
LEMMA RetryTickCounted ==
  ASSUME IInv, IInv', Counted, NEW s \in Slots, RetryTick(s)
  PROVE  Counted'
  <1>1. flow \in [Slots -> Flow] /\ DueJobs(mem) \in SUBSET Jobs
    BY DEF IInv, TypeOK, DueJobs, Present
  <1>2. PICK g \in NextDue(DueJobs(mem), mem) : flow' = [flow EXCEPT ![s] = g]
    BY DEF RetryTick
  <1>3. g.job \notin g.todo /\ \A j \in Jobs : Attempting(g, j) => j \in DueJobs(mem)
    BY <1>1, GoesOn
  <1>4. UNCHANGED <<mem, disk, deliveries>>
    BY DEF RetryTick, table, bounds
  <1>5. ASSUME NEW j \in Jobs
        PROVE  RowCounted(mem'[j], deliveries'[j], Cardinality(Attempters(flow', j)))
    <2> DEFINE n == Cardinality(Attempters(flow, j))
               m == Cardinality(Attempters(flow', j))
    <2>1. n \in Nat /\ m \in Nat /\ Cardinality(Slots) \in Nat /\ m <= Cardinality(Slots)
      BY AttemptersSize
    <2>2. RowCounted(mem[j], deliveries[j], n)
      BY DEF Counted
    <2>3. CASE j \in DueJobs(mem)
      <3>1. mem[j] # NoRow => mem[j].attempts < MaxAttempts
        BY <2>3 DEF DueJobs, IInv, Sound
      <3> HIDE DEF n, m
      <3>2. RowCounted(mem[j], deliveries[j], m)
        BY <2>1, <2>2, <3>1, CountTypes DEF RowCounted, CountBound
      <3> QED
        BY <1>4, <3>2 DEF m
    <2>4. CASE j \notin DueJobs(mem)
      <3>1. m <= n
        BY <1>1, <1>2, <1>3, <2>4, OneFlowChanges
      <3> HIDE DEF n, m
      <3>2. RowCounted(mem[j], deliveries[j], m)
        BY <2>1, <2>2, <3>1, CountTypes DEF RowCounted, CountBound
      <3> QED
        BY <1>4, <3>2 DEF m
    <2> QED
      BY <2>3, <2>4
  <1>6. \A j \in Jobs : deliveries'[j] >= deliveries[j] /\ disk'[j] = disk[j]
    BY <1>4, CountTypes
  <1> QED
    BY <1>2, <1>3, <1>5, <1>6, CountedStep

(* A step that keeps the row or deletes it, and attempts no more than      *)
(* before: an answer of the printer, a report that comes back.             *)
LEMMA QuietStepCounted ==
  ASSUME IInv, IInv', Counted, NEW s \in Slots, NEW g,
         flow' = [flow EXCEPT ![s] = g], g.job \notin g.todo,
         deliveries' = deliveries,
         \A j \in Jobs : /\ Attempting(g, j) => Attempting(flow[s], j)
                         /\ mem'[j] \in {mem[j], NoRow}
                         /\ disk'[j] \in {NoRow, disk[j], mem'[j]}
  PROVE  Counted'
  <1>1. flow \in [Slots -> Flow]
    BY DEF IInv, TypeOK
  <1>2. ASSUME NEW j \in Jobs
        PROVE  RowCounted(mem'[j], deliveries'[j], Cardinality(Attempters(flow', j)))
    <2> DEFINE n == Cardinality(Attempters(flow, j))
               m == Cardinality(Attempters(flow', j))
    <2>1. n \in Nat /\ m \in Nat /\ Cardinality(Slots) \in Nat
      BY AttemptersSize
    <2>2. RowCounted(mem[j], deliveries[j], n)
      BY DEF Counted
    <2>3. m <= n
      BY <1>1, OneFlowChanges
    <2> HIDE DEF n, m
    <2>4. RowCounted(mem'[j], deliveries'[j], m)
      BY <2>1, <2>2, <2>3, CountTypes DEF RowCounted, CountBound
    <2> QED
      BY <2>4 DEF m
  <1>3. \A j \in Jobs : deliveries'[j] >= deliveries[j]
    BY CountTypes
  <1> QED
    BY <1>2, <1>3, CountedStep

LEMMA PrinterAnswersCounted ==
  ASSUME IInv, IInv', Counted, NEW s \in Slots, PrinterAnswers(s)
  PROVE  Counted'
  <1>1. flow[s] \in Flow /\ flow[s].pc = "printing" /\ flow[s].job \notin flow[s].todo
    BY DEF IInv, TypeOK, PrinterAnswers, Counted
  <1>2. PICK pc \in {"reportOk", "reportFail"} : flow' = [flow EXCEPT ![s].pc = pc]
    BY DEF PrinterAnswers
  <1> DEFINE g == [flow[s] EXCEPT !.pc = pc]
  <1>3. g.pc = pc /\ g.job = flow[s].job /\ g.todo = flow[s].todo
    BY <1>1 DEF Flow
  <1>4. flow' = [flow EXCEPT ![s] = g]
    BY <1>2
  <1>5. UNCHANGED <<mem, disk, deliveries>>
    BY DEF PrinterAnswers, table, bounds
  <1> HIDE DEF g
  <1>6. g.job \notin g.todo /\ \A j \in Jobs : Attempting(g, j) => Attempting(flow[s], j)
    BY <1>1, <1>3 DEF Attempting
  <1> QED
    BY <1>4, <1>5, <1>6, QuietStepCounted

LEMMA FinishSentCounted ==
  ASSUME IInv, IInv', Counted, NEW s \in Slots, FinishSent(s)
  PROVE  Counted'
  <1>1. flow[s] \in Flow /\ flow[s].job \in Jobs /\ mem \in Table /\ flow[s].pc = "reportOk"
    BY DEF IInv, TypeOK, Holds, FinishSent
  <1>2. PICK w \in WriteOutcomes :
          /\ Persist(mem', w)
          /\ \E g \in AfterAttempt(flow[s], mem', w) : flow' = [flow EXCEPT ![s] = g]
    BY DEF FinishSent
  <1>3. PICK g \in AfterAttempt(flow[s], mem', w) : flow' = [flow EXCEPT ![s] = g]
    BY <1>2
  <1>4. g.job \notin g.todo /\ \A j \in Jobs : Attempting(g, j) => Attempting(flow[s], j)
    BY <1>1, GoesOnAfter DEF Attempting
  <1>5. \A j \in Jobs : /\ mem'[j] \in {mem[j], NoRow}
                        /\ disk'[j] \in {NoRow, disk[j], mem'[j]}
    BY <1>1, <1>2, RemoveFacts, PersistRows DEF FinishSent
  <1> QED
    BY <1>3, <1>4, <1>5, QuietStepCounted DEF FinishSent, bounds

LEMMA FinishAbandonedCounted ==
  ASSUME IInv, IInv', Counted, NEW s \in Slots, FinishAbandoned(s)
  PROVE  Counted'
  <1>1. flow[s].todo \in SUBSET Jobs /\ flow[s].job \in Jobs /\ mem \in Table
    BY DEF IInv, TypeOK, Flow, Holds, FinishAbandoned
  <1>2. PICK w \in WriteOutcomes :
          /\ Persist(mem', w)
          /\ \E g \in NextAbandoned(flow[s].todo) \cup {Free} : flow' = [flow EXCEPT ![s] = g]
    BY DEF FinishAbandoned
  <1>3. PICK g \in NextAbandoned(flow[s].todo) \cup {Free} : flow' = [flow EXCEPT ![s] = g]
    BY <1>2
  <1>4. g.job \notin g.todo /\ \A j \in Jobs : ~Attempting(g, j)
    BY <1>1, GivesUp
  <1>5. \A j \in Jobs : /\ mem'[j] \in {mem[j], NoRow}
                        /\ disk'[j] \in {NoRow, disk[j], mem'[j]}
    BY <1>1, <1>2, RemoveAbandonedFacts, PersistRows DEF FinishAbandoned
  <1> QED
    BY <1>3, <1>4, <1>5, QuietStepCounted DEF FinishAbandoned, bounds

(* A failure adds one to the count and ends one attempt.                   *)
LEMMA FinishFailedCounted ==
  ASSUME IInv, IInv', Counted, NEW s \in Slots, FinishFailed(s)
  PROVE  Counted'
  <1> DEFINE i == flow[s].job
  <1>1. /\ flow \in [Slots -> Flow] /\ flow[s] \in Flow /\ i \in Jobs
        /\ mem \in Table /\ i \notin flow[s].todo /\ flow[s].pc = "reportFail"
    BY DEF IInv, TypeOK, Holds, FinishFailed, Counted
  <1>2. PICK w \in WriteOutcomes :
          /\ disk' = disk \/ Persist(mem', w)
          /\ \E g \in AfterAttempt(flow[s], mem', w) : flow' = [flow EXCEPT ![s] = g]
    BY DEF FinishFailed
  <1>3. PICK g \in AfterAttempt(flow[s], mem', w) : flow' = [flow EXCEPT ![s] = g]
    BY <1>2
  <1>4. g.job \notin g.todo /\ \A j \in Jobs : Attempting(g, j) => j \in flow[s].todo
    BY <1>1, GoesOnAfter
  <1>5. deliveries' = deliveries /\ mem' = RecordFailure(mem, i)
    BY DEF FinishFailed, bounds
  <1>6. ASSUME NEW j \in Jobs
        PROVE  RowCounted(mem'[j], deliveries'[j], Cardinality(Attempters(flow', j)))
    <2> DEFINE n == Cardinality(Attempters(flow, j))
               m == Cardinality(Attempters(flow', j))
    <2>1. n \in Nat /\ m \in Nat /\ Cardinality(Slots) \in Nat
      BY AttemptersSize
    <2>2. RowCounted(mem[j], deliveries[j], n)
      BY DEF Counted
    <2>3. m <= n /\ (j = i => m <= n - 1)
      <3>1. Attempting(g, j) => Attempting(flow[s], j)
        BY <1>1, <1>4 DEF Attempting
      <3>2. j = i => Attempting(flow[s], j) /\ ~Attempting(g, j)
        BY <1>1, <1>4 DEF Attempting
      <3> HIDE DEF i
      <3> QED
        BY <1>1, <1>3, <3>1, <3>2, OneFlowChanges
    <2>4. /\ mem[j] = NoRow => mem'[j] = NoRow
          /\ j # i => mem'[j] = mem[j]
          /\ j = i /\ mem[j] # NoRow => mem'[j].attempts = mem[j].attempts + 1
      <3>1. mem[i] # NoRow => mem[i] \in Row
        BY <1>1 DEF Table
      <3> QED
        BY <1>1, <1>5, <3>1, RecordFailureFacts, FailedRowFacts
    <2> HIDE DEF n, m, i
    <2>5. RowCounted(mem'[j], deliveries[j], m)
      BY <2>1, <2>2, <2>3, <2>4, CountTypes DEF RowCounted, CountBound
    <2> QED
      BY <1>5, <2>5 DEF m
  <1>7. \A j \in Jobs : /\ deliveries'[j] >= deliveries[j]
                        /\ disk'[j] \in {NoRow, disk[j], mem'[j]}
    BY <1>2, <1>5, CountTypes, PersistRows
  <1> QED
    BY <1>3, <1>4, <1>6, <1>7, CountedStep

LEMMA CountedNext == IInv /\ IInv' /\ Counted /\ [Next]_vars => Counted'
  <1> SUFFICES ASSUME IInv, IInv', Counted, [Next]_vars PROVE Counted'
    OBVIOUS
  <1> mem \in Table /\ disk \in Table
    BY DEF IInv, TypeOK
  <1>1. CASE Crash \/ Shutdown
    <2>1. /\ flow' = [s \in Slots |-> Free] /\ mem' = EmptyTable
          /\ disk' = disk /\ deliveries' = deliveries
      BY <1>1 DEF Crash, Shutdown, Halt
    <2>2. Free.job \notin Free.todo
      BY DEF Free
    <2> QED
      BY <2>1, <2>2 DEF Counted, RowCounted, EmptyTable
  <1>2. CASE Boot
    <2>1. PICK d \in Nat : /\ mem' \in {Older(disk, d), mem}
                           /\ disk' \in {Older(disk, d), EmptyTable}
      BY <1>2, BootFacts
    <2>2. flow' = flow /\ deliveries' = deliveries /\ mode # "up"
      BY <1>2 DEF Boot, bounds
    <2>3. ASSUME NEW j \in Jobs
          PROVE  Cardinality(Attempters(flow, j)) = 0
      <3>1. Attempters(flow, j) = {}
        BY <2>2 DEF IInv, DownIsEmpty, Attempters, Attempting, Free
      <3> QED
        BY <3>1, FS_EmptySet
    <2>4. \A j \in Jobs : RowCounted(Older(disk, d)[j], deliveries[j], 0)
      BY OlderFacts DEF Counted, RowCounted
    <2>5. \A j \in Jobs : RowCounted(EmptyTable[j], deliveries[j], 0)
      BY DEF EmptyTable, RowCounted
    <2>6. \A j \in Jobs : RowCounted(mem[j], deliveries[j], 0)
      BY <2>3 DEF Counted
    <2> QED
      BY <2>1, <2>2, <2>3, <2>4, <2>5, <2>6 DEF Counted
  <1>3. CASE Elapse
    <2>1. ASSUME NEW t \in Table, NEW j \in Jobs, NEW d, NEW n, RowCounted(t[j], d, n)
          PROVE  RowCounted(Older(t, 1)[j], d, n)
      BY <2>1, OlderFacts DEF RowCounted
    <2> QED
      BY <1>3, <2>1 DEF Elapse, Counted, bounds
  <1>4. CASE UNCHANGED vars
    BY <1>4 DEF vars, Counted
  <1> QED
    BY <1>1, <1>2, <1>3, <1>4, HandleJobCounted, RetryTickCounted, PrinterAnswersCounted,
       FinishSentCounted, FinishFailedCounted, FinishAbandonedCounted DEF Next

THEOREM CountedInvariance == Spec => []Counted
  <1>1. Init => Counted
    BY DEF Init, Counted, RowCounted, EmptyTable, Free
  <1>2. IInv /\ IInv' /\ Counted /\ [Next]_vars => Counted'
    BY CountedNext
  <1> QED
    BY <1>1, <1>2, Invariance, PTL DEF Spec

(***************************************************************************)
(* The count of a job passes MAX_ATTEMPTS by no more than the overlapping  *)
(* flows and the repeated deliveries account for: the excess does not grow *)
(* with restarts, with failed writes, or with time.                        *)
(***************************************************************************)
THEOREM AttemptsStayBounded == Spec => []AttemptsBounded
  <1>1. IInv /\ Counted => AttemptsBounded
    <2> SUFFICES ASSUME IInv, Counted, NEW j \in Jobs
                 PROVE  /\ mem[j] # NoRow => mem[j].attempts <= CountBound(deliveries[j])
                        /\ disk[j] # NoRow => disk[j].attempts <= CountBound(deliveries[j])
      BY DEF AttemptsBounded
    <2> DEFINE n == Cardinality(Attempters(flow, j))
    <2>1. n \in Nat /\ Cardinality(Slots) \in Nat
      BY AttemptersSize
    <2>2. RowCounted(mem[j], deliveries[j], n) /\ RowCounted(disk[j], deliveries[j], 0)
      BY DEF Counted
    <2> HIDE DEF n
    <2> QED
      BY <2>1, <2>2, CountTypes DEF RowCounted, CountBound
  <1> QED
    BY <1>1, Invariance, CountedInvariance, PTL
-----------------------------------------------------------------------------
(***************************************************************************)
(* How often a ticket is printed.  While a job has a row, flows may take   *)
(* it up again and again, but a flow that has printed it stays on its      *)
(* report until it deletes the row: so the prints of one life of the row   *)
(* are by different flows.  Once the row is gone no flow takes the job up, *)
(* and what is left to print is in the hands of the others.  A delivery or *)
(* a restart may bring the row back, and pays for one print by every flow. *)
(***************************************************************************)
WillPrint(f, j) ==
  \/ f.pc = "printing" /\ f.job = j
  \/ f.pc \in {"printing", "reportOk", "reportFail"} /\ j \in f.todo

HasPrinted(f, j) == f.pc = "reportOk" /\ f.job = j

Will(fl, j) == {s \in Slots : WillPrint(fl[s], j)}

Has(fl, j) == {s \in Slots : HasPrinted(fl[s], j)}

Allowance(d, n) == Cardinality(Slots) * (d + n)

Paid(row, up, p, will, has, k) ==
  /\ row = NoRow => p + will <= k
  /\ row # NoRow \/ ~up => p + Cardinality(Slots) <= k + has

PrintsPaid ==
  \A j \in Jobs :
    Paid(mem[j], mode = "up", prints[j], Cardinality(Will(flow, j)),
         Cardinality(Has(flow, j)), Allowance(deliveries[j], stops))

LEMMA AllowanceFacts ==
  ASSUME NEW d \in Nat, NEW n \in Nat
  PROVE  /\ Cardinality(Slots) \in Nat
         /\ Allowance(d, n) \in Nat
         /\ Allowance(d + 1, n) = Allowance(d, n) + Cardinality(Slots)
         /\ Allowance(d, n + 1) = Allowance(d, n) + Cardinality(Slots)
  <1>1. Cardinality(Slots) \in Nat
    BY AgentConstants, FS_CardinalityType DEF AgentConstants
  <1>2. \A a, b \in Nat : /\ a * b \in Nat
                          /\ a * (b + 1) = a * b + a
    OBVIOUS
  <1>3. d + n \in Nat /\ (d + 1) + n = (d + n) + 1 /\ d + (n + 1) = (d + n) + 1
    OBVIOUS
  <1> QED
    BY <1>1, <1>2, <1>3 DEF Allowance

(* No flow has printed a job and is to print it too.                       *)
LEMMA PrintersApart ==
  ASSUME NEW fl, \A s \in Slots : fl[s].job \notin fl[s].todo, NEW j
  PROVE  /\ Cardinality(Will(fl, j)) \in Nat
         /\ Cardinality(Has(fl, j)) \in Nat
         /\ Cardinality(Will(fl, j)) + Cardinality(Has(fl, j)) <= Cardinality(Slots)
  <1> DEFINE W == Will(fl, j)
             H == Has(fl, j)
  <1>1. W \in SUBSET Slots /\ H \in SUBSET Slots /\ W \cap H = {} /\ W \cup H \in SUBSET Slots
    BY DEF Will, Has, WillPrint, HasPrinted
  <1> HIDE DEF W, H
  <1>2. IsFiniteSet(Slots) /\ IsFiniteSet(W) /\ IsFiniteSet(H)
    BY <1>1, AgentConstants, FS_Subset DEF AgentConstants
  <1>3. Cardinality(W) \in Nat /\ Cardinality(H) \in Nat /\ Cardinality(Slots) \in Nat
    BY <1>2, FS_CardinalityType
  <1>4. Cardinality(W \cup H) = Cardinality(W) + Cardinality(H)
    <2>1. Cardinality(W \cup H) = Cardinality(W) + Cardinality(H) - Cardinality(W \cap H)
      BY <1>2, FS_Union
    <2>2. Cardinality(W \cap H) = 0
      BY <1>1, FS_EmptySet
    <2> QED
      BY <1>3, <2>1, <2>2
  <1>5. Cardinality(W \cup H) <= Cardinality(Slots)
    BY <1>1, <1>2, FS_Subset
  <1> QED
    BY <1>3, <1>4, <1>5 DEF W, H

(* Slot s is the only one to change, and runs g.                           *)
Replaced(fl, s, g, h) == h = [fl EXCEPT ![s] = g]

LEMMA ToPrintChanges ==
  ASSUME NEW fl \in [Slots -> Flow], NEW s \in Slots, NEW g, NEW j,
         NEW h, Replaced(fl, s, g, h)
  PROVE  /\ Cardinality(Will(fl, j)) \in Nat /\ Cardinality(Will(h, j)) \in Nat
         /\ (WillPrint(g, j) => WillPrint(fl[s], j)) =>
              Cardinality(Will(h, j)) <= Cardinality(Will(fl, j))
         /\ WillPrint(fl[s], j) /\ ~WillPrint(g, j) =>
              Cardinality(Will(h, j)) = Cardinality(Will(fl, j)) - 1
  <1> DEFINE A == Will(fl, j)
             B == Will(h, j)
  <1>1. h[s] = g /\ \A x \in Slots \ {s} : h[x] = fl[x]
    BY DEF Replaced
  <1>2. /\ A \in SUBSET Slots /\ B \in SUBSET Slots /\ A \ {s} = B \ {s}
        /\ s \in A <=> WillPrint(fl[s], j)
        /\ s \in B <=> WillPrint(g, j)
    BY <1>1 DEF Will
  <1> HIDE DEF A, B
  <1>3. /\ Cardinality(A) \in Nat /\ Cardinality(B) \in Nat
        /\ (s \in A <=> s \in B) => Cardinality(B) = Cardinality(A)
        /\ s \in A /\ s \notin B => Cardinality(B) = Cardinality(A) - 1
    BY <1>2, OneSlotChanges
  <1>4. /\ (WillPrint(g, j) => WillPrint(fl[s], j)) => Cardinality(B) <= Cardinality(A)
        /\ WillPrint(fl[s], j) /\ ~WillPrint(g, j) => Cardinality(B) = Cardinality(A) - 1
    BY <1>2, <1>3
  <1> QED
    BY <1>3, <1>4 DEF A, B

LEMMA PrintedChanges ==
  ASSUME NEW fl \in [Slots -> Flow], NEW s \in Slots, NEW g, NEW j,
         NEW h, Replaced(fl, s, g, h), ~HasPrinted(fl[s], j)
  PROVE  /\ Cardinality(Has(fl, j)) \in Nat
         /\ Cardinality(Has(h, j)) =
              IF HasPrinted(g, j) THEN Cardinality(Has(fl, j)) + 1 ELSE Cardinality(Has(fl, j))
  <1> DEFINE C == Has(fl, j)
             D == Has(h, j)
  <1>1. h[s] = g /\ \A x \in Slots \ {s} : h[x] = fl[x]
    BY DEF Replaced
  <1>2. /\ C \in SUBSET Slots /\ D \in SUBSET Slots /\ C \ {s} = D \ {s}
        /\ s \notin C
        /\ s \in D <=> HasPrinted(g, j)
    BY <1>1 DEF Has
  <1> HIDE DEF C, D
  <1>3. /\ Cardinality(C) \in Nat
        /\ (s \in C <=> s \in D) => Cardinality(D) = Cardinality(C)
        /\ s \notin C /\ s \in D => Cardinality(D) = Cardinality(C) + 1
    BY <1>2, OneSlotChanges
  <1>4. Cardinality(D) = IF HasPrinted(g, j) THEN Cardinality(C) + 1 ELSE Cardinality(C)
    BY <1>2, <1>3
  <1> QED
    BY <1>3, <1>4 DEF C, D

LEMMA PaidTypes ==
  ASSUME IInv, NEW j \in Jobs
  PROVE  /\ prints[j] \in Nat
         /\ Cardinality(Slots) \in Nat
         /\ Allowance(deliveries[j], stops) \in Nat
  BY AllowanceFacts DEF IInv, TypeOK

(* One job in a step of one flow that prints nothing and starts no life of *)
(* a row: the row stays, or it is gone and no flow takes the job up.       *)
LEMMA QuietPaid ==
  ASSUME IInv, Counted, PrintsPaid, NEW s \in Slots, NEW g, NEW j \in Jobs,
         flow' = [flow EXCEPT ![s] = g],
         mode' = "up", mode = "up",
         mem'[j] = NoRow => (WillPrint(g, j) => WillPrint(flow[s], j)),
         \/ mem'[j] = NoRow
         \/ mem[j] # NoRow /\ ~HasPrinted(g, j) /\ ~HasPrinted(flow[s], j)
  PROVE  Paid(mem'[j], TRUE, prints[j], Cardinality(Will(flow', j)),
              Cardinality(Has(flow', j)), Allowance(deliveries[j], stops))
  <1> DEFINE S == Cardinality(Slots)
             p == prints[j]
             k == Allowance(deliveries[j], stops)
             w == Cardinality(Will(flow, j))
             v == Cardinality(Will(flow', j))
             b == Cardinality(Has(flow, j))
             c == Cardinality(Has(flow', j))
  <1>1. S \in Nat /\ p \in Nat /\ k \in Nat
    BY PaidTypes
  <1>2. w + b <= S
    BY PrintersApart DEF Counted
  <1>3. flow \in [Slots -> Flow] /\ Replaced(flow, s, g, flow')
    BY DEF IInv, TypeOK, Replaced
  <1>4. /\ w \in Nat /\ v \in Nat
        /\ (WillPrint(g, j) => WillPrint(flow[s], j)) => v <= w
    BY <1>3, ToPrintChanges
  <1>5. /\ b \in Nat
        /\ mem'[j] # NoRow => c = b
    <2>1. b \in Nat
      BY PrintersApart DEF Counted
    <2>2. ASSUME ~HasPrinted(g, j), ~HasPrinted(flow[s], j) PROVE c = b
      <3>1. c = IF HasPrinted(g, j) THEN b + 1 ELSE b
        BY <1>3, <2>2, PrintedChanges
      <3> QED
        BY <2>2, <3>1
    <2> QED
      BY <2>1, <2>2
  <1>6. /\ mem[j] = NoRow => p + w <= k
        /\ mem[j] # NoRow => p + S <= k + b
    BY DEF PrintsPaid, Paid
  <1> HIDE DEF S, p, k, w, v, b, c
  <1>7. mem'[j] = NoRow => p + v <= k
    BY <1>1, <1>2, <1>4, <1>5, <1>6
  <1>8. mem'[j] # NoRow => p + S <= k + c
    BY <1>1, <1>5, <1>6
  <1>9. Paid(mem'[j], TRUE, p, v, c, k)
    BY <1>7, <1>8 DEF Paid, S
  <1> QED
    BY <1>9 DEF p, v, c, k

(* A step in which all is quiet, for every job.                            *)
LEMMA QuietStepPaid ==
  ASSUME IInv, Counted, PrintsPaid, NEW s \in Slots, NEW g,
         flow' = [flow EXCEPT ![s] = g],
         mode' = "up", mode = "up", UNCHANGED <<prints, deliveries, stops>>,
         \A j \in Jobs :
           /\ mem'[j] = NoRow => (WillPrint(g, j) => WillPrint(flow[s], j))
           /\ \/ mem'[j] = NoRow
              \/ mem[j] # NoRow /\ ~HasPrinted(g, j) /\ ~HasPrinted(flow[s], j)
  PROVE  PrintsPaid'
  <1> SUFFICES ASSUME NEW j \in Jobs
               PROVE  Paid(mem'[j], mode' = "up", prints'[j], Cardinality(Will(flow', j)),
                           Cardinality(Has(flow', j)), Allowance(deliveries'[j], stops'))
    BY DEF PrintsPaid
  <1>1. Paid(mem'[j], TRUE, prints[j], Cardinality(Will(flow', j)),
             Cardinality(Has(flow', j)), Allowance(deliveries[j], stops))
    BY QuietPaid
  <1> QED
    BY <1>1

(* What a flow that starts or goes on is about to print was on its list,   *)
(* and it has printed nothing yet.                                         *)
LEMMA GoesOnPrinting ==
  ASSUME NEW todo \in SUBSET Jobs, NEW t, NEW g \in NextDue(todo, t)
  PROVE  \A j \in Jobs : (WillPrint(g, j) => j \in todo) /\ ~HasPrinted(g, j)
  <1>1. \A j \in Jobs : WillPrint(g, j) => Attempting(g, j)
    BY DEF WillPrint, Attempting
  <1>2. g.pc # "reportOk"
    <2>1. AbandonedJobs(t) \in SUBSET Jobs
      BY DEF AbandonedJobs, Present
    <2> QED
      BY NextDueFresh DEF FreshFlow
  <1> QED
    BY <1>1, <1>2, GoesOn DEF HasPrinted

LEMMA GoesOnAfterPrinting ==
  ASSUME NEW f \in Flow, NEW t, NEW w, NEW g \in AfterAttempt(f, t, w)
  PROVE  \A j \in Jobs : (WillPrint(g, j) => j \in f.todo) /\ ~HasPrinted(g, j)
  <1>1. \A j \in Jobs : WillPrint(g, j) => Attempting(g, j)
    BY DEF WillPrint, Attempting
  <1>2. g.pc # "reportOk"
    BY AfterAttemptFresh DEF FreshFlow
  <1> QED
    BY <1>1, <1>2, GoesOnAfter DEF HasPrinted

LEMMA GivesUpPrinting ==
  ASSUME NEW todo \in SUBSET Jobs, NEW g \in NextAbandoned(todo) \cup {Free}
  PROVE  \A j \in Jobs : ~WillPrint(g, j) /\ ~HasPrinted(g, j)
  BY DEF NextAbandoned, Abandonment, Free, WillPrint, HasPrinted

-----------------------------------------------------------------------------
LEMMA RetryTickPaid ==
  ASSUME IInv, Counted, PrintsPaid, NEW s \in Slots, RetryTick(s)
  PROVE  PrintsPaid'
  <1>1. DueJobs(mem) \in SUBSET Jobs
    BY DEF DueJobs, Present
  <1>2. PICK g \in NextDue(DueJobs(mem), mem) : flow' = [flow EXCEPT ![s] = g]
    BY DEF RetryTick
  <1>3. \A j \in Jobs : (WillPrint(g, j) => j \in DueJobs(mem)) /\ ~HasPrinted(g, j)
    BY <1>1, GoesOnPrinting
  <1>4. /\ UNCHANGED <<mem, prints, deliveries, stops>>
        /\ mode = "up" /\ mode' = "up"
        /\ flow[s] = Free
    BY DEF RetryTick, table, bounds, ledger
  <1>5. \A j \in Jobs : mem[j] = NoRow => ~WillPrint(g, j)
    BY <1>3 DEF DueJobs, Present
  <1>6. \A j \in Jobs : ~HasPrinted(flow[s], j)
    BY <1>4 DEF Free, HasPrinted
  <1> QED
    BY <1>2, <1>3, <1>4, <1>5, <1>6, QuietStepPaid

(* The flow that has printed deletes the row: what others have printed is  *)
(* paid for, and they are not among those still to print.                  *)
LEMMA FinishSentPaid ==
  ASSUME IInv, Counted, PrintsPaid, NEW s \in Slots, FinishSent(s)
  PROVE  PrintsPaid'
  <1>1. /\ flow[s] \in Flow /\ flow[s].job \in Jobs /\ mem \in Table
        /\ flow[s].pc = "reportOk"
    BY DEF IInv, TypeOK, Holds, FinishSent
  <1>2. PICK w \in WriteOutcomes : \E g \in AfterAttempt(flow[s], mem', w) :
          flow' = [flow EXCEPT ![s] = g]
    BY DEF FinishSent
  <1>3. PICK g \in AfterAttempt(flow[s], mem', w) : flow' = [flow EXCEPT ![s] = g]
    BY <1>2
  <1>4. \A j \in Jobs : /\ WillPrint(g, j) => WillPrint(flow[s], j)
                        /\ ~HasPrinted(g, j)
                        /\ HasPrinted(flow[s], j) => j = flow[s].job
    BY <1>1, GoesOnAfterPrinting DEF WillPrint, HasPrinted
  <1>5. /\ mem'[flow[s].job] = NoRow
        /\ \A j \in Jobs \ {flow[s].job} : mem'[j] = mem[j]
    BY <1>1, RemoveFacts DEF FinishSent
  <1>6. UNCHANGED <<prints, deliveries, stops>> /\ mode = "up" /\ mode' = "up"
    BY DEF FinishSent, bounds, ledger
  <1>7. \A j \in Jobs :
          \/ mem'[j] = NoRow
          \/ mem[j] # NoRow /\ ~HasPrinted(g, j) /\ ~HasPrinted(flow[s], j)
    BY <1>4, <1>5
  <1> QED
    BY <1>3, <1>4, <1>6, <1>7, QuietStepPaid

LEMMA FinishFailedPaid ==
  ASSUME IInv, Counted, PrintsPaid, NEW s \in Slots, FinishFailed(s)
  PROVE  PrintsPaid'
  <1>1. /\ flow[s] \in Flow /\ flow[s].job \in Jobs /\ mem \in Table
        /\ flow[s].pc = "reportFail"
    BY DEF IInv, TypeOK, Holds, FinishFailed
  <1>2. PICK w \in WriteOutcomes : \E g \in AfterAttempt(flow[s], mem', w) :
          flow' = [flow EXCEPT ![s] = g]
    BY DEF FinishFailed
  <1>3. PICK g \in AfterAttempt(flow[s], mem', w) : flow' = [flow EXCEPT ![s] = g]
    BY <1>2
  <1>4. \A j \in Jobs : /\ WillPrint(g, j) => WillPrint(flow[s], j)
                        /\ ~HasPrinted(g, j) /\ ~HasPrinted(flow[s], j)
    BY <1>1, GoesOnAfterPrinting DEF WillPrint, HasPrinted
  <1>5. \A j \in Jobs : mem'[j] = NoRow <=> mem[j] = NoRow
    BY <1>1, RecordFailureFacts DEF FinishFailed
  <1>6. UNCHANGED <<prints, deliveries, stops>> /\ mode = "up" /\ mode' = "up"
    BY DEF FinishFailed, bounds, ledger
  <1> QED
    BY <1>3, <1>4, <1>5, <1>6, QuietStepPaid

LEMMA FinishAbandonedPaid ==
  ASSUME IInv, Counted, PrintsPaid, NEW s \in Slots, FinishAbandoned(s)
  PROVE  PrintsPaid'
  <1>1. /\ flow[s].todo \in SUBSET Jobs /\ flow[s].job \in Jobs /\ mem \in Table
        /\ flow[s].pc = "reportAbandoned"
    BY DEF IInv, TypeOK, Flow, Holds, FinishAbandoned
  <1>2. PICK w \in WriteOutcomes : \E g \in NextAbandoned(flow[s].todo) \cup {Free} :
          flow' = [flow EXCEPT ![s] = g]
    BY DEF FinishAbandoned
  <1>3. PICK g \in NextAbandoned(flow[s].todo) \cup {Free} : flow' = [flow EXCEPT ![s] = g]
    BY <1>2
  <1>4. \A j \in Jobs : ~WillPrint(g, j) /\ ~HasPrinted(g, j) /\ ~HasPrinted(flow[s], j)
    BY <1>1, GivesUpPrinting DEF HasPrinted
  <1>5. \A j \in Jobs : mem'[j] \in {mem[j], NoRow}
    BY <1>1, RemoveAbandonedFacts DEF FinishAbandoned
  <1>6. UNCHANGED <<prints, deliveries, stops>> /\ mode = "up" /\ mode' = "up"
    BY DEF FinishAbandoned, bounds
  <1> QED
    BY <1>3, <1>4, <1>5, <1>6, QuietStepPaid
(* What was printed so far is paid for.                                    *)
LEMMA PaidSoFar ==
  ASSUME IInv, Counted, PrintsPaid, NEW j \in Jobs
  PROVE  prints[j] <= Allowance(deliveries[j], stops)
  <1> DEFINE p == prints[j]
             k == Allowance(deliveries[j], stops)
             w == Cardinality(Will(flow, j))
             b == Cardinality(Has(flow, j))
  <1>1. Cardinality(Slots) \in Nat /\ p \in Nat /\ k \in Nat
    BY PaidTypes
  <1>2. w \in Nat /\ b \in Nat /\ w + b <= Cardinality(Slots)
    BY PrintersApart DEF Counted
  <1>3. p + w <= k \/ p + Cardinality(Slots) <= k + b
    BY DEF PrintsPaid, Paid
  <1> HIDE DEF p, k, w, b
  <1>4. p <= k
    BY <1>1, <1>2, <1>3
  <1> QED
    BY <1>4 DEF p, k

(* A delivery may bring the row back, and pays for every flow.             *)
LEMMA HandleJobPaid ==
  ASSUME IInv, Counted, PrintsPaid, Counted', NEW s \in Slots, NEW i \in Jobs, HandleJob(s, i)
  PROVE  PrintsPaid'
  <1>1. PICK g \in {Attempt("live", i, {}), Free} : flow' = [flow EXCEPT ![s] = g]
    <2>1. flow = [flow EXCEPT ![s] = Free]
      BY DEF HandleJob, IInv, TypeOK
    <2> QED
      BY <2>1 DEF HandleJob
  <1>2. \A j \in Jobs \ {i} : ~WillPrint(g, j) /\ ~HasPrinted(g, j) /\ ~HasPrinted(flow[s], j)
    BY DEF HandleJob, Attempt, Free, WillPrint, HasPrinted
  <1>3. /\ mem'[i] # NoRow /\ \A j \in Jobs \ {i} : mem'[j] = mem[j]
        /\ \A j \in Jobs : deliveries'[j] = IF j = i THEN deliveries[j] + 1 ELSE deliveries[j]
        /\ mode = "up" /\ mode' = "up" /\ UNCHANGED <<prints, stops>>
    BY EnqueueFacts DEF HandleJob, IInv, TypeOK
  <1> SUFFICES ASSUME NEW j \in Jobs
               PROVE  Paid(mem'[j], TRUE, prints[j], Cardinality(Will(flow', j)),
                           Cardinality(Has(flow', j)), Allowance(deliveries'[j], stops))
    BY <1>3 DEF PrintsPaid
  <1>4. CASE j # i
    BY <1>1, <1>2, <1>3, <1>4, QuietPaid
  <1>5. CASE j = i
    <2> DEFINE c == Cardinality(Has(flow', j))
               k == Allowance(deliveries[j], stops)
               n == Allowance(deliveries'[j], stops)
    <2>1. n = k + Cardinality(Slots) /\ k \in Nat /\ Cardinality(Slots) \in Nat
      <3>1. deliveries[j] \in Nat /\ stops \in Nat
        BY DEF IInv, TypeOK
      <3>2. deliveries'[j] = deliveries[j] + 1
        BY <1>3, <1>5
      <3>3. n = Allowance(deliveries[j] + 1, stops)
        BY <3>2
      <3> HIDE DEF n
      <3> QED
        BY <3>1, <3>3, AllowanceFacts
    <2>2. c \in Nat
      BY PrintersApart DEF Counted
    <2>3. prints[j] <= k /\ prints[j] \in Nat
      BY PaidSoFar, PaidTypes
    <2> HIDE DEF c, k, n
    <2>4. prints[j] + Cardinality(Slots) <= n + c
      BY <2>1, <2>2, <2>3
    <2>5. mem'[j] # NoRow
      BY <1>3, <1>5
    <2> QED
      BY <2>4, <2>5 DEF Paid, c, n
  <1> QED
    BY <1>4, <1>5

(* One print more: with the row there, one flow more that has printed;     *)
(* with the row gone, one flow less that is to print.                      *)
LEMMA PrinterAnswersPaid ==
  ASSUME IInv, Counted, PrintsPaid, NEW s \in Slots, PrinterAnswers(s)
  PROVE  PrintsPaid'
  <1>1. /\ flow[s] \in Flow /\ flow[s].pc = "printing" /\ flow[s].job \notin flow[s].todo
        /\ flow \in [Slots -> Flow] /\ flow[s].job \in Jobs
    BY DEF IInv, TypeOK, PrinterAnswers, Counted, Holds
  <1>2. UNCHANGED <<mem, deliveries, stops>> /\ mode = "up" /\ mode' = "up"
    BY DEF PrinterAnswers, table, bounds
  <1>3. ASSUME NEW pc \in {"reportOk", "reportFail"}, NEW g, g = [flow[s] EXCEPT !.pc = pc]
        PROVE  /\ g.pc = pc /\ g.job = flow[s].job /\ g.todo = flow[s].todo
               /\ \A j \in Jobs : /\ WillPrint(g, j) => WillPrint(flow[s], j)
                                  /\ ~HasPrinted(flow[s], j)
                                  /\ HasPrinted(g, j) <=> pc = "reportOk" /\ j = flow[s].job
    <2>1. g.pc = pc /\ g.job = flow[s].job /\ g.todo = flow[s].todo
      BY <1>1, <1>3 DEF Flow
    <2> QED
      BY <1>1, <2>1 DEF WillPrint, HasPrinted
  <1>4. CASE flow' = [flow EXCEPT ![s].pc = "reportFail"] /\ prints' = prints
    <2>1. PICK g : g = [flow[s] EXCEPT !.pc = "reportFail"]
      OBVIOUS
    <2>2. flow' = [flow EXCEPT ![s] = g]
      BY <1>4, <2>1
    <2>3. \A j \in Jobs : /\ WillPrint(g, j) => WillPrint(flow[s], j)
                          /\ ~HasPrinted(flow[s], j) /\ ~HasPrinted(g, j)
      BY <1>3, <2>1
    <2> QED
      BY <1>2, <1>4, <2>2, <2>3, QuietStepPaid
  <1>5. CASE /\ flow' = [flow EXCEPT ![s].pc = "reportOk"]
             /\ prints' = [prints EXCEPT ![flow[s].job] = @ + 1]
    <2>1. PICK g : g = [flow[s] EXCEPT !.pc = "reportOk"]
      OBVIOUS
    <2>2. flow' = [flow EXCEPT ![s] = g]
      BY <1>5, <2>1
    <2>3. \A j \in Jobs : prints'[j] = IF j = flow[s].job THEN prints[j] + 1 ELSE prints[j]
      BY <1>5 DEF IInv, TypeOK
    <2> SUFFICES ASSUME NEW j \in Jobs
                 PROVE  Paid(mem[j], TRUE, prints'[j], Cardinality(Will(flow', j)),
                             Cardinality(Has(flow', j)), Allowance(deliveries[j], stops))
      BY <1>2 DEF PrintsPaid
    <2>4. CASE j # flow[s].job
      <3>1. /\ WillPrint(g, j) => WillPrint(flow[s], j)
            /\ ~HasPrinted(flow[s], j) /\ ~HasPrinted(g, j)
        BY <1>3, <2>1, <2>4
      <3> QED
        BY <1>2, <2>2, <2>3, <2>4, <3>1, QuietPaid
    <2>5. CASE j = flow[s].job
      <3> DEFINE p == prints[j]
                 k == Allowance(deliveries[j], stops)
                 w == Cardinality(Will(flow, j))
                 v == Cardinality(Will(flow', j))
                 b == Cardinality(Has(flow, j))
                 c == Cardinality(Has(flow', j))
      <3>1. /\ HasPrinted(g, j) /\ ~HasPrinted(flow[s], j)
            /\ WillPrint(flow[s], j) /\ ~WillPrint(g, j)
        <4>1. g.pc = "reportOk" /\ g.todo = flow[s].todo /\ HasPrinted(g, j) /\ ~HasPrinted(flow[s], j)
          BY <1>3, <2>1, <2>5
        <4> QED
          BY <1>1, <2>5, <4>1 DEF WillPrint
      <3>2. Replaced(flow, s, g, flow')
        BY <2>2 DEF Replaced
      <3>3. w \in Nat /\ v \in Nat /\ v = w - 1
        BY <1>1, <3>1, <3>2, ToPrintChanges
      <3>4. b \in Nat /\ c = b + 1
        <4>1. /\ b \in Nat
              /\ c = IF HasPrinted(g, j) THEN b + 1 ELSE b
          BY <1>1, <3>1, <3>2, PrintedChanges
        <4> QED
          BY <3>1, <4>1
      <3>5. Cardinality(Slots) \in Nat /\ p \in Nat /\ k \in Nat
        BY PaidTypes
      <3>6. /\ mem[j] = NoRow => p + w <= k
            /\ mem[j] # NoRow => p + Cardinality(Slots) <= k + b
        BY DEF PrintsPaid, Paid
      <3>7. prints'[j] = p + 1
        BY <2>3, <2>5
      <3> HIDE DEF p, k, w, v, b, c
      <3>8. /\ mem[j] = NoRow => prints'[j] + v <= k
            /\ mem[j] # NoRow => prints'[j] + Cardinality(Slots) <= k + c
        BY <3>3, <3>4, <3>5, <3>6, <3>7
      <3>9. Paid(mem[j], TRUE, prints'[j], v, c, k)
        BY <3>8 DEF Paid
      <3> QED
        BY <3>9 DEF v, c, k
    <2> QED
      BY <2>4, <2>5
  <1> QED
    BY <1>4, <1>5 DEF PrinterAnswers

LEMMA NobodyPrints ==
  ASSUME NEW fl, \A s \in Slots : fl[s] = Free, NEW j
  PROVE  Cardinality(Will(fl, j)) = 0 /\ Cardinality(Has(fl, j)) = 0
  <1>1. Will(fl, j) = {} /\ Has(fl, j) = {}
    BY DEF Will, Has, WillPrint, HasPrinted, Free
  <1> QED
    BY <1>1, FS_EmptySet

(* The end of the process pays for what the file may bring back.           *)
LEMMA HaltPaid ==
  ASSUME IInv, Counted, PrintsPaid, Crash \/ Shutdown
  PROVE  PrintsPaid'
  <1>1. /\ flow' = [s \in Slots |-> Free] /\ stops' = stops + 1
        /\ deliveries' = deliveries /\ prints' = prints
    BY DEF Crash, Shutdown, Halt, ledger
  <1> SUFFICES ASSUME NEW j \in Jobs
               PROVE  Paid(mem'[j], mode' = "up", prints[j], Cardinality(Will(flow', j)),
                           Cardinality(Has(flow', j)), Allowance(deliveries[j], stops'))
    BY <1>1 DEF PrintsPaid
  <1> DEFINE k == Allowance(deliveries[j], stops)
             n == Allowance(deliveries[j], stops')
             v == Cardinality(Will(flow', j))
             c == Cardinality(Has(flow', j))
  <1>2. v = 0 /\ c = 0
    BY <1>1, NobodyPrints
  <1>3. n = k + Cardinality(Slots) /\ k \in Nat /\ Cardinality(Slots) \in Nat
    BY <1>1, AllowanceFacts DEF IInv, TypeOK
  <1>4. prints[j] <= k /\ prints[j] \in Nat
    BY PaidSoFar, PaidTypes
  <1> HIDE DEF k, n, v, c
  <1>5. prints[j] + v <= n /\ prints[j] + Cardinality(Slots) <= n + c
    BY <1>2, <1>3, <1>4
  <1>6. Paid(mem'[j], mode' = "up", prints[j], v, c, n)
    BY <1>5 DEF Paid
  <1> QED
    BY <1>6 DEF v, c, n

(* A start may bring the rows of the file back, which the end before it    *)
(* has paid for.                                                           *)
LEMMA BootPaid ==
  ASSUME IInv, PrintsPaid, Boot
  PROVE  PrintsPaid'
  <1>1. /\ mode # "up" /\ \A s \in Slots : flow[s] = Free
        /\ UNCHANGED <<flow, prints, deliveries, stops>>
    BY DEF Boot, bounds, ledger, IInv, DownIsEmpty
  <1> SUFFICES ASSUME NEW j \in Jobs
               PROVE  Paid(mem'[j], mode' = "up", prints[j], Cardinality(Will(flow, j)),
                           Cardinality(Has(flow, j)), Allowance(deliveries[j], stops))
    BY <1>1 DEF PrintsPaid
  <1> DEFINE p == prints[j]
             k == Allowance(deliveries[j], stops)
             w == Cardinality(Will(flow, j))
             b == Cardinality(Has(flow, j))
  <1>2. w = 0 /\ b = 0
    BY <1>1, NobodyPrints
  <1>3. p + Cardinality(Slots) <= k + b
    BY <1>1 DEF PrintsPaid, Paid
  <1>4. Cardinality(Slots) \in Nat /\ p \in Nat /\ k \in Nat
    BY PaidTypes
  <1> HIDE DEF p, k, w, b
  <1>5. p + w <= k
    BY <1>2, <1>3, <1>4
  <1>6. Paid(mem'[j], mode' = "up", p, w, b, k)
    BY <1>3, <1>5 DEF Paid
  <1> QED
    BY <1>6 DEF p, w, b, k

LEMMA PaidNext == IInv /\ Counted /\ Counted' /\ PrintsPaid /\ [Next]_vars => PrintsPaid'
  <1> SUFFICES ASSUME IInv, Counted, Counted', PrintsPaid, [Next]_vars PROVE PrintsPaid'
    OBVIOUS
  <1>1. CASE Elapse
    <2>1. \A j \in Jobs : mem'[j] = NoRow <=> mem[j] = NoRow
      <3>1. mem' = Older(mem, 1) /\ mem \in Table /\ 1 \in Nat
        BY <1>1 DEF Elapse, IInv, TypeOK
      <3> QED
        BY <3>1, OlderFacts
    <2>2. UNCHANGED <<mode, flow, prints, deliveries, stops>>
      BY <1>1 DEF Elapse, bounds, ledger
    <2> QED
      BY <2>1, <2>2 DEF PrintsPaid, Paid
  <1>2. CASE UNCHANGED vars
    BY <1>2 DEF vars, PrintsPaid
  <1> QED
    BY <1>1, <1>2, HaltPaid, BootPaid, HandleJobPaid, RetryTickPaid, PrinterAnswersPaid,
       FinishSentPaid, FinishFailedPaid, FinishAbandonedPaid DEF Next

(***************************************************************************)
(* A ticket is printed at most once for every flow that can overlap, for   *)
(* each delivery of the job and each end of the process: failed attempts,  *)
(* failed writes, retries and the time that passes buy no further print.   *)
(***************************************************************************)
THEOREM PrintsStayBounded == Spec => []PrintsBounded
  <1>1. Init => PrintsPaid
    <2> SUFFICES ASSUME Init, NEW j \in Jobs
                 PROVE  Paid(mem[j], mode = "up", prints[j], Cardinality(Will(flow, j)),
                             Cardinality(Has(flow, j)), Allowance(deliveries[j], stops))
      BY DEF PrintsPaid
    <2>1. mem[j] = NoRow /\ mode = "up" /\ prints[j] = 0 /\ deliveries[j] = 0 /\ stops = 0
      BY DEF Init, EmptyTable
    <2>2. Cardinality(Will(flow, j)) = 0
      BY NobodyPrints DEF Init
    <2>3. Allowance(deliveries[j], stops) \in Nat
      BY <2>1, AllowanceFacts
    <2> QED
      BY <2>1, <2>2, <2>3 DEF Paid
  <1>2. IInv /\ Counted /\ Counted' /\ PrintsPaid /\ [Next]_vars => PrintsPaid'
    BY PaidNext
  <1>3. IInv /\ Counted /\ PrintsPaid => PrintsBounded
    BY PaidSoFar DEF PrintsBounded, Allowance
  <1> QED
    BY <1>1, <1>2, <1>3, Invariance, CountedInvariance, PTL DEF Spec
=============================================================================

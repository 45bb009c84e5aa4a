---------------------------- MODULE QueueProofs -----------------------------
(***************************************************************************)
(* PrintAgent implements DurableQueue, for every instance in which a write *)
(* that fails leaves the file as it was.  The file alone does not tell     *)
(* which steps are legal: the next write replaces it by the table in       *)
(* memory, and a flow may complete a job it read from the table long ago.  *)
(* So Lagging bounds how the two copies may differ, and Known says that    *)
(* every job the agent holds anywhere was once offered to it.              *)
(***************************************************************************)
EXTENDS PrintAgentProofs

Done == sent \cup gaveUp

\* A flow that holds nothing but jobs of X.
Within(f, X) == f.todo \subseteq X /\ (f.pc # "idle" => f.job \in X)

Known ==
  /\ Present(mem) \subseteq Offered
  /\ Present(disk) \subseteq Offered
  /\ \A s \in Slots : Within(flow[s], Offered)

Lagging == mode = "up" => Present(disk) \ Present(mem) \subseteq Done

QInv == IInv /\ Known /\ Lagging

-----------------------------------------------------------------------------
LEMMA NextAbandonedWithin ==
  ASSUME NEW X, NEW todo \in SUBSET X
  PROVE  \A f \in NextAbandoned(todo) : Within(f, X)
  BY DEF NextAbandoned, Abandonment, Free, Within

LEMMA NextDueWithin ==
  ASSUME NEW X, NEW todo \in SUBSET X, NEW t, Present(t) \subseteq X
  PROVE  \A f \in NextDue(todo, t) : Within(f, X)
  <1>1. AbandonedJobs(t) \subseteq X
    BY DEF AbandonedJobs
  <1>2. \A j \in todo : Within(Attempt("retry", j, todo \ {j}), X)
    BY DEF Attempt, Within
  <1> QED
    BY <1>1, <1>2, NextAbandonedWithin DEF NextDue

LEMMA AfterAttemptWithin ==
  ASSUME NEW X, NEW f, f.todo \subseteq X, NEW t, Present(t) \subseteq X, NEW w
  PROVE  \A g \in AfterAttempt(f, t, w) : Within(g, X)
  <1>1. Within(Free, X)
    BY DEF Free, Within
  <1> QED
    BY <1>1, NextDueWithin DEF AfterAttempt

(* What a write does to the set of jobs on disk.                           *)
LEMMA PersistPresent ==
  ASSUME "truncated" \notin WriteFaults, IInv, NEW t \in Table,
         NEW w \in WriteOutcomes, Persist(t, w)
  PROVE  /\ Present(disk') \in {Present(t), Present(disk)}
         /\ w = "written" => Present(disk') = Present(t)
         /\ w # "written" => Present(disk') = Present(disk)
  BY PersistFacts DEF IInv, TypeOK

(* A step that replaces one flow and otherwise only grows what is known.   *)
LEMMA KnownFlow ==
  ASSUME QInv, NEW s \in Slots, NEW f, Within(f, Offered'),
         flow' = [flow EXCEPT ![s] = f], Offered \subseteq Offered'
  PROVE  \A x \in Slots : Within(flow'[x], Offered')
  <1>1. flow \in [Slots -> Flow]
    BY DEF QInv, IInv, TypeOK
  <1> QED
    BY <1>1 DEF QInv, Known, Within

-----------------------------------------------------------------------------
LEMMA QueueInit == Init => QInv /\ Queue!Init
  <1> SUFFICES ASSUME Init PROVE QInv /\ Queue!Init
    OBVIOUS
  <1>1. Offered = {} /\ Present(mem) = {} /\ Present(disk) = {}
    BY EmptyTableFacts DEF Init, Offered
  <1>2. \A s \in Slots : Within(flow[s], {})
    BY DEF Init, Free, Within
  <1> QED
    BY <1>1, <1>2, InitInv DEF Init, QInv, Known, Lagging, Queue!Init

QueueStep == Queue!Next \/ UNCHANGED Queue!queueVars

LEMMA HandleJobQueue ==
  ASSUME "truncated" \notin WriteFaults, QInv,
         NEW s \in Slots, NEW j \in Jobs, HandleJob(s, j)
  PROVE  Known' /\ Lagging' /\ QueueStep
  <1> DEFINE t == Enqueue(mem, j)
  <1> mem \in Table /\ t \in Table /\ deliveries \in [Jobs -> Nat]
    BY EnqueueFacts DEF QInv, IInv, TypeOK
  <1>1. PICK w \in WriteOutcomes :
          /\ Persist(t, w)
          /\ \/ /\ w = "written"
                /\ flow' = [flow EXCEPT ![s] = Attempt("live", j, {})]
                /\ owed' = owed \cup {j}
             \/ /\ w # "written"
                /\ UNCHANGED <<flow, owed>>
    BY DEF HandleJob
  <1>2. Present(t) = Present(mem) \cup {j}
    BY EnqueueFacts DEF Present
  <1>3. Offered' = Offered \cup {j}
    BY DEF HandleJob, Offered
  <1>4. mem' = t /\ mode = "up" /\ UNCHANGED <<sent, gaveUp>>
    BY DEF HandleJob
  <1>5. Present(disk') \in {Present(t), Present(disk)}
    BY <1>1, PersistPresent DEF QInv
  <1>6. \A x \in Slots : Within(flow'[x], Offered')
    <2>1. Within(Attempt("live", j, {}), Offered')
      BY <1>3 DEF Attempt, Within
    <2> QED
      BY <1>1, <1>3, <2>1, KnownFlow DEF QInv, Known, Within
  <1>7. Known'
    BY <1>2, <1>3, <1>4, <1>5, <1>6 DEF QInv, Known
  <1>8. Lagging'
    BY <1>2, <1>4, <1>5 DEF QInv, Lagging, Done
  <1>9. CASE w = "written"
    <2>1. Present(disk') = Present(mem) \cup {j}
      BY <1>1, <1>2, <1>9, PersistPresent DEF QInv
    <2>2. Queue!Accept(j)
      BY <1>1, <1>3, <1>4, <1>9, <2>1
      DEF Queue!Accept, Queue!Update, QInv, Lagging, Known, Done
    <2> QED
      BY <1>7, <1>8, <2>2 DEF QueueStep, Queue!Next
  <1>10. CASE w # "written"
    <2>1. Present(disk') = Present(disk)
      BY <1>1, <1>10, PersistPresent DEF QInv
    <2>2. Queue!Refuse(j)
      BY <1>1, <1>3, <1>4, <1>10, <2>1 DEF Queue!Refuse
    <2> QED
      BY <1>7, <1>8, <2>2 DEF QueueStep, Queue!Next
  <1> QED
    BY <1>9, <1>10

LEMMA RetryTickQueue ==
  ASSUME QInv, NEW s \in Slots, RetryTick(s)
  PROVE  Known' /\ Lagging' /\ QueueStep
  <1>1. UNCHANGED <<mode, mem, disk, deliveries, owed, sent, gaveUp>>
    BY DEF RetryTick, table, bounds, ledger
  <1>2. Offered' = Offered
    BY <1>1 DEF Offered
  <1>3. DueJobs(mem) \subseteq Offered
    BY DEF DueJobs, QInv, Known
  <1>4. \A x \in Slots : Within(flow'[x], Offered')
    BY <1>2, <1>3, NextDueWithin, KnownFlow DEF RetryTick, QInv, Known
  <1> QED
    BY <1>1, <1>2, <1>4 DEF QInv, Known, Lagging, Done, QueueStep, Queue!queueVars

LEMMA PrinterAnswersQueue ==
  ASSUME QInv, NEW s \in Slots, PrinterAnswers(s)
  PROVE  Known' /\ Lagging' /\ QueueStep
  <1>1. UNCHANGED <<mode, mem, disk, deliveries, owed, gaveUp>>
    BY DEF PrinterAnswers, table, bounds
  <1>2. Offered' = Offered
    BY <1>1 DEF Offered
  <1>3. flow \in [Slots -> Flow] /\ flow[s].pc # "idle" /\ flow[s].job \in Offered
    BY DEF PrinterAnswers, QInv, Known, IInv, TypeOK, Within
  <1>4. PICK pc : flow' = [flow EXCEPT ![s].pc = pc]
    BY DEF PrinterAnswers
  <1>5. flow'[s].job = flow[s].job /\ flow'[s].todo = flow[s].todo
    BY <1>3, <1>4 DEF Flow
  <1>6. \A x \in Slots : Within(flow'[x], Offered')
    BY <1>2, <1>3, <1>4, <1>5 DEF QInv, Known, Within
  <1>7. flow[s].job \in Jobs
    BY <1>3 DEF Offered
  <1>8. sent' = sent \/ sent' = sent \cup {flow[s].job}
    BY DEF PrinterAnswers
  <1>9. CASE sent' = sent
    BY <1>1, <1>2, <1>6, <1>9 DEF QInv, Known, Lagging, Done, QueueStep, Queue!queueVars
  <1>10. CASE sent' = sent \cup {flow[s].job}
    <2>1. Queue!Complete(flow[s].job)
      BY <1>1, <1>2, <1>3, <1>10 DEF Queue!Complete, Queue!Update
    <2> QED
      BY <1>1, <1>2, <1>6, <1>7, <1>10, <2>1
      DEF QInv, Known, Lagging, Done, QueueStep, Queue!Next
  <1> QED
    BY <1>8, <1>9, <1>10

(* The common part of the steps that end an attempt: the row of one job    *)
(* changes or goes, and it may go only if the job is done by then.         *)
LEMMA FinishQueue ==
  ASSUME "truncated" \notin WriteFaults, QInv, NEW s \in Slots, NEW t \in Table,
         NEW f, Within(f, Offered), flow' = [flow EXCEPT ![s] = f],
         NEW w \in WriteOutcomes, Persist(t, w) \/ (Present(t) = Present(mem) /\ disk' = disk),
         mem' = t, mode = "up", Present(t) \subseteq Present(mem),
         Done \subseteq Done', Present(mem) \ Present(t) \subseteq Done',
         UNCHANGED <<deliveries, owed>>
  PROVE  Known' /\ Lagging' /\ Queue!Update
  <1>1. Offered' = Offered
    BY DEF Offered
  <1>2. Present(disk') \in {Present(t), Present(disk)}
    BY PersistPresent DEF QInv
  <1>3. \A x \in Slots : Within(flow'[x], Offered')
    BY <1>1, KnownFlow
  <1>4. Known'
    BY <1>1, <1>2, <1>3 DEF QInv, Known
  <1>5. Lagging'
    BY <1>2 DEF QInv, Lagging
  <1>6. Queue!Update
    BY <1>1, <1>2 DEF Queue!Update, QInv, Lagging, Known, Done
  <1> QED
    BY <1>4, <1>5, <1>6

LEMMA FinishSentQueue ==
  ASSUME "truncated" \notin WriteFaults, QInv, NEW s \in Slots, FinishSent(s)
  PROVE  Known' /\ Lagging' /\ QueueStep
  <1> DEFINE t == Remove(mem, flow[s].job)
  <1>1. /\ flow[s].job \in Jobs /\ flow[s].job \in sent
        /\ flow[s].todo \subseteq Offered /\ mem \in Table
    BY DEF FinishSent, QInv, IInv, Holds, OkMeansSent, TypeOK, Known, Within
  <1>2. t \in Table /\ Present(t) = Present(mem) \ {flow[s].job}
    BY <1>1, RemoveFacts DEF Present
  <1>3. PICK w \in WriteOutcomes : \E f \in AfterAttempt(flow[s], t, w) :
          Persist(t, w) /\ flow' = [flow EXCEPT ![s] = f]
    BY DEF FinishSent
  <1>4. PICK f : Within(f, Offered) /\ Persist(t, w) /\ flow' = [flow EXCEPT ![s] = f]
    BY <1>1, <1>2, <1>3, AfterAttemptWithin DEF QInv, Known
  <1>5. /\ mem' = t /\ mode = "up"
        /\ UNCHANGED <<deliveries, owed, sent, gaveUp>>
    BY DEF FinishSent, bounds, ledger
  <1>6. Done' = Done /\ flow[s].job \in Done
    BY <1>1, <1>5 DEF Done
  <1>7. Known' /\ Lagging' /\ Queue!Update
    BY <1>2, <1>4, <1>5, <1>6, FinishQueue
  <1>8. Queue!Flush
    BY <1>5, <1>7 DEF Queue!Flush, Offered
  <1> QED
    BY <1>7, <1>8 DEF QueueStep, Queue!Next

LEMMA FinishFailedQueue ==
  ASSUME "truncated" \notin WriteFaults, QInv, NEW s \in Slots, FinishFailed(s)
  PROVE  Known' /\ Lagging' /\ QueueStep
  <1> DEFINE t == RecordFailure(mem, flow[s].job)
  <1>1. flow[s].job \in Jobs /\ flow[s].todo \subseteq Offered /\ mem \in Table
    BY DEF FinishFailed, QInv, IInv, Holds, TypeOK, Known, Within
  <1>2. t \in Table /\ Present(t) = Present(mem)
    BY <1>1, RecordFailureFacts DEF Present
  <1>3. PICK w \in WriteOutcomes : \E f \in AfterAttempt(flow[s], t, w) :
          /\ Persist(t, w) \/ disk' = disk
          /\ flow' = [flow EXCEPT ![s] = f]
    BY DEF FinishFailed
  <1>4. PICK f : Within(f, Offered) /\ (Persist(t, w) \/ disk' = disk) /\ flow' = [flow EXCEPT ![s] = f]
    BY <1>1, <1>2, <1>3, AfterAttemptWithin DEF QInv, Known
  <1>5. /\ mem' = t /\ mode = "up"
        /\ UNCHANGED <<deliveries, owed, sent, gaveUp>>
    BY DEF FinishFailed, bounds, ledger
  <1>6. Done' = Done
    BY <1>5 DEF Done
  <1>7. Known' /\ Lagging' /\ Queue!Update
    BY <1>2, <1>4, <1>5, <1>6, FinishQueue
  <1>8. Queue!Flush
    BY <1>5, <1>7 DEF Queue!Flush, Offered
  <1> QED
    BY <1>7, <1>8 DEF QueueStep, Queue!Next

LEMMA FinishAbandonedQueue ==
  ASSUME "truncated" \notin WriteFaults, QInv, NEW s \in Slots, FinishAbandoned(s)
  PROVE  Known' /\ Lagging' /\ QueueStep
  <1> DEFINE t == RemoveAbandoned(mem, flow[s].job)
  <1>1. /\ flow[s].job \in Jobs /\ flow[s].job \in Offered
        /\ flow[s].todo \subseteq Offered /\ mem \in Table
    BY DEF FinishAbandoned, QInv, IInv, Holds, TypeOK, Known, Within
  <1>2. /\ t \in Table /\ Present(t) \subseteq Present(mem)
        /\ Present(mem) \ Present(t) \subseteq {flow[s].job}
    BY <1>1, RemoveAbandonedFacts DEF Present
  <1>3. PICK w \in WriteOutcomes :
          \E f \in IF w = "written" THEN NextAbandoned(flow[s].todo) ELSE {Free} :
             Persist(t, w) /\ flow' = [flow EXCEPT ![s] = f]
    BY DEF FinishAbandoned
  <1>4. PICK f : Within(f, Offered) /\ Persist(t, w) /\ flow' = [flow EXCEPT ![s] = f]
    <2>1. Within(Free, Offered)
      BY DEF Free, Within
    <2> QED
      BY <1>1, <1>3, <2>1, NextAbandonedWithin
  <1>5. /\ mem' = t /\ mode = "up"
        /\ UNCHANGED <<deliveries, owed, sent>>
        /\ gaveUp' = gaveUp \cup {flow[s].job}
    BY DEF FinishAbandoned, bounds
  <1>6. Done' = Done \cup {flow[s].job}
    BY <1>5 DEF Done
  <1>7. Known' /\ Lagging' /\ Queue!Update
    BY <1>2, <1>4, <1>5, <1>6, FinishQueue
  <1>8. Queue!Complete(flow[s].job)
    BY <1>1, <1>5, <1>7 DEF Queue!Complete, Offered
  <1> QED
    BY <1>1, <1>7, <1>8 DEF QueueStep, Queue!Next

(* A crash, a start and the clock change no set of jobs on disk.           *)
LEMMA IdleQueue ==
  ASSUME "truncated" \notin WriteFaults, QInv, Crash \/ Shutdown \/ Boot \/ Elapse \/ UNCHANGED vars
  PROVE  Known' /\ Lagging' /\ QueueStep
  <1>1. UNCHANGED <<deliveries, owed, sent, gaveUp>>
    BY DEF Crash, Shutdown, Halt, Boot, Elapse, vars, bounds, ledger
  <1>2. mem \in Table /\ disk \in Table
    BY DEF QInv, IInv, TypeOK
  <1>3. Present(disk') = Present(disk)
    <2>1. CASE Boot \/ Elapse
      <3>1. PICK d \in Nat : disk' = Older(disk, d)
        BY <2>1, BootFacts DEF Elapse
      <3> QED
        BY <1>2, <3>1, OlderFacts DEF Present
    <2> QED
      BY <2>1 DEF Crash, Shutdown, Halt, vars
  <1>4. Present(mem') \in {Present(mem), Present(disk), {}}
    <2>1. CASE Boot \/ Elapse
      <3>1. PICK d \in Nat : mem' \in {Older(disk, d), Older(mem, d), mem}
        BY <2>1, BootFacts DEF Elapse
      <3> QED
        BY <1>2, <3>1, OlderFacts DEF Present
    <2> QED
      BY <2>1, EmptyTableFacts DEF Crash, Shutdown, Halt, vars
  <1>5. mode' = "up" => Present(mem') = Present(disk') \/ (mode = "up" /\ Present(mem') = Present(mem))
    <2>1. CASE Boot
      BY <2>1, BootFacts
    <2>2. CASE Elapse
      BY <1>2, <2>2, OlderFacts DEF Elapse, Present
    <2>3. CASE Crash \/ Shutdown
      BY <2>3 DEF Crash, Shutdown, Halt
    <2>4. CASE UNCHANGED vars
      BY <2>4 DEF vars
    <2> QED
      BY <2>1, <2>2, <2>3, <2>4
  <1>6. \A s \in Slots : Within(flow'[s], Offered)
    <2>1. \A s \in Slots : flow'[s] = flow[s] \/ flow'[s] = Free
      BY DEF Crash, Shutdown, Halt, Boot, Elapse, vars
    <2> QED
      BY <2>1 DEF QInv, Known, Within, Free
  <1>7. Offered' = Offered /\ Done' = Done
    BY <1>1 DEF Offered, Done
  <1> QED
    BY <1>1, <1>3, <1>4, <1>5, <1>6, <1>7
    DEF QInv, Known, Lagging, QueueStep, Queue!queueVars

LEMMA QueueNext ==
  ASSUME "truncated" \notin WriteFaults, QInv, [Next]_vars
  PROVE  QInv' /\ [Queue!Next]_(Queue!queueVars)
  <1>1. Known' /\ Lagging' /\ QueueStep
    BY HandleJobQueue, RetryTickQueue, PrinterAnswersQueue, FinishSentQueue,
       FinishFailedQueue, FinishAbandonedQueue, IdleQueue DEF Next
  <1> QED
    BY <1>1, NextInv DEF QInv, QueueStep

(***************************************************************************)
(* The agent is a durable queue: at every step the set of jobs on disk     *)
(* changes as DurableQueue allows.                                         *)
(***************************************************************************)
THEOREM Refinement ==
  ASSUME "truncated" \notin WriteFaults
  PROVE  Spec => ImplementsQueue
  <1>1. Init => QInv /\ Queue!Init
    BY QueueInit
  <1>2. QInv /\ [Next]_vars => QInv' /\ [Queue!Next]_(Queue!queueVars)
    BY QueueNext
  <1> QED
    BY <1>1, <1>2, PTL DEF Spec, ImplementsQueue, Queue!Spec

(***************************************************************************)
(* At-least-once, from the abstract specification alone: whatever a        *)
(* durable queue accepted and has not done is in it.  For the agent: a job *)
(* that handleJob accepted stays on disk until it was sent or given up.    *)
(***************************************************************************)
THEOREM AtLeastOnce ==
  ASSUME "truncated" \notin WriteFaults
  PROVE  Spec => []NoLostJob
  <1>1. Queue!Init => Queue!NothingForgotten
    BY DEF Queue!Init, Queue!NothingForgotten
  <1>2. Queue!NothingForgotten /\ [Queue!Next]_(Queue!queueVars) => Queue!NothingForgotten'
    BY DEF Queue!NothingForgotten, Queue!Next, Queue!Accept, Queue!Refuse,
           Queue!Complete, Queue!Flush, Queue!Update, Queue!queueVars
  <1>3. Queue!Spec => []Queue!NothingForgotten
    BY <1>1, <1>2, PTL DEF Queue!Spec
  <1>4. TypeOK /\ Queue!NothingForgotten => NoLostJob
    BY DEF Queue!NothingForgotten, NoLostJob, Present, TypeOK
  <1>5. Spec => Queue!Spec
    BY Refinement DEF ImplementsQueue
  <1> QED
    BY <1>3, <1>4, <1>5, TypeCorrect, PTL
=============================================================================

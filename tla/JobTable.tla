------------------------------ MODULE JobTable ------------------------------
(***************************************************************************)
(* The job table of buffer.js as pure operators: a table maps every job id *)
(* to its row, or to NoRow, and each method of JobBuffer that changes rows *)
(* is the table it leaves.  Writing the table to disk (_persist) is the    *)
(* business of the module that owns the two copies, PrintAgent.            *)
(*                                                                         *)
(* Time is kept relative.  A row holds the age of the job (Date.now() -    *)
(* received_at, capped at TTL, past which the code does not distinguish    *)
(* ages) and the time left until it is due (next_retry_at - Date.now(),    *)
(* floored at 0), so the state space is finite without a bound on the      *)
(* clock.  The payload is left out: the row of a job keeps the payload of  *)
(* the first delivery, and every delivery of an id prints the same ticket. *)
(***************************************************************************)
EXTENDS Naturals

CONSTANTS
  Jobs,        \* job ids
  NoRow,       \* what the table holds for an id with no row
  MaxAttempts, \* MAX_ATTEMPTS
  TTL,         \* TTL_MS, in units of the model's clock
  MaxBackoff   \* the five-minute cap of the back-off, in the same units

\* A row is the columns of the table `jobs' that the code ever reads back.
Row == [ attempts  : Nat,            \* attempt_count
         age       : 0..TTL,         \* Date.now() - received_at
         wait      : 0..MaxBackoff,  \* next_retry_at - Date.now()
         abandoned : BOOLEAN ]

Table == [Jobs -> Row \cup {NoRow}]

ASSUME TableConstants ==
  /\ MaxAttempts \in Nat \ {0}
  /\ TTL \in Nat \ {0}
  /\ MaxBackoff \in Nat \ {0}
  /\ NoRow \notin Row

EmptyTable == [j \in Jobs |-> NoRow]

\* The columns INSERT OR IGNORE leaves to their defaults are 0.
FreshRow == [attempts |-> 0, age |-> 0, wait |-> 0, abandoned |-> FALSE]

Present(t) == {j \in Jobs : t[j] # NoRow}

-----------------------------------------------------------------------------
(* enqueue: INSERT OR IGNORE, so a job that has a row keeps it.            *)
Enqueue(t, j) == IF t[j] = NoRow THEN [t EXCEPT ![j] = FreshRow] ELSE t

(* remove: the job goes whatever its row says.                             *)
Remove(t, j) == [t EXCEPT ![j] = NoRow]

\* Seeded fault: no cap on the back-off.
BackoffUncapped(attempts) == 2^attempts

(* min(2^attempts, cap), written so that no fact about powers is needed to *)
(* see that the result is at most the cap.                                 *)
Backoff(attempts) ==
  IF 2^attempts \in 0..MaxBackoff THEN 2^attempts ELSE MaxBackoff

\* Seeded fault: abandoned at exactly MaxAttempts, not from there on.
FailedRowAtLimit(r) ==
  [ r EXCEPT !.attempts  = @ + 1,
             !.wait      = Backoff(r.attempts + 1),
             !.abandoned = r.attempts + 1 = MaxAttempts \/ r.age >= TTL ]

FailedRow(r) ==
  [ r EXCEPT !.attempts  = @ + 1,
             !.wait      = Backoff(r.attempts + 1),
             !.abandoned = r.attempts + 1 >= MaxAttempts \/ r.age >= TTL ]

\* Seeded fault: a job that is to be abandoned is deleted at once.
RecordFailureDropping(t, j) ==
  IF t[j] = NoRow THEN t
  ELSE [t EXCEPT ![j] = IF FailedRow(@).abandoned THEN NoRow ELSE FailedRow(@)]

\* Seeded fault: the failure is written with an upsert.
RecordFailureUpserting(t, j) ==
  [t EXCEPT ![j] = FailedRow(IF @ = NoRow THEN FreshRow ELSE @)]

(* recordFailure: a job whose row is gone is left alone.                   *)
RecordFailure(t, j) ==
  IF t[j] = NoRow THEN t ELSE [t EXCEPT ![j] = FailedRow(@)]

\* Seeded fault: only jobs that failed before are due.
DueJobsFailedOnce(t) ==
  {j \in Present(t) : ~t[j].abandoned /\ t[j].wait = 0 /\ t[j].attempts > 0}

\* Seeded fault: no `abandoned = 0'.
DueJobsAbandonedToo(t) == {j \in Present(t) : t[j].wait = 0}

DueJobs(t) == {j \in Present(t) : ~t[j].abandoned /\ t[j].wait = 0}

AbandonedJobs(t) == {j \in Present(t) : t[j].abandoned}

\* Seeded fault: no `AND abandoned = 1'.
RemoveAbandonedAny(t, j) == Remove(t, j)

\* Seeded fault: `AND abandoned = 0'.
RemoveAbandonedLive(t, j) == IF j \in AbandonedJobs(t) THEN t ELSE Remove(t, j)

(* removeAbandoned: DELETE ... WHERE job_id = ? AND abandoned = 1.         *)
RemoveAbandoned(t, j) == IF j \in AbandonedJobs(t) THEN Remove(t, j) ELSE t

-----------------------------------------------------------------------------
(* d units of the wall clock, as the timestamps in the table see them.     *)
OlderRow(r, d) ==
  [ r EXCEPT !.age  = IF @ + d < TTL THEN @ + d ELSE TTL,
             !.wait = IF @ > d THEN @ - d ELSE 0 ]

\* Seeded fault: jobs past the TTL are purged on the way.
OlderPurged(t, d) ==
  [j \in Jobs |-> IF t[j] = NoRow \/ t[j].age + d > TTL THEN NoRow
                  ELSE OlderRow(t[j], d)]

Older(t, d) == [j \in Jobs |-> IF t[j] = NoRow THEN NoRow ELSE OlderRow(t[j], d)]
=============================================================================

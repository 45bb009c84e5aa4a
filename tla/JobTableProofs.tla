--------------------------- MODULE JobTableProofs ---------------------------
(***************************************************************************)
(* What the operators of JobTable preserve: the type of a table, the rows  *)
(* it holds, and the rule by which a row is abandoned.                     *)
(***************************************************************************)
EXTENDS JobTable, TLAPS

\* Why a row is abandoned: the condition of recordFailure, which stays true.
Exhausted(r) == r.attempts >= MaxAttempts \/ r.age >= TTL

\* A row that is marked abandoned has a reason to be, and a live one is below
\* the limit of attempts.  (It may be past the TTL: only a failure looks.)
Sound(t) ==
  \A j \in Jobs : t[j] # NoRow =>
    /\ t[j].abandoned => Exhausted(t[j])
    /\ ~t[j].abandoned => t[j].attempts < MaxAttempts

-----------------------------------------------------------------------------
LEMMA FreshRowType == FreshRow \in Row /\ FreshRow # NoRow /\ ~FreshRow.abandoned
  <1>1. FreshRow \in Row
    BY TableConstants DEF FreshRow, Row, TableConstants
  <1> QED
    BY <1>1, TableConstants DEF TableConstants, FreshRow

LEMMA BackoffType == \A a \in Nat : Backoff(a) \in 0..MaxBackoff
  BY TableConstants DEF TableConstants, Backoff

LEMMA RowUpdate ==
  ASSUME NEW r \in Row, NEW a \in Nat, NEW w \in 0..MaxBackoff, NEW b \in BOOLEAN
  PROVE  [r EXCEPT !.attempts = a, !.wait = w, !.abandoned = b] \in Row
  BY DEF Row

(* One failure adds one attempt, keeps the age, and leaves a row that is   *)
(* abandoned exactly when it is exhausted: recordFailure, buffer.js:95.    *)
LEMMA FailedRowFacts ==
  ASSUME NEW r \in Row
  PROVE  /\ FailedRow(r) \in Row
         /\ FailedRow(r) # NoRow
         /\ FailedRow(r).attempts = r.attempts + 1
         /\ FailedRow(r).age = r.age
         /\ FailedRow(r).abandoned = Exhausted(FailedRow(r))
  <1>1. r.attempts \in Nat /\ r.age \in 0..TTL
    BY DEF Row
  <1>2. Backoff(r.attempts + 1) \in 0..MaxBackoff
    BY <1>1, BackoffType
  <1>3. /\ FailedRow(r).attempts = r.attempts + 1
        /\ FailedRow(r).age = r.age
        /\ FailedRow(r).wait = Backoff(r.attempts + 1)
    BY DEF FailedRow, Row
  <1>4. FailedRow(r).abandoned = (r.attempts + 1 >= MaxAttempts \/ r.age >= TTL)
    BY DEF FailedRow, Row
  <1>5. FailedRow(r) \in Row
    <2>1. PICK b \in BOOLEAN : b = (r.attempts + 1 >= MaxAttempts \/ r.age >= TTL)
      OBVIOUS
    <2>2. FailedRow(r) = [ r EXCEPT !.attempts  = r.attempts + 1,
                                    !.wait      = Backoff(r.attempts + 1),
                                    !.abandoned = b ]
      BY <2>1, Zenon DEF FailedRow
    <2>3. r.attempts + 1 \in Nat
      BY <1>1
    <2>4. [ r EXCEPT !.attempts  = r.attempts + 1,
                     !.wait      = Backoff(r.attempts + 1),
                     !.abandoned = b ] \in Row
      BY <1>2, <2>3, RowUpdate, Zenon
    <2> QED
      BY <2>2, <2>4, Zenon
  <1> QED
    BY <1>3, <1>4, <1>5, TableConstants DEF TableConstants, Exhausted

LEMMA OlderRowFacts ==
  ASSUME NEW r \in Row, NEW d \in Nat
  PROVE  /\ OlderRow(r, d) \in Row
         /\ OlderRow(r, d) # NoRow
         /\ OlderRow(r, d).attempts = r.attempts
         /\ OlderRow(r, d).age >= r.age
         /\ OlderRow(r, d).abandoned = r.abandoned
  <1>1. r.age \in 0..TTL /\ r.wait \in 0..MaxBackoff
    BY DEF Row
  <1>2. /\ OlderRow(r, d).attempts = r.attempts
        /\ OlderRow(r, d).age = IF r.age + d < TTL THEN r.age + d ELSE TTL
        /\ OlderRow(r, d).wait = IF r.wait > d THEN r.wait - d ELSE 0
        /\ OlderRow(r, d).abandoned = r.abandoned
    BY DEF OlderRow, Row
  <1>3. OlderRow(r, d).age \in 0..TTL /\ OlderRow(r, d).age >= r.age
    BY <1>1, <1>2, TableConstants DEF TableConstants
  <1>4. OlderRow(r, d).wait \in 0..MaxBackoff
    BY <1>1, <1>2, TableConstants DEF TableConstants
  <1>5. OlderRow(r, d) \in Row
    BY <1>1, <1>2, <1>3, <1>4 DEF OlderRow, Row
  <1> QED
    BY <1>2, <1>3, <1>5, TableConstants DEF TableConstants

-----------------------------------------------------------------------------
LEMMA EmptyTableFacts ==
  /\ EmptyTable \in Table
  /\ Present(EmptyTable) = {}
  /\ Sound(EmptyTable)
  BY DEF EmptyTable, Table, Present, Sound

(* enqueue adds the job's row, fresh, and touches no row there was.        *)
LEMMA EnqueueFacts ==
  ASSUME NEW t \in Table, NEW j \in Jobs
  PROVE  /\ Enqueue(t, j) \in Table
         /\ Enqueue(t, j)[j] # NoRow
         /\ \A i \in Jobs : t[i] # NoRow => Enqueue(t, j)[i] = t[i]
         /\ t[j] = NoRow => Enqueue(t, j)[j].attempts = 0
         /\ \A i \in Jobs \ {j} : Enqueue(t, j)[i] = t[i]
         /\ Sound(t) => Sound(Enqueue(t, j))
  BY FreshRowType, TableConstants DEF Table, Enqueue, Sound, FreshRow, TableConstants

(* remove deletes the job's row and no other.                              *)
LEMMA RemoveFacts ==
  ASSUME NEW t \in Table, NEW j \in Jobs
  PROVE  /\ Remove(t, j) \in Table
         /\ Remove(t, j)[j] = NoRow
         /\ \A i \in Jobs \ {j} : Remove(t, j)[i] = t[i]
         /\ Sound(t) => Sound(Remove(t, j))
  BY DEF Table, Remove, Sound

(* recordFailure neither adds nor deletes a row.                           *)
LEMMA RecordFailureFacts ==
  ASSUME NEW t \in Table, NEW j \in Jobs
  PROVE  /\ RecordFailure(t, j) \in Table
         /\ \A i \in Jobs : RecordFailure(t, j)[i] = NoRow <=> t[i] = NoRow
         /\ \A i \in Jobs \ {j} : RecordFailure(t, j)[i] = t[i]
         /\ t[j] # NoRow => RecordFailure(t, j)[j] = FailedRow(t[j])
         /\ Sound(t) => Sound(RecordFailure(t, j))
  <1>1. CASE t[j] = NoRow
    BY <1>1 DEF RecordFailure
  <1>2. CASE t[j] # NoRow
    <2>1. t[j] \in Row
      BY <1>2 DEF Table
    <2>2. RecordFailure(t, j) = [t EXCEPT ![j] = FailedRow(t[j])]
      BY <1>2 DEF RecordFailure
    <2>3. /\ FailedRow(t[j]) \in Row
          /\ FailedRow(t[j]) # NoRow
          /\ FailedRow(t[j]).abandoned => Exhausted(FailedRow(t[j]))
          /\ ~FailedRow(t[j]).abandoned => FailedRow(t[j]).attempts < MaxAttempts
      <3>1. FailedRow(t[j]).attempts \in Nat
        BY <2>1, FailedRowFacts DEF Row
      <3>2. /\ FailedRow(t[j]) \in Row
            /\ FailedRow(t[j]) # NoRow
            /\ FailedRow(t[j]).abandoned = Exhausted(FailedRow(t[j]))
        BY <2>1, FailedRowFacts
      <3>3. ~Exhausted(FailedRow(t[j])) => FailedRow(t[j]).attempts < MaxAttempts
        BY <3>1, TableConstants DEF Exhausted, TableConstants
      <3> QED
        BY <3>2, <3>3, Zenon
    <2> QED
      BY <1>2, <2>2, <2>3 DEF Table, Sound
  <1> QED
    BY <1>1, <1>2

(* removeAbandoned deletes no row but that of the job, and that one only   *)
(* if it is abandoned.                                                     *)
LEMMA RemoveAbandonedFacts ==
  ASSUME NEW t \in Table, NEW j \in Jobs
  PROVE  /\ RemoveAbandoned(t, j) \in Table
         /\ \A i \in Jobs \ {j} : RemoveAbandoned(t, j)[i] = t[i]
         /\ t[j] # NoRow /\ ~t[j].abandoned => RemoveAbandoned(t, j)[j] = t[j]
         /\ RemoveAbandoned(t, j)[j] \in {t[j], NoRow}
         /\ Sound(t) => Sound(RemoveAbandoned(t, j))
  <1>1. CASE j \in AbandonedJobs(t)
    <2>1. RemoveAbandoned(t, j) = Remove(t, j)
      BY <1>1 DEF RemoveAbandoned
    <2>2. t[j] # NoRow /\ t[j].abandoned
      BY <1>1 DEF AbandonedJobs, Present
    <2> QED
      BY <2>1, <2>2, RemoveFacts
  <1>2. CASE j \notin AbandonedJobs(t)
    <2>1. RemoveAbandoned(t, j) = t
      BY <1>2 DEF RemoveAbandoned
    <2> QED
      BY <2>1
  <1> QED
    BY <1>1, <1>2

(* The passing of time neither adds, deletes, abandons nor revives a row.  *)
LEMMA OlderFacts ==
  ASSUME NEW t \in Table, NEW d \in Nat
  PROVE  /\ Older(t, d) \in Table
         /\ \A i \in Jobs : Older(t, d)[i] = NoRow <=> t[i] = NoRow
         /\ \A i \in Jobs : t[i] # NoRow =>
              /\ Older(t, d)[i].abandoned = t[i].abandoned
              /\ Older(t, d)[i].attempts = t[i].attempts
         /\ Sound(t) => Sound(Older(t, d))
  <1>1. \A i \in Jobs : t[i] # NoRow => t[i] \in Row
    BY DEF Table
  <1>2. \A i \in Jobs : t[i] # NoRow =>
          /\ Older(t, d)[i] = OlderRow(t[i], d)
          /\ OlderRow(t[i], d) \in Row
          /\ OlderRow(t[i], d) # NoRow
          /\ OlderRow(t[i], d).abandoned = t[i].abandoned
          /\ OlderRow(t[i], d).attempts = t[i].attempts
    BY <1>1, OlderRowFacts DEF Older
  <1>3. \A i \in Jobs : t[i] = NoRow => Older(t, d)[i] = NoRow
    BY DEF Older
  <1>4. Older(t, d) \in Table
    <2>1. \A i \in Jobs : Older(t, d)[i] \in Row \cup {NoRow}
      BY <1>2, <1>3
    <2> QED
      BY <2>1 DEF Older, Table
  <1>5. ASSUME Sound(t), NEW i \in Jobs, t[i] # NoRow, t[i].abandoned
        PROVE  Exhausted(OlderRow(t[i], d))
    <2>1. t[i] \in Row /\ Exhausted(t[i])
      BY <1>1, <1>5 DEF Sound
    <2>2. OlderRow(t[i], d).attempts = t[i].attempts /\ OlderRow(t[i], d).age >= t[i].age
      BY <2>1, OlderRowFacts
    <2>3. OlderRow(t[i], d).age \in Nat /\ t[i].age \in Nat /\ t[i].attempts \in Nat
      BY <2>1, OlderRowFacts DEF Row
    <2> QED
      BY <2>1, <2>2, <2>3, TableConstants DEF TableConstants, Exhausted
  <1>6. Sound(t) => Sound(Older(t, d))
    BY <1>2, <1>3, <1>5 DEF Sound
  <1> QED
    BY <1>2, <1>3, <1>4, <1>6
=============================================================================

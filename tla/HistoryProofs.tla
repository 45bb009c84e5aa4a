--------------------------- MODULE HistoryProofs ---------------------------
(* Proofs about History for any set of receipts, any size of the list, any *)
(* debounce and any failures of the file.                                  *)
EXTENDS History, FiniteSetTheorems, TLAPS

(***************************************************************************)
(* KeepsTheLatest is not inductive: the trim compares with <=, and only if *)
(* no two receipts on record share a reading is what it drops older than   *)
(* all it keeps.  The clock going forward (steady) makes it so.            *)
(***************************************************************************)
SeenApart ==
  mode = "up" /\ steady => \A x, y \in Listed(seen) : seen[x] = seen[y] => x = y

IInv == TypeOK /\ SeenApart /\ KeepsTheLatest /\ UnsavedIsScheduled

-----------------------------------------------------------------------------
(* Facts about the table.                                                  *)

LEMMA ListedFinite == \A t \in Table : IsFiniteSet(Listed(t))
  <1> TAKE t \in Table
  <1>1. Listed(t) \subseteq Receipts
    BY DEF Listed
  <1> QED
    BY <1>1, FS_Subset, HistoryConstants

LEMMA OnlyListed ==
  ASSUME NEW t \in Table, NEW K \in SUBSET Listed(t)
  PROVE  /\ Only(t, K) \in Table
         /\ Listed(Only(t, K)) = K
         /\ \A x \in K : Only(t, K)[x] = t[x]
  BY HistoryConstants DEF Only, Listed, Table

LEMMA StampedTable ==
  ASSUME NEW t \in Table, NEW r \in Receipts, NEW c \in Stamps
  PROVE  /\ [t EXCEPT ![r] = c] \in Table
         /\ Listed([t EXCEPT ![r] = c]) = Listed(t) \cup {r}
  BY HistoryConstants DEF Listed, Table, Stamps

LEMMA EmptyTable == Empty \in Table /\ Listed(Empty) = {}
  BY HistoryConstants DEF Empty, Table, Listed

(* What the trim leaves is a table of some MaxHistory rows, or of all.     *)
LEMMA TrimmedRows ==
  ASSUME NEW t \in Table, NEW u \in Trimmed(t)
  PROVE  /\ u \in Table
         /\ Listed(u) \subseteq Listed(t)
         /\ \A x \in Listed(u) : u[x] = t[x]
         /\ \/ Cardinality(Listed(u)) = MaxHistory
            \/ Listed(u) = Listed(t) /\ Cardinality(Listed(u)) < MaxHistory
         /\ \A a \in Listed(t) \ Listed(u), b \in Listed(u) : t[a] <= t[b]
  <1>1. PICK K \in FirstByDate(t, MaxHistory) : u = Only(t, K)
    BY DEF Trimmed
  <1>2. K \in SUBSET Listed(t)
    BY <1>1 DEF FirstByDate
  <1>3. Listed(u) = K /\ u \in Table /\ \A x \in K : u[x] = t[x]
    BY <1>1, <1>2, OnlyListed
  <1> QED
    BY <1>1, <1>2, <1>3 DEF FirstByDate

-----------------------------------------------------------------------------
(* The heart of it: one recording, with the clock gone forward.            *)
LEMMA RecordKeepsLatest ==
  ASSUME TypeOK, SeenApart, KeepsTheLatest, mode = "up", steady,
         NEW r \in Receipts, NEW c \in Stamps,
         rows' \in Trimmed([rows EXCEPT ![r] = c]),
         \A x \in Receipts : seen[x] < c,
         seen' = [seen EXCEPT ![r] = c]
  PROVE  /\ \A x \in Listed(rows') : rows'[x] = seen'[x]
         /\ \A a \in Listed(seen') \ Listed(rows'), b \in Listed(rows') :
              seen'[a] < seen'[b]
         /\ Listed(rows') # Listed(seen') => Cardinality(Listed(rows')) = MaxHistory
         /\ \A x, y \in Listed(seen') : seen'[x] = seen'[y] => x = y
  <1> DEFINE t == [rows EXCEPT ![r] = c]
  <1>0. rows \in Table /\ seen \in Table /\ c \in Nat \ {0} /\ MaxHistory \in Nat \ {0}
    BY HistoryConstants DEF TypeOK, Stamps
  <1>1. t \in Table /\ Listed(t) = Listed(rows) \cup {r}
    BY <1>0, StampedTable
  <1>2. seen' \in Table /\ Listed(seen') = Listed(seen) \cup {r}
    BY <1>0, StampedTable
  <1>3. /\ rows' \in Table
        /\ Listed(rows') \subseteq Listed(t)
        /\ \A x \in Listed(rows') : rows'[x] = t[x]
        /\ \/ Cardinality(Listed(rows')) = MaxHistory
           \/ Listed(rows') = Listed(t) /\ Cardinality(Listed(rows')) < MaxHistory
        /\ \A a \in Listed(t) \ Listed(rows'), b \in Listed(rows') : t[a] <= t[b]
    <2> HIDE DEF t
    <2> QED
      BY <1>1, TrimmedRows DEF t
  <1>4. \A x \in Receipts : t[x] = IF x = r THEN c ELSE rows[x]
    BY <1>0 DEF Table
  <1>5. \A x \in Receipts : seen'[x] = IF x = r THEN c ELSE seen[x]
    BY <1>0 DEF Table
  <1>6. \A x \in Listed(rows) : rows[x] = seen[x] /\ x \in Listed(seen)
    BY DEF KeepsTheLatest, Listed
  <1>7. \A x \in Receipts : seen[x] \in Nat /\ seen'[x] \in Nat /\ t[x] \in Nat
    BY <1>0, <1>1, <1>2 DEF Table
  <1>8. \A x \in Listed(t) : t[x] = seen'[x]
    BY <1>1, <1>4, <1>5, <1>6 DEF Listed
  <1> HIDE DEF t
  <1>9. \A x, y \in Listed(seen') : seen'[x] = seen'[y] => x = y
    <2> SUFFICES ASSUME NEW x \in Listed(seen'), NEW y \in Listed(seen'),
                        seen'[x] = seen'[y]
                 PROVE  x = y
      OBVIOUS
    <2>1. x \in Receipts /\ y \in Receipts
      BY DEF Listed
    <2>2. CASE x = r \/ y = r
      BY <2>1, <2>2, <1>0, <1>5, <1>7
    <2>3. CASE x # r /\ y # r
      BY <2>1, <2>3, <1>2, <1>5 DEF SeenApart
    <2> QED
      BY <2>2, <2>3
  <1>10. ASSUME NEW a \in Listed(seen') \ Listed(rows'), NEW b \in Listed(rows')
         PROVE  seen'[a] < seen'[b]
    <2>1. a \in Receipts /\ b \in Receipts /\ b \in Listed(t) /\ a # b
      BY <1>3 DEF Listed
    <2>2. b \in Listed(seen')
      BY <2>1, <1>1, <1>2, <1>6
    <2>3. CASE a \in Listed(t)
      <3>1. seen'[a] <= seen'[b]
        BY <2>1, <2>3, <1>3, <1>8
      <3>2. seen'[a] # seen'[b]
        BY <2>1, <2>2, <1>9
      <3> QED
        BY <3>1, <3>2, <2>1, <1>7
    <2>4. CASE a \notin Listed(t)
      <3>1. a # r /\ a \in Listed(seen) \ Listed(rows)
        BY <2>4, <1>1, <1>2
      <3>2. CASE b = r
        BY <3>1, <3>2, <2>1, <1>5
      <3>3. CASE b # r
        <4>1. b \in Listed(rows)
          BY <3>3, <2>1, <1>1
        <4>2. seen[a] < seen[b]
          BY <3>1, <4>1 DEF KeepsTheLatest
        <4> QED
          BY <4>2, <3>1, <3>3, <2>1, <1>5
      <3> QED
        BY <3>2, <3>3
    <2> QED
      BY <2>3, <2>4
  <1>11. ASSUME Listed(rows') # Listed(seen'), Cardinality(Listed(rows')) # MaxHistory
         PROVE  FALSE
    <2>1. Listed(rows') = Listed(t) /\ Cardinality(Listed(t)) < MaxHistory
      BY <1>3, <1>11
    <2>2. Listed(rows) # Listed(seen)
      BY <2>1, <1>1, <1>2, <1>11
    <2>3. Cardinality(Listed(rows)) = MaxHistory
      BY <2>2 DEF KeepsTheLatest
    <2>4. Listed(rows) \subseteq Listed(t) /\ IsFiniteSet(Listed(t))
      BY <1>1, ListedFinite
    <2>5. /\ Cardinality(Listed(rows)) <= Cardinality(Listed(t))
          /\ Cardinality(Listed(t)) \in Nat
      BY <2>4, FS_Subset, FS_CardinalityType
    <2> QED
      BY <2>1, <2>3, <2>5, <1>0
  <1> QED
    BY <1>3, <1>8, <1>9, <1>10, <1>11

-----------------------------------------------------------------------------
(* Type correctness, action by action.                                     *)

LEMMA WriteTypes ==
  ASSUME NEW t \in Table, disk \in Table, WriteToDisk(t)
  PROVE  disk' \in Table /\ failed' \in BOOLEAN /\ (disk' = t \/ failed')
  <1>1. PICK w \in {"written"} \cup SaveFaults : Write(t, w)
    BY DEF WriteToDisk
  <1>2. failed' \in BOOLEAN
    BY <1>1, Zenon DEF Write
  <1>3. disk' \in Table
    BY <1>1, EmptyTable DEF Write
  <1>4. disk' = t \/ failed'
    BY <1>1 DEF Write
  <1> QED
    BY <1>2, <1>3, <1>4

LEMMA GoneTypes ==
  ASSUME NEW m \in {"crashed", "stopped"}, Gone(m)
  PROVE  /\ mode' = m
         /\ rows' \in Table /\ seen' \in Table
         /\ timer' \in 0..Debounce
         /\ steady' \in BOOLEAN /\ missed' \in BOOLEAN
  <1>1. steady' \in BOOLEAN /\ missed' \in BOOLEAN
    BY Zenon DEF Gone
  <1> QED
    BY <1>1, EmptyTable, HistoryConstants DEF Gone

LEMMA TypeInit == Init => TypeOK
  <1> SUFFICES ASSUME Init PROVE TypeOK
    OBVIOUS
  <1>1. failed \in BOOLEAN /\ steady \in BOOLEAN /\ missed \in BOOLEAN
    BY Zenon DEF Init
  <1> QED
    BY <1>1, EmptyTable, HistoryConstants DEF Init, TypeOK

LEMMA TypeStep == TypeOK /\ [Next]_vars => TypeOK'
  <1> SUFFICES ASSUME TypeOK, [Next]_vars PROVE TypeOK'
    OBVIOUS
  <1>1. ASSUME NEW r \in Receipts, NEW c \in Stamps, Record(r, c)
        PROVE  TypeOK'
    <2>1. rows' \in Table
      BY <1>1, StampedTable, TrimmedRows DEF Record, TypeOK
    <2>2. seen' \in Table
      BY <1>1, StampedTable, EmptyTable DEF Record, TypeOK
    <2>3. steady' \in BOOLEAN
      BY <1>1, Zenon DEF Record
    <2>4. missed' \in BOOLEAN
      BY <1>1, Zenon DEF Record
    <2> QED
      BY <1>1, <2>1, <2>2, <2>3, <2>4, HistoryConstants DEF Record, ScheduleSave, TypeOK
  <1>2. ASSUME NEW r \in Receipts, PrintRetried(r)
        PROVE  TypeOK'
    <2>1. missed' \in BOOLEAN
      BY <1>2, Zenon DEF PrintRetried
    <2> QED
      BY <1>2, <2>1 DEF PrintRetried, TypeOK, stored
  <1>3. CASE Tick
    <2>1. disk' \in Table /\ failed' \in BOOLEAN
      BY <1>3, WriteTypes DEF Tick, TypeOK
    <2> QED
      BY <1>3, <2>1, HistoryConstants DEF Tick, TypeOK, ghosts
  <1>4. CASE Crash
    BY <1>4, GoneTypes DEF Crash, TypeOK
  <1>5. CASE Shutdown
    <2>1. disk' \in Table /\ failed' \in BOOLEAN
      BY <1>5, WriteTypes DEF Shutdown, TypeOK
    <2> QED
      BY <1>5, <2>1, GoneTypes DEF Shutdown, TypeOK
  <1>6. CASE Boot
    <2>1. failed' \in BOOLEAN /\ steady' \in BOOLEAN
      BY <1>6, Zenon DEF Boot
    <2>2. rows' \in Table
      BY <1>6, EmptyTable DEF Boot, TypeOK
    <2> QED
      BY <1>6, <2>1, <2>2, HistoryConstants DEF Boot, ScheduleSave, TypeOK
  <1>7. CASE UNCHANGED vars
    BY <1>7 DEF vars, TypeOK
  <1> QED
    BY <1>1, <1>2, <1>3, <1>4, <1>5, <1>6, <1>7 DEF Next

-----------------------------------------------------------------------------
LEMMA InitInv == Init => IInv
  BY TypeInit, EmptyTable, HistoryConstants
  DEF Init, IInv, SeenApart, KeepsTheLatest, UnsavedIsScheduled

\* What the steps preserve besides the types.
Claims == SeenApart /\ KeepsTheLatest /\ UnsavedIsScheduled

LEMMA ClaimsStep == IInv /\ [Next]_vars => Claims'
  <1> SUFFICES ASSUME IInv, [Next]_vars PROVE Claims'
    OBVIOUS
  <1> USE DEF IInv, Claims
  <1>1. ASSUME NEW r \in Receipts, NEW c \in Stamps, Record(r, c)
        PROVE  Claims'
    <2>1. UnsavedIsScheduled'
      BY <1>1, HistoryConstants DEF Record, ScheduleSave, UnsavedIsScheduled
    <2>2. CASE steady'
      <3>1. /\ mode = "up" /\ steady
            /\ rows' \in Trimmed([rows EXCEPT ![r] = c])
            /\ \A x \in Receipts : seen[x] < c
            /\ seen' = [seen EXCEPT ![r] = c]
        BY <1>1, <2>2 DEF Record
      <3>2. SeenApart' /\ KeepsTheLatest'
        BY <3>1, RecordKeepsLatest DEF SeenApart, KeepsTheLatest
      <3> QED
        BY <2>1, <3>2
    <2>3. CASE ~steady'
      BY <2>1, <2>3 DEF SeenApart, KeepsTheLatest
    <2> QED
      BY <2>2, <2>3
  <1>2. ASSUME NEW r \in Receipts, PrintRetried(r)
        PROVE  Claims'
    BY <1>2 DEF PrintRetried, stored, SeenApart, KeepsTheLatest, UnsavedIsScheduled
  <1>3. CASE Tick
    <2>1. SeenApart' /\ KeepsTheLatest'
      BY <1>3 DEF Tick, ghosts, SeenApart, KeepsTheLatest
    <2>2. CASE timer = 1
      BY <1>3, <2>1, <2>2, WriteTypes DEF Tick, TypeOK, UnsavedIsScheduled
    <2>3. CASE timer # 1
      <3>1. timer' > 0
        BY <1>3, <2>3, HistoryConstants DEF Tick, TypeOK
      <3> QED
        BY <2>1, <3>1 DEF UnsavedIsScheduled
    <2> QED
      BY <2>2, <2>3
  <1>4. CASE Crash \/ Shutdown
    <2>1. mode' # "up"
      BY <1>4 DEF Crash, Shutdown, Gone
    <2> QED
      BY <2>1 DEF SeenApart, KeepsTheLatest, UnsavedIsScheduled
  <1>5. CASE Boot
    <2>1. seen' = rows' /\ timer' > 0
      BY <1>5, HistoryConstants DEF Boot, ScheduleSave
    <2>2. SeenApart'
      BY <1>5, <2>1 DEF Boot, SeenApart
    <2> QED
      BY <2>1, <2>2 DEF KeepsTheLatest, UnsavedIsScheduled
  <1>6. CASE UNCHANGED vars
    BY <1>6 DEF vars, SeenApart, KeepsTheLatest, UnsavedIsScheduled
  <1> QED
    BY <1>1, <1>2, <1>3, <1>4, <1>5, <1>6 DEF Next

(* The inductive invariant holds always.                                   *)
THEOREM Invariance == Spec => []IInv
  <1>1. IInv /\ [Next]_vars => IInv'
    <2>1. IInv /\ [Next]_vars => TypeOK'
      BY TypeStep DEF IInv
    <2> QED
      BY <2>1, ClaimsStep DEF IInv, Claims
  <1> QED
    BY <1>1, InitInv, PTL DEF Spec

(* history.js:20.  Type correctness: the list stays a table of stamps and  *)
(* the debounce timer within its bounds.                                   *)
THEOREM TypeCorrect == Spec => []TypeOK
  <1>1. IInv => TypeOK
    BY DEF IInv
  <1> QED
    BY <1>1, Invariance, PTL

(* history.js:74.  Record and trim keep the MAX_HISTORY receipts recorded  *)
(* last, for any limit and any sequence of prints and restarts.            *)
THEOREM LatestKept == Spec => []KeepsTheLatest
  <1>1. IInv => KeepsTheLatest
    BY DEF IInv
  <1> QED
    BY <1>1, Invariance, PTL

(* history.js:54.  No change of the table is left without a save to come,  *)
(* however often the debounce is restarted.                                *)
THEOREM SaveIsPending == Spec => []UnsavedIsScheduled
  <1>1. IInv => UnsavedIsScheduled
    BY DEF IInv
  <1> QED
    BY <1>1, Invariance, PTL

(* history.js:112.  An orderly stop saves all, which rests on              *)
(* UnsavedIsScheduled: close writes only when a timer is armed.            *)
THEOREM StopSaves == Spec => CloseSavesAll
  <1>1. IInv /\ [Next]_vars =>
          [mode = "up" /\ mode' = "stopped" => disk' = rows \/ failed']_vars
    <2> SUFFICES ASSUME IInv, Next, mode = "up", mode' = "stopped"
                 PROVE  disk' = rows \/ failed'
      BY DEF vars
    <2>1. Shutdown
      BY DEF Next, Record, PrintRetried, Tick, Crash, Gone, Boot
    <2>2. CASE timer > 0
      BY <2>1, <2>2, WriteTypes DEF Shutdown, IInv, TypeOK
    <2>3. CASE ~(timer > 0)
      BY <2>1, <2>3 DEF Shutdown, IInv, UnsavedIsScheduled
    <2> QED
      BY <2>2, <2>3
  <1> QED
    BY <1>1, Invariance, PTL DEF Spec, CloseSavesAll
=============================================================================

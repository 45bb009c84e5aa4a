------------------------------ MODULE History -------------------------------
(***************************************************************************)
(* The print history (history.js) and the calls index.js makes to it: the  *)
(* receipts printed last, in a table in memory that is written to          *)
(* agent-history.db some time after it has changed.                        *)
(*                                                                         *)
(* A row is its printed_at, a reading of Date.now(); 0 stands for no row.  *)
(* The clock may be read at any value: two prints may fall into the same   *)
(* millisecond, and a machine without a clock of its own steps back when   *)
(* it learns the time.  The payload is left out.                           *)
(***************************************************************************)
EXTENDS Naturals, FiniteSets

CONSTANTS
  Receipts,    \* job ids of kind `receipt' or `reprint'
  MaxHistory,  \* MAX_HISTORY
  Debounce,    \* SAVE_DEBOUNCE, in ticks of the model's clock
  MaxStamp,    \* bound: the clock readings told apart
  SaveFaults,  \* how writeFileSync may fail: "refused", "truncated"
  LoadFaults   \* whether reading the file on start may fail: "unreadable"

ASSUME HistoryConstants ==
  /\ MaxHistory \in Nat \ {0}
  /\ Debounce \in Nat \ {0}
  /\ MaxStamp \in Nat
  /\ SaveFaults \subseteq {"refused", "truncated"}
  /\ LoadFaults \subseteq {"unreadable"}
  /\ IsFiniteSet(Receipts)

VARIABLES
  mode,    \* the process: "up", "crashed", "stopped"
  rows,    \* the table in memory
  disk,    \* agent-history.db
  timer,   \* ticks until the debounced save; 0 when none is armed
  failed,  \* the last write of this process failed
  seen,    \* the clock when each receipt was last recorded, listed or not
  steady,  \* every recording so far had a later reading than those before
  missed   \* the receipt printed last was not on the list afterwards

stored == <<rows, disk>>
ghosts == <<seen, steady, missed>>
vars   == <<mode, rows, disk, timer, failed, seen, steady, missed>>

Stamps == 1..MaxStamp
Table  == [Receipts -> 0..MaxStamp]
Empty  == [r \in Receipts |-> 0]

Listed(t) == {r \in Receipts : t[r] # 0}

TypeOK ==
  /\ mode \in {"up", "crashed", "stopped"}
  /\ rows \in Table
  /\ disk \in Table
  /\ timer \in 0..Debounce
  /\ failed \in BOOLEAN
  /\ seen \in Table
  /\ steady \in BOOLEAN
  /\ missed \in BOOLEAN

\* PrintHistory.create where there is no file yet; it schedules a save.
Init ==
  /\ mode = "up"
  /\ rows = Empty
  /\ disk = Empty
  /\ timer = Debounce
  /\ failed = FALSE
  /\ seen = Empty
  /\ steady = TRUE
  /\ missed = FALSE

-----------------------------------------------------------------------------
(* _writeToDisk: overwrites the file; a failure is logged and forgotten.   *)
Write(t, w) ==
  /\ disk' = IF w = "written" THEN t ELSE IF w = "refused" THEN disk ELSE Empty
  /\ failed' = (w # "written")

WriteToDisk(t) == \E w \in {"written"} \cup SaveFaults : Write(t, w)

\* The first n of the listed rows by descending printed_at, as a set.  Which
\* of several rows with the same reading come first is open.
FirstByDate(t, n) ==
  {K \in SUBSET Listed(t) :
     /\ Cardinality(K) = n \/ (K = Listed(t) /\ Cardinality(K) < n)
     /\ \A a \in Listed(t) \ K, b \in K : t[a] <= t[b]}

Only(t, K) == [r \in Receipts |-> IF r \in K THEN t[r] ELSE 0]

\* Seeded fault: the trim counts the rows from the wrong end.
TrimmedOldestFirst(t) ==
  {Only(t, K) : K \in {K \in SUBSET Listed(t) :
     /\ Cardinality(K) = MaxHistory \/ (K = Listed(t) /\ Cardinality(K) < MaxHistory)
     /\ \A a \in Listed(t) \ K, b \in K : t[b] <= t[a]}}

(* DELETE ... WHERE job_id NOT IN (... ORDER BY printed_at DESC LIMIT ?)   *)
Trimmed(t) == {Only(t, K) : K \in FirstByDate(t, MaxHistory)}

\* Seeded fault: a pending save is put off by a debounce more each time.
ScheduleSaveAdding == timer' = timer + Debounce

(* _scheduleSave: a pending save is put off.                               *)
ScheduleSave == timer' = Debounce

(* handleJob after a successful print of a receipt: record, with the clock *)
(* at c.                                                                   *)
Record(r, c) ==
  /\ mode = "up"
  /\ rows' \in Trimmed([rows EXCEPT ![r] = c])
  /\ ScheduleSave
  /\ steady' = (steady /\ \A x \in Receipts : seen[x] < c)
  /\ seen' = IF steady' THEN [seen EXCEPT ![r] = c] ELSE Empty
  /\ missed' = (r \notin Listed(rows'))
  /\ UNCHANGED <<mode, disk, failed>>

(* A successful print that is not recorded: any of retryBufferedJobs, and  *)
(* one of handleJob whose buffer.remove throws.                            *)
PrintRetried(r) ==
  /\ mode = "up"
  /\ missed' = (r \notin Listed(rows))
  /\ UNCHANGED <<mode, stored, timer, failed, seen, steady>>

\* Seeded fault: the timer fires and its callback saves nothing.
TickSavingNothing ==
  /\ mode = "up"
  /\ timer > 0
  /\ timer' = timer - 1
  /\ UNCHANGED <<mode, stored, failed, ghosts>>

(* Time passes; when the debounce has run out the table is saved.          *)
Tick ==
  /\ mode = "up"
  /\ timer > 0
  /\ timer' = timer - 1
  /\ IF timer = 1 THEN WriteToDisk(rows) ELSE UNCHANGED <<disk, failed>>
  /\ UNCHANGED <<mode, rows, ghosts>>

\* The process is gone, and the table in memory with it.
Gone(m) ==
  /\ mode' = m
  /\ rows' = Empty
  /\ timer' = 0
  /\ seen' = Empty
  /\ steady' = TRUE
  /\ missed' = FALSE

Crash ==
  /\ mode = "up"
  /\ Gone("crashed")
  /\ UNCHANGED <<disk, failed>>

\* Seeded fault: close does not flush.
ShutdownUnsaved ==
  /\ mode = "up"
  /\ UNCHANGED <<disk, failed>>
  /\ Gone("stopped")

(* shutdown: close() saves at once what a pending timer would have saved.  *)
Shutdown ==
  /\ mode = "up"
  /\ IF timer > 0 THEN WriteToDisk(rows) ELSE UNCHANGED <<disk, failed>>
  /\ Gone("stopped")

(* PrintHistory.create on start.  A file that cannot be read is replaced   *)
(* by an empty table, and the debounced save will overwrite it.            *)
Boot ==
  /\ mode # "up"
  /\ mode' = "up"
  /\ \/ rows' = disk
     \/ "unreadable" \in LoadFaults /\ rows' = Empty
  /\ ScheduleSave
  /\ failed' = FALSE
  /\ seen' = rows'
  /\ steady' = \A x, y \in Listed(rows') : rows'[x] = rows'[y] => x = y
  /\ UNCHANGED <<disk, missed>>

Next ==
  \/ \E r \in Receipts : PrintRetried(r) \/ \E c \in Stamps : Record(r, c)
  \/ Tick
  \/ Crash
  \/ Shutdown
  \/ Boot

Spec == Init /\ [][Next]_vars

(* A Node timer that is armed fires; nothing else is promised to happen.   *)
FairSpec == Spec /\ WF_vars(Tick)

-----------------------------------------------------------------------------
(***************************************************************************)
(* history.js:2, the last MAX_HISTORY receipts.  Recording, replacing and  *)
(* trimming row by row keeps exactly those recorded last, over restarts    *)
(* and repeated prints of one receipt, as long as the clock goes forward   *)
(* from one recording to the next: whatever was recorded and is no longer  *)
(* listed is older than everything that is, and nothing goes early.        *)
(***************************************************************************)
KeepsTheLatest ==
  mode = "up" /\ steady =>
    /\ \A r \in Listed(rows) : rows[r] = seen[r]
    /\ \A a \in Listed(seen) \ Listed(rows), b \in Listed(rows) : seen[a] < seen[b]
    /\ Listed(rows) # Listed(seen) => Cardinality(Listed(rows)) = MaxHistory

(***************************************************************************)
(* What is not in the file yet is on its way: while the table and the file *)
(* differ a save is armed, unless the last write failed.                   *)
(***************************************************************************)
UnsavedIsScheduled == mode = "up" /\ disk # rows => timer > 0 \/ failed

(***************************************************************************)
(* An orderly stop loses nothing: unless a write failed, the file holds    *)
(* every receipt listed when shutdown began (history.js:112).              *)
(***************************************************************************)
CloseSavesAll ==
  [][mode = "up" /\ mode' = "stopped" => disk' = rows \/ failed']_vars

(***************************************************************************)
(* A quiet agent saves: if from some time on nothing re-arms the debounce  *)
(* the file comes to hold the table, unless the write fails.               *)
(***************************************************************************)
SavedWhenQuiet ==
  <>[](timer < Debounce) => <>[](mode = "up" => disk = rows \/ failed)

(***************************************************************************)
(* README.md:18: GET /local-receipts lists recent jobs.  So a receipt that *)
(* has just been printed is on the list, if the clock goes forward.  The   *)
(* code lists only what handleJob printed; the run that checks this shows  *)
(* a receipt printed by the retry loop.                                    *)
(***************************************************************************)
LastPrintIsListed == steady => ~missed
=============================================================================

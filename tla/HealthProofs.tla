---------------------------- MODULE HealthProofs ----------------------------
(* Proofs about Health for any number of requests, any bodies cut in any   *)
(* way, any limits.  A step of the server is a step of the history or      *)
(* leaves it alone, so what HistoryProofs shows of a step is used again.   *)
EXTENDS Health, HistoryProofs

(***************************************************************************)
(* AnsweredOnce is not inductive: `end' may follow the 413, and only the   *)
(* count of bytes keeps it from answering again.  TextArrives speaks of    *)
(* the end only.  The invariant is what each phase of a request says of    *)
(* its count, its answers and the job, and what the text holds on the way: *)
(* of the characters that are in, those that were not cut, and no other.   *)
(***************************************************************************)
Arrived(r) == \A ch \in r.body.chars :
  ch \in r.text <=> ch \subseteq 1..r.got /\ ~CutInTwo(ch, r.cuts)

Sound(r) ==
  /\ r \in Request
  /\ r.got <= r.body.length
  /\ \A i \in r.cuts : i <= r.got
  /\ r.got = 0 \/ r.got \in r.cuts
  /\ r.got <= MaxBody => Arrived(r)
  /\ r.pc \in {"idle", "receiving"} => r.answers = 0 /\ r.got <= MaxBody
  /\ r.pc = "destroyed" => r.answers = 1 /\ r.got > MaxBody
  /\ r.pc # "ended" => ~r.handed
  /\ r.answers <= 1
  /\ r.handed => r.got = r.body.length /\ r.got <= MaxBody

HealthInv ==
  /\ IInv
  /\ request \in [Requests -> Request]
  /\ \A q \in Requests : Sound(request[q])
  /\ shown \subseteq Receipts

-----------------------------------------------------------------------------
LEMMA BodyFacts ==
  ASSUME NEW b \in Bodies
  PROVE  b.length \in Nat /\ b.chars \in SUBSET SUBSET Nat
  BY HealthConstants DEF Body

LEMMA CharFacts ==
  ASSUME NEW b \in Bodies, NEW ch \in b.chars
  PROVE  \E first, last \in 1..b.length : first <= last /\ ch = first..last
  <1>1. PICK first \in 1..b.length : \E last \in first..b.length : ch = first..last
    BY HealthConstants
  <1>2. PICK last \in first..b.length : ch = first..last
    BY <1>1
  <1>3. last \in 1..b.length /\ first <= last
    BY <1>2, BodyFacts
  <1> QED
    BY <1>1, <1>2, <1>3

LEMMA SameText ==
  ASSUME NEW r, NEW s, Arrived(r),
         s.body = r.body, s.got = r.got, s.cuts = r.cuts, s.text = r.text
  PROVE  Arrived(s)
  BY DEF Arrived

LEMMA IdleSound ==
  ASSUME NEW b \in Bodies
  PROVE  Idle(b) \in Request /\ Sound(Idle(b))
  <1>1. Idle(b) \in Request
    <2>1. FALSE \in BOOLEAN
      BY Zenon
    <2> QED
      BY <2>1 DEF Idle, Request
  <1>2. Arrived(Idle(b))
    <2> SUFFICES ASSUME NEW ch \in b.chars
                 PROVE  ~(ch \subseteq 1..0)
      BY DEF Arrived, Idle
    <2>1. PICK first, last \in 1..b.length : first <= last /\ ch = first..last
      BY CharFacts
    <2>2. first \in ch /\ first \notin 1..0
      BY <2>1, BodyFacts
    <2> QED
      BY <2>2
  <1> QED
    BY <1>1, <1>2, BodyFacts, HealthConstants DEF Idle, Sound

LEMMA NoRequestSound == NoRequest \in Request /\ Sound(NoRequest)
  <1> DEFINE b == CHOOSE x \in Bodies : TRUE
  <1>1. b \in Bodies
    BY HealthConstants
  <1> HIDE DEF b
  <1>2. Idle(b) \in Request /\ Sound(Idle(b))
    BY <1>1, IdleSound
  <1> QED
    BY <1>2 DEF NoRequest, b

(* A step that gives one request a sound state and no other a new one.     *)
LEMMA OneRequest ==
  ASSUME HealthInv, NEW q \in Requests, NEW r, r \in Request, Sound(r),
         request' = [request EXCEPT ![q] = r]
  PROVE  request' \in [Requests -> Request] /\ \A p \in Requests : Sound(request'[p])
  <1>1. \A p \in Requests : request'[p] = IF p = q THEN r ELSE request[p]
    BY DEF HealthInv
  <1>2. request' \in [Requests -> Request]
    BY DEF HealthInv
  <1>3. \A p \in Requests : Sound(request[p])
    BY DEF HealthInv
  <1> QED
    BY <1>1, <1>2, <1>3

LEMMA AllIdleSound ==
  ASSUME Restarted
  PROVE  /\ request' \in [Requests -> Request]
         /\ \A q \in Requests : Sound(request'[q])
         /\ shown' \subseteq Receipts
  BY NoRequestSound DEF Restarted, AllIdle

-----------------------------------------------------------------------------
(* A piece that ends at `got' adds the characters it holds whole.  Of one  *)
(* that it shares with an earlier piece, the end of that piece is a cut.   *)
LEMMA PieceAdds ==
  ASSUME NEW r, r \in Request, Sound(r), r.got <= MaxBody,
         NEW got \in Nat, r.got < got, NEW ch \in r.body.chars
  PROVE  ch \in r.text \cup Decoded(r.body, r.got + 1, got)
           <=> ch \subseteq 1..got /\ ~CutInTwo(ch, r.cuts \cup {got})
  <1> DEFINE text == r.text \cup Decoded(r.body, r.got + 1, got)
             cuts == r.cuts \cup {got}
  <1>1. /\ r.body \in Bodies /\ r.got \in Nat /\ r.cuts \subseteq Nat
        /\ MaxBody \in Nat /\ r.body.length \in Nat
    BY BodyFacts, HealthConstants DEF Request
  <1>2. PICK first, last \in 1..r.body.length : first <= last /\ ch = first..last
    BY <1>1, CharFacts
  <1>3. first \in Nat \ {0} /\ last \in Nat /\ first <= last
    BY <1>1, <1>2
  <1>4. \A a, b \in Nat : ch \subseteq a..b <=> a <= first /\ last <= b
    BY <1>2, <1>3
  <1>5. ch \in text <=> ch \in r.text \/ (r.got + 1 <= first /\ last <= got)
    <2>1. ch \in Decoded(r.body, r.got + 1, got) <=> ch \subseteq (r.got + 1)..got
      BY DEF Decoded
    <2>2. r.got + 1 \in Nat
      BY <1>1
    <2>3. ch \subseteq (r.got + 1)..got <=> r.got + 1 <= first /\ last <= got
      BY <1>4, <2>2
    <2> QED
      BY <2>1, <2>3
  <1>6. ch \in r.text <=> last <= r.got /\ ~CutInTwo(ch, r.cuts)
    <2>1. ch \in r.text <=> ch \subseteq 1..r.got /\ ~CutInTwo(ch, r.cuts)
      BY DEF Sound, Arrived
    <2>2. ch \subseteq 1..r.got <=> last <= r.got
      BY <1>1, <1>3, <1>4
    <2> QED
      BY <2>1, <2>2
  <1>7. ch \subseteq 1..got <=> last <= got
    BY <1>3, <1>4
  <1>8. \A C \in SUBSET Nat : CutInTwo(ch, C) <=> \E i \in C : first <= i /\ i + 1 <= last
    BY <1>2, <1>3 DEF CutInTwo
  <1>9. CutInTwo(ch, cuts) <=> CutInTwo(ch, r.cuts) \/ (first <= got /\ got + 1 <= last)
    BY <1>1, <1>8
  <1>10. \A i \in r.cuts : i <= r.got
    BY DEF Sound
  <1>11. CASE last <= r.got
    BY <1>1, <1>3, <1>7, <1>5, <1>6, <1>9, <1>11
  <1>12. CASE r.got < last /\ first <= r.got
    <2>1. r.got \in r.cuts
      BY <1>1, <1>3, <1>12 DEF Sound
    <2>2. CutInTwo(ch, r.cuts)
      BY <1>1, <1>3, <1>8, <1>12, <2>1
    <2> QED
      BY <1>1, <1>3, <1>7, <1>5, <1>6, <1>9, <1>12, <2>2
  <1>13. CASE r.got < first
    <2>1. ~CutInTwo(ch, r.cuts)
      BY <1>1, <1>3, <1>8, <1>10, <1>13
    <2> QED
      BY <1>1, <1>3, <1>7, <1>5, <1>6, <1>9, <1>13, <2>1
  <1> QED
    BY <1>1, <1>3, <1>11, <1>12, <1>13

(* `data': the count passes the limit at most once, as the request is cut, *)
(* and up to then the text holds what has arrived.                         *)
LEMMA DataKeeps ==
  ASSUME HealthInv, NEW q \in Requests, NEW n \in 1..request[q].body.length, Data(q, n)
  PROVE  request' \in [Requests -> Request] /\ \A p \in Requests : Sound(request'[p])
  <1> DEFINE old  == request[q]
             got  == old.got + n
             cuts == old.cuts \cup {got}
             text == old.text \cup Decoded(old.body, old.got + 1, got)
  <1>1. /\ old \in Request /\ Sound(old) /\ old.pc = "receiving"
        /\ got <= old.body.length /\ n \in Nat /\ n > 0
    BY BodyFacts DEF HealthInv, Data, Request
  <1>2. /\ old.body \in Bodies /\ old.body.length \in Nat /\ old.got \in Nat
        /\ MaxBody \in Nat /\ got \in Nat /\ old.got < got
    BY <1>1, BodyFacts, HealthConstants DEF Request
  <1>3. old.answers = 0 /\ old.got <= MaxBody /\ ~old.handed
    BY <1>1 DEF Sound
  <1>4. /\ cuts \in SUBSET Nat /\ got \in cuts
        /\ \A i \in cuts : i <= got
    BY <1>1, <1>2 DEF Sound, Request
  <1>5. text \in SUBSET SUBSET Nat
    BY <1>1, <1>2, BodyFacts DEF Decoded, Request
  <1>6. \A ch \in old.body.chars :
          ch \in text <=> ch \subseteq 1..got /\ ~CutInTwo(ch, cuts)
    <2> HIDE DEF old, got
    <2> SUFFICES ASSUME NEW ch \in old.body.chars
                 PROVE  ch \in text <=> ch \subseteq 1..got /\ ~CutInTwo(ch, cuts)
      OBVIOUS
    <2> QED
      BY <1>1, <1>2, <1>3, PieceAdds
  <1>7. request' = [request EXCEPT ![q] =
          IF got > MaxBody
            THEN [old EXCEPT !.got = got, !.cuts = cuts,
                             !.pc = "destroyed", !.answers = old.answers + 1]
            ELSE [old EXCEPT !.got = got, !.cuts = cuts, !.text = text]]
    BY DEF Data, HealthInv
  <1> HIDE DEF old, got, cuts, text
  <1>8. CASE got > MaxBody
    <2> DEFINE new == [old EXCEPT !.got = got, !.cuts = cuts,
                                  !.pc = "destroyed", !.answers = old.answers + 1]
    <2>1. new \in Request
      <3>1. old.answers + 1 \in Nat
        BY <1>3
      <3> QED
        BY <1>1, <1>2, <1>4, <3>1 DEF Request
    <2>2. Sound(new)
      BY <1>1, <1>2, <1>3, <1>4, <1>8, <2>1 DEF Sound, Request
    <2>3. request' = [request EXCEPT ![q] = new]
      BY <1>7, <1>8
    <2> HIDE DEF new
    <2> QED
      BY <2>1, <2>2, <2>3, OneRequest
  <1>9. CASE ~(got > MaxBody)
    <2> DEFINE new == [old EXCEPT !.got = got, !.cuts = cuts, !.text = text]
    <2>1. new \in Request
      BY <1>1, <1>2, <1>4, <1>5 DEF Request
    <2>2. Arrived(new)
      BY <1>1, <1>6 DEF Arrived, Request
    <2>3. Sound(new)
      BY <1>1, <1>2, <1>3, <1>4, <1>9, <2>1, <2>2 DEF Sound, Request
    <2>4. request' = [request EXCEPT ![q] = new]
      BY <1>7, <1>9
    <2> HIDE DEF new
    <2> QED
      BY <2>1, <2>3, <2>4, OneRequest
  <1> QED
    BY <1>8, <1>9

(* `end': at most one answer, and none after the 413.                      *)
LEMMA EndKeeps ==
  ASSUME HealthInv, NEW q \in Requests, End(q)
  PROVE  request' \in [Requests -> Request] /\ \A p \in Requests : Sound(request'[p])
  <1> DEFINE old == request[q]
  <1>1. old \in Request /\ Sound(old) /\ Ends(q)
    BY DEF HealthInv, End
  <1>2. old.body.length \in Nat /\ old.got \in Nat /\ MaxBody \in Nat /\ old.answers \in Nat
    BY <1>1, BodyFacts, HealthConstants DEF Request
  <1>3. CASE old.got > MaxBody
    <2> DEFINE new == [old EXCEPT !.pc = "ended"]
    <2>1. new \in Request
      BY <1>1 DEF Request
    <2>2. old.pc = "destroyed"
      BY <1>1, <1>2, <1>3 DEF Sound, Ends
    <2>3. Sound(new)
      BY <1>1, <1>2, <2>1, <2>2 DEF Sound, Request
    <2>4. request' = [request EXCEPT ![q] = new]
      BY <1>2, <1>3 DEF End
    <2> HIDE DEF new
    <2> QED
      BY <2>1, <2>3, <2>4, OneRequest
  <1>4. CASE ~(old.got > MaxBody)
    <2> DEFINE job == old.body.holds = "job"
               new == [old EXCEPT !.pc = "ended", !.answers = old.answers + 1,
                                  !.handed = job]
    <2>1. job \in BOOLEAN
      BY Zenon
    <2>2. request' = [request EXCEPT ![q] = new]
      BY <1>2, <1>4 DEF End
    <2> HIDE DEF job
    <2>3. new \in Request
      <3>1. old.answers + 1 \in Nat
        BY <1>2
      <3> QED
        BY <1>1, <2>1, <3>1, Zenon DEF Request
    <2>4. old.pc = "receiving" /\ old.answers = 0 /\ old.got = old.body.length
      BY <1>1, <1>2, <1>4 DEF Sound, Ends
    <2>5. Arrived(old)
      BY <1>1, <1>2, <1>4 DEF Sound
    <2>6. Arrived(new)
      BY <1>1, <2>5, SameText DEF Request
    <2>7. Sound(new)
      BY <1>1, <1>2, <1>4, <2>3, <2>4, <2>6 DEF Sound, Request
    <2> HIDE DEF new
    <2> QED
      BY <2>2, <2>3, <2>7, OneRequest
  <1> QED
    BY <1>3, <1>4

-----------------------------------------------------------------------------
LEMMA HealthInitInv == HealthInit => HealthInv
  BY InitInv, NoRequestSound DEF HealthInit, HealthInv, AllIdle

(* The handling of a request touches neither the history nor the list.     *)
LEMMA RequestsTouchNothing ==
  ASSUME NEW q \in Requests
  PROVE  /\ \A b \in Bodies : Begin(q, b) => UNCHANGED <<vars, shown>>
         /\ \A n \in 1..request[q].body.length : Data(q, n) => UNCHANGED <<vars, shown>>
         /\ End(q) \/ Abort(q) => UNCHANGED <<vars, shown>>
  <1>1. ASSUME NEW b \in Bodies, Begin(q, b)
        PROVE  UNCHANGED <<vars, shown>>
    BY <1>1, Zenon DEF Begin
  <1>2. ASSUME NEW n \in 1..request[q].body.length, Data(q, n)
        PROVE  UNCHANGED <<vars, shown>>
    BY <1>2, Zenon DEF Data
  <1>3. End(q) => UNCHANGED <<vars, shown>>
    BY Zenon DEF End
  <1>4. Abort(q) => UNCHANGED <<vars, shown>>
    BY Zenon DEF Abort
  <1> QED
    BY <1>1, <1>2, <1>3, <1>4, Zenon

(* Every step of the server is a step of the history, or leaves it alone.  *)
LEMMA StepsHistory == [HealthNext]_healthVars => [Next]_vars
  <1> SUFFICES ASSUME HealthNext
               PROVE  [Next]_vars
    BY DEF healthVars
  <1>1. CASE \E q \in Requests :
               \/ \E b \in Bodies : Begin(q, b)
               \/ \E n \in 1..request[q].body.length : Data(q, n)
               \/ End(q) \/ Abort(q)
    BY <1>1, RequestsTouchNothing
  <1>2. CASE \E q \in Requests : EndNull(q)
    BY <1>2 DEF EndNull, Next
  <1>3. CASE ListReceipts
    BY <1>3 DEF ListReceipts
  <1>4. CASE (Crash \/ Shutdown \/ Boot) /\ Restarted
    BY <1>4 DEF Next
  <1>5. CASE \/ \E r \in Receipts : PrintRetried(r) \/ \E c \in Stamps : Record(r, c)
             \/ Tick
    BY <1>5 DEF Next
  <1> QED
    BY <1>1, <1>2, <1>3, <1>4, <1>5 DEF HealthNext

LEMMA HistoryKeeps == IInv /\ [Next]_vars => IInv'
  <1>1. IInv /\ [Next]_vars => TypeOK'
    BY TypeStep DEF IInv
  <1> QED
    BY <1>1, ClaimsStep DEF IInv, Claims

LEMMA HealthStepInv == HealthInv /\ [HealthNext]_healthVars => HealthInv'
  <1> SUFFICES ASSUME HealthInv, [HealthNext]_healthVars PROVE HealthInv'
    OBVIOUS
  <1>0. IInv'
    BY StepsHistory, HistoryKeeps DEF HealthInv
  <1> DEFINE Keeps == /\ request' \in [Requests -> Request]
                      /\ \A q \in Requests : Sound(request'[q])
                      /\ shown' \subseteq Receipts
  <1> SUFFICES Keeps
    BY <1>0 DEF HealthInv
  <1>1. CASE UNCHANGED <<request, shown>>
    BY <1>1 DEF HealthInv
  <1>2. CASE Restarted
    BY <1>2, AllIdleSound
  <1>3. CASE ListReceipts
    BY <1>3 DEF ListReceipts, FirstByDate, Listed, HealthInv
  <1>4. ASSUME NEW q \in Requests, NEW b \in Bodies, Begin(q, b)
        PROVE  Keeps
    <2> DEFINE new == [Idle(b) EXCEPT !.pc = "receiving"]
    <2>1. Idle(b) \in Request /\ Sound(Idle(b))
      BY IdleSound
    <2>2. new \in Request
      BY <2>1 DEF Request
    <2>3. Arrived(new)
      BY <2>1, SameText, HealthConstants DEF Sound, Idle
    <2>4. Sound(new)
      BY <2>1, <2>2, <2>3 DEF Sound, Request, Idle
    <2>5. request' = [request EXCEPT ![q] = new] /\ UNCHANGED shown
      BY <1>4 DEF Begin
    <2> HIDE DEF new
    <2> QED
      BY <2>2, <2>4, <2>5, OneRequest DEF HealthInv
  <1>5. ASSUME NEW q \in Requests, NEW n \in 1..request[q].body.length, Data(q, n)
        PROVE  Keeps
    BY <1>5, DataKeeps DEF Data, HealthInv
  <1>6. ASSUME NEW q \in Requests, End(q)
        PROVE  Keeps
    BY <1>6, EndKeeps DEF End, HealthInv
  <1>7. ASSUME NEW q \in Requests, Abort(q)
        PROVE  Keeps
    BY <1>7, NoRequestSound, OneRequest DEF Abort, HealthInv
  <1> QED
    BY <1>1, <1>2, <1>3, <1>4, <1>5, <1>6, <1>7 DEF HealthNext, healthVars, EndNull

(* The inductive invariant of the server and the history under it.         *)
THEOREM HealthInvariance == HealthSpec => []HealthInv
  BY HealthInitInv, HealthStepInv, PTL DEF HealthSpec

(* health.js:28.  Type correctness of the server over the history.    *)
THEOREM HealthTypeCorrect == HealthSpec => []HealthTypeOK
  <1>1. HealthInv => HealthTypeOK
    BY DEF HealthInv, IInv, HealthTypeOK, Sound
  <1> QED
    BY <1>1, HealthInvariance, PTL

(* health.js:88.  At most one answer per request, for any cutting of any   *)
(* body, the `end' that follows a 413 included.                            *)
THEOREM OneAnswer == HealthSpec => []AnsweredOnce
  <1>1. HealthInv => AnsweredOnce
    BY DEF HealthInv, AnsweredOnce, Sound
  <1> QED
    BY <1>1, HealthInvariance, PTL

(* health.js:75, 85.  What is printed again has every character of the     *)
(* body but those, and just those, that the end of a piece has cut in two, *)
(* for any body in any number of pieces of any size.                       *)
THEOREM TextHandedOn == HealthSpec => []TextArrives
  <1>1. ASSUME HealthInv, NEW q \in Requests, request[q].handed,
               NEW ch \in request[q].body.chars
        PROVE  ch \in request[q].text <=> ~CutInTwo(ch, request[q].cuts)
    <2> DEFINE r == request[q]
    <2>1. /\ r \in Request /\ Sound(r) /\ Arrived(r)
          /\ r.got = r.body.length /\ r.body \in Bodies
      BY <1>1 DEF HealthInv, Sound, Request
    <2>2. ch \subseteq 1..r.got
      BY <1>1, <2>1, CharFacts, BodyFacts
    <2> QED
      BY <1>1, <2>1, <2>2 DEF Arrived
  <1>2. HealthInv => TextArrives
    BY <1>1 DEF TextArrives
  <1> QED
    BY <1>2, HealthInvariance, PTL

-----------------------------------------------------------------------------
(***************************************************************************)
(* The server only reads the history: a history that is served behaves     *)
(* like one that is not, requests that end the process included.  So what  *)
(* is proved of History holds under the server too.                        *)
(***************************************************************************)
THEOREM ServedIsHistory == HealthSpec => Spec
  <1>1. HealthInit => Init
    BY DEF HealthInit
  <1> QED
    BY <1>1, StepsHistory, PTL DEF HealthSpec, Spec

(* Whatever is asked of the server, the history under it keeps the         *)
(* receipts recorded last and is saved by an orderly stop.                 *)
THEOREM ServedHistoryKeeps ==
  HealthSpec => []KeepsTheLatest /\ []UnsavedIsScheduled /\ CloseSavesAll
  BY ServedIsHistory, LatestKept, SaveIsPending, StopSaves, PTL

-----------------------------------------------------------------------------
(* health.js:64.  A list of at least one and at most MaxLimit receipts.    *)
LEMMA LimitInRange ==
  ASSUME NEW n \in Limits
  PROVE  Limit(n) \in 1..MaxLimit
  <1>1. n \in Int \/ n = NaN
    BY HealthConstants
  <1> QED
    BY <1>1, HealthConstants DEF Limit

(* health.js:61, history.js:94.  Staff see the receipts recorded last,     *)
(* and some as long as there are any, whatever limit they ask for.         *)
THEOREM LatestShown == HealthSpec => ShowsTheLatest
  <1> DEFINE Claim ==
        /\ Cardinality(shown') <= MaxLimit
        /\ steady => \A a \in Listed(seen) \ shown', b \in shown' : seen[a] < seen[b]
        /\ shown' = {} => mode # "up" \/ Listed(rows) = {}
  <1>1. HealthInv /\ [HealthNext]_healthVars =>
          [shown' # shown /\ mode' = "up" => Claim]_healthVars
    <2> SUFFICES ASSUME HealthInv, HealthNext, shown' # shown, mode' = "up"
                 PROVE  Claim
      BY DEF healthVars
    <2>1. ListReceipts \/ (mode # "up" /\ shown' = {})
      <3>1. \A q \in Requests :
              /\ \A b \in Bodies : ~Begin(q, b)
              /\ \A n \in 1..request[q].body.length : ~Data(q, n)
              /\ ~End(q) /\ ~Abort(q)
        BY RequestsTouchNothing
      <3>2. ~Crash /\ ~Shutdown /\ \A q \in Requests : ~EndNull(q)
        BY DEF EndNull, Crash, Shutdown, Gone
      <3>3. ListReceipts \/ (Boot /\ Restarted)
        BY <3>1, <3>2 DEF HealthNext
      <3> QED
        BY <3>3 DEF Boot, Restarted
    <2>2. CASE mode # "up" /\ shown' = {}
      BY <2>2, FS_EmptySet, HealthConstants
    <2>3. CASE ListReceipts
      <3>1. PICK n \in Limits : shown' \in FirstByDate(rows, Limit(n))
        BY <2>3 DEF ListReceipts
      <3> DEFINE k == Limit(n)
      <3>2. k \in 1..MaxLimit /\ MaxLimit \in Nat
        BY LimitInRange, HealthConstants
      <3> HIDE DEF k
      <3>3. /\ shown' \subseteq Listed(rows)
            /\ Cardinality(shown') = k \/ (shown' = Listed(rows) /\ Cardinality(shown') < k)
            /\ \A a \in Listed(rows) \ shown', b \in shown' : rows[a] <= rows[b]
        BY <3>1 DEF FirstByDate, k
      <3>4. Cardinality(shown') \in Nat
        <4>1. IsFiniteSet(Listed(rows))
          BY ListedFinite DEF HealthInv, IInv, TypeOK
        <4> QED
          BY <4>1, <3>3, FS_Subset, FS_CardinalityType
      <3>5. Cardinality(shown') <= MaxLimit
        BY <3>2, <3>3, <3>4
      <3>6. shown' = {} => Listed(rows) = {}
        BY <3>2, <3>3, FS_EmptySet
      <3>7. ASSUME steady, NEW a \in Listed(seen) \ shown', NEW b \in shown'
            PROVE  seen[a] < seen[b]
        <4>1. /\ mode = "up" /\ b \in Listed(rows) /\ a # b
              /\ KeepsTheLatest /\ SeenApart
          BY <2>3, <3>3 DEF ListReceipts, HealthInv, IInv
        <4>2. b \in Listed(seen) /\ seen[b] = rows[b]
          BY <4>1, <3>7 DEF KeepsTheLatest, Listed
        <4>3. CASE a \in Listed(rows)
          <5>1. seen[a] <= seen[b]
            BY <4>1, <4>2, <4>3, <3>3, <3>7 DEF KeepsTheLatest
          <5>2. seen[a] # seen[b]
            BY <4>1, <4>2, <3>7 DEF SeenApart
          <5>3. seen[a] \in Nat /\ seen[b] \in Nat
            BY <4>2, HistoryConstants DEF HealthInv, IInv, TypeOK, Table, Listed
          <5> QED
            BY <5>1, <5>2, <5>3
        <4>4. CASE a \notin Listed(rows)
          BY <4>1, <4>4, <3>7 DEF KeepsTheLatest
        <4> QED
          BY <4>3, <4>4
      <3> QED
        BY <3>5, <3>6, <3>7
    <2> QED
      BY <2>1, <2>2, <2>3
  <1> QED
    BY <1>1, HealthInvariance, PTL DEF HealthSpec, ShowsTheLatest
=============================================================================

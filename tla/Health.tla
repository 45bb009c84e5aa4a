------------------------------- MODULE Health -------------------------------
(***************************************************************************)
(* The local HTTP server (health.js) over the print history: what staff    *)
(* use to print a receipt again when the backend is out of reach.          *)
(*                                                                         *)
(* GET /local-receipts answers at once, from the table in memory.  POST    *)
(* /reprint collects a body that arrives in pieces of any size, and hands  *)
(* the job it holds to handleJob (HandleJob of PrintAgent).  The other     *)
(* routes answer at once and touch nothing.                                *)
(*                                                                         *)
(* A body is its length, its characters, each the bytes it is encoded in,  *)
(* and what it holds: a job, the literal null, or something bad (no JSON,  *)
(* or no job_id or driver).  Every piece is decoded on its own, so of a    *)
(* character that is cut in two the text gets something else.              *)
(* External, of Node: after req.destroy() no further `data' is delivered,  *)
(* but an `end' that was already on its way may be.                        *)
(***************************************************************************)
EXTENDS History, Integers

CONSTANTS
  Requests,      \* POST requests under way at once
  Bodies,        \* the bodies they send
  MaxBody,       \* MAX_BODY
  Limits,        \* values of ?limit=
  NaN,           \* what parseInt makes of a limit that is no number
  DefaultLimit,  \* 20
  MaxLimit       \* 50

Body == [length : Nat, chars : SUBSET SUBSET Nat, holds : {"job", "bad", "null"}]

ASSUME HealthConstants ==
  /\ Bodies \subseteq Body /\ Bodies # {}
  /\ \A b \in Bodies : \A ch \in b.chars :
       \E first \in 1..b.length : \E last \in first..b.length : ch = first..last
  /\ MaxBody \in Nat
  /\ NaN \notin Int
  /\ Limits \subseteq Int \cup {NaN}
  /\ DefaultLimit \in 1..MaxLimit
  /\ MaxLimit \in Nat

VARIABLES
  request,  \* the state of each request
  shown     \* the receipts served last

healthVars == <<vars, request, shown>>

Request ==
  [ pc      : {"idle", "receiving", "ended", "destroyed"},
    body    : Bodies,            \* what the client sends
    got     : Nat,               \* bodyLen
    cuts    : SUBSET Nat,        \* where a piece ended
    text    : SUBSET SUBSET Nat, \* body: the characters in it
    answers : Nat,               \* responses begun
    handed  : BOOLEAN ]          \* the job went to handleJob

Idle(b) == [ pc |-> "idle", body |-> b, got |-> 0, cuts |-> {}, text |-> {},
             answers |-> 0, handed |-> FALSE ]

HealthTypeOK ==
  /\ TypeOK
  /\ request \in [Requests -> Request]
  /\ \A q \in Requests : request[q].got <= request[q].body.length
  /\ shown \subseteq Receipts

NoRequest == Idle(CHOOSE b \in Bodies : TRUE)

AllIdle == [q \in Requests |-> NoRequest]

HealthInit == Init /\ request = AllIdle /\ shown = {}

-----------------------------------------------------------------------------
\* Seeded fault: zero and negative limits are taken as they are.
LimitAnyNumber(n) ==
  LET parsed == IF n = NaN THEN DefaultLimit ELSE n
  IN  IF parsed > MaxLimit THEN MaxLimit ELSE parsed

(* Math.min(NaN or at most 0 ? 20 : parsed, 50)                            *)
Limit(n) ==
  LET parsed == IF n = NaN \/ n <= 0 THEN DefaultLimit ELSE n
  IN  IF parsed > MaxLimit THEN MaxLimit ELSE parsed

(* GET /local-receipts: recent(limit).                                     *)
ListReceipts ==
  /\ mode = "up"
  /\ \E n \in Limits : shown' \in FirstByDate(rows, Limit(n))
  /\ UNCHANGED <<vars, request>>

\* Seeded fault: bodyLen is shared by all requests.
BeginCounting(q, b) ==
  /\ mode = "up"
  /\ request[q].pc # "receiving"
  /\ request' = [request EXCEPT
       ![q] = [Idle(b) EXCEPT !.pc = "receiving", !.got = request[q].got]]
  /\ UNCHANGED <<vars, shown>>

(* POST /reprint: the headers are in.  A slot is used anew once its        *)
(* request is over.                                                        *)
Begin(q, b) ==
  /\ mode = "up"
  /\ request[q].pc # "receiving"
  /\ request' = [request EXCEPT ![q] = [Idle(b) EXCEPT !.pc = "receiving"]]
  /\ UNCHANGED <<vars, shown>>

\* The characters that lie within a piece: what decoding it by itself gives.
Decoded(b, first, last) == {ch \in b.chars : ch \subseteq first..last}

\* Seeded fault: `body = chunk', which keeps the last piece only.
DataKeepingLast(q, n) ==
  /\ request[q].pc = "receiving"
  /\ request[q].got + n <= request[q].body.length
  /\ LET r   == request[q]
         got == r.got + n
     IN  request' = [request EXCEPT ![q] =
           IF got > MaxBody
             THEN [r EXCEPT !.got = got, !.cuts = @ \cup {got},
                            !.pc = "destroyed", !.answers = @ + 1]
             ELSE [r EXCEPT !.got = got, !.cuts = @ \cup {got},
                            !.text = Decoded(r.body, r.got + 1, got)]]
  /\ UNCHANGED <<vars, shown>>

(* `data': n more bytes.  Too many in all: 413, and the request is cut.    *)
Data(q, n) ==
  /\ request[q].pc = "receiving"
  /\ request[q].got + n <= request[q].body.length
  /\ LET r   == request[q]
         got == r.got + n
     IN  request' = [request EXCEPT ![q] =
           IF got > MaxBody
             THEN [r EXCEPT !.got = got, !.cuts = @ \cup {got},
                            !.pc = "destroyed", !.answers = @ + 1]
             ELSE [r EXCEPT !.got = got, !.cuts = @ \cup {got},
                            !.text = @ \cup Decoded(r.body, r.got + 1, got)]]
  /\ UNCHANGED <<vars, shown>>

\* The body is in, and its `end' is delivered.
Ends(q) ==
  /\ request[q].pc \in {"receiving", "destroyed"}
  /\ request[q].got = request[q].body.length

\* Seeded fault: no test for a request that was answered already.
EndAnsweringAgain(q) ==
  /\ Ends(q)
  /\ request[q].body.holds # "null"
  /\ request' = [request EXCEPT ![q].pc = "ended", ![q].answers = @ + 1,
                                ![q].handed = request[q].body.holds = "job"]
  /\ UNCHANGED <<vars, shown>>

(* `end': 400 for a bad body; 202 for a job, once handleJob was called;    *)
(* nothing when 413 was answered.                                          *)
End(q) ==
  /\ Ends(q)
  /\ \/ /\ request[q].got > MaxBody
        /\ request' = [request EXCEPT ![q].pc = "ended"]
     \/ /\ request[q].got <= MaxBody
        /\ request[q].body.holds # "null"
        /\ request' = [request EXCEPT ![q].pc = "ended", ![q].answers = @ + 1,
                                      ![q].handed = request[q].body.holds = "job"]
  /\ UNCHANGED <<vars, shown>>

\* The agent comes down or up: open requests are lost.
Restarted == request' = AllIdle /\ shown' = {}

(* The body `null' is JSON, and has no property job_id: the handler throws *)
(* outside its try, which ends the process.                                *)
EndNull(q) ==
  /\ Ends(q)
  /\ request[q].got <= MaxBody
  /\ request[q].body.holds = "null"
  /\ Crash
  /\ Restarted

(* The client goes away; no `end' follows.                                 *)
Abort(q) ==
  /\ request[q].pc = "receiving"
  /\ request' = [request EXCEPT ![q] = NoRequest]
  /\ UNCHANGED <<vars, shown>>

HealthNext ==
  \/ /\ \/ \E r \in Receipts : PrintRetried(r) \/ \E c \in Stamps : Record(r, c)
        \/ Tick
     /\ UNCHANGED <<request, shown>>
  \/ (Crash \/ Shutdown \/ Boot) /\ Restarted
  \/ ListReceipts
  \/ \E q \in Requests :
       \/ \E b \in Bodies : Begin(q, b)
       \/ \E n \in 1..request[q].body.length : Data(q, n)
       \/ End(q)
       \/ EndNull(q)
       \/ Abort(q)

HealthSpec == HealthInit /\ [][HealthNext]_healthVars

-----------------------------------------------------------------------------
(***************************************************************************)
(* One request, one answer, however its body is cut and wherever the limit *)
(* is passed: a second writeHead would throw and end the process.          *)
(***************************************************************************)
AnsweredOnce == \A q \in Requests : request[q].answers <= 1

(***************************************************************************)
(* How much of a body handleJob gets: every character of it, however many  *)
(* pieces it came in, but for those, and just those, that the end of a     *)
(* piece has cut in two.  So a body of single-byte characters is printed   *)
(* as it was sent, and any other one is as long as no cut falls badly.     *)
(***************************************************************************)
CutInTwo(ch, cuts) == \E i \in cuts : i \in ch /\ i + 1 \in ch

TextArrives ==
  \A q \in Requests : request[q].handed =>
    \A ch \in request[q].body.chars :
      ch \in request[q].text <=> ~CutInTwo(ch, request[q].cuts)

(***************************************************************************)
(* What staff see: the receipts recorded last, up to MaxLimit of them, and *)
(* something as long as anything is listed, whatever limit was asked for   *)
(* (as long as the clock goes forward).                                    *)
(***************************************************************************)
ShowsTheLatest ==
  [][shown' # shown /\ mode' = "up" =>
       /\ Cardinality(shown') <= MaxLimit
       /\ steady => \A a \in Listed(seen) \ shown', b \in shown' : seen[a] < seen[b]
       /\ shown' = {} => mode # "up" \/ Listed(rows) = {}]_healthVars
=============================================================================

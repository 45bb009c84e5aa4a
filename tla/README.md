# Verification of the ASPOS print agent

TLA+ models of the agent in `src/src/`, TLC configurations that check them on
small instances, and TLAPS proofs of their main properties for every instance.
Paths such as `buffer.js:98` are relative to `src/src/`.

Contents: [the system](#1-the-system) · [hard behaviours](#2-what-is-hard-here) ·
[modules](#3-the-modules) · [runs](#4-the-runs) · [fairness](#5-fairness) ·
[findings](#6-where-code-and-documentation-differ) · [proofs](#7-the-proofs) ·
[not modelled](#8-what-is-not-modelled) · [plan](#9-plan)

## 1. The system

One Node process runs on a shop's computer. It receives print jobs over a
WebSocket (Laravel Reverb, through pusher-js), sends each one as raw ESC/POS
bytes to a network printer over TCP, and reports the result to the backend over
HTTPS. A service manager starts it and restarts it when it fails.

| component | state it keeps | operations | correct when |
|---|---|---|---|
| Entry point, `index.js` | one interval timer, the flag of a shutdown in progress | start; `handleJob`; `retryBufferedJobs`; heartbeat; `shutdown` | every accepted job is printed or given up and reported; overlapping invocations do not damage each other's work; the process ends for good only on purpose |
| Job buffer, `buffer.js` | table `jobs` in an in-memory sql.js database; `agent-buffer.db`, rewritten whole after each change | `create`, `enqueue`, `dueJobs`, `recordFailure`, `abandonedJobs`, `removeAbandoned`, `remove`, `close` | the file follows the table; the limits (30 attempts, 24 h) end every job; a row is never revived or deleted by a flow with old knowledge |
| Worker, `worker.js` | none | `processJob`: check the job, print, report ok or fail | returns once both the print and the report have settled |
| Printer client, `printer.js` | per call: one promise, one socket, two timers | `sendToPrinter` | settles always and once; a rejected call sends nothing more; a resolved one sent the ticket |
| Connection, `connection.js` | `_pusher`, `_backoff`, `_reconnectTimer`, `_stopped`, `_connected` | `connect`, `connected`/`disconnected`/`error` events, `_subscribe`, `_scheduleReconnect`, `stop` | never stranded without a timer or a client; one job handler; silent after `stop` |
| Backend client, `backend.js` | the handler of the revoked signal | `reportHeartbeat`, `reportResult`, `channelAuth`; a 410 `agent_revoked` answer to any of them calls the handler | a call without an answer is aborted; `reportResult` and `reportHeartbeat` never reject; a deleted agent shuts down, and nothing else makes it |
| History, `history.js` | table of the last 50 printed receipts, a debounce timer, `agent-history.db` | `create`, `record`, `recent`, debounced save, `close` | the newest 50 are kept, listed, and reach the file |
| Health server, `health.js` | the HTTP server; per `POST` the body so far | `GET /health`, `GET /local-receipts`, `POST /reprint` | one answer per request; of a reprint nothing is lost but characters cut in two; the list is the latest receipts |
| Configuration, `config.js` | none after start | `required`, `parseEnvInt` | a bad value stops the start |
| Logger, sql.js loader | a level; a memoized promise | - | - |
| Installers and service files, `install/` | the operating system's services | install, uninstall; restart policy | a failed agent is restarted, a stopped one is not |

How they interact. A job event on the channel, or a `POST /reprint`, calls
`handleJob`: `enqueue` (which writes the file before it returns), `processJob`
(await the printer, await the report), then `remove` or `recordFailure` (each
writes the file). Every 30 s a timer of `index.js` calls
`retryBufferedJobs`, which reads `dueJobs()` once, processes its entries one by
one in the same way, then reads `abandonedJobs()` once and reports and removes
each. `connection.js` calls `channelAuth` of the backend to subscribe. A 410
`agent_revoked` from the backend, SIGTERM and SIGINT all lead to `shutdown`, which
exits with code 0. Any uncaught failure exits with another code. After a
successful print `handleJob` (but not the retry loop) records receipts in the
history; the health server lists them and hands a reprint to `handleJob`.

## 2. What is hard here

There are no threads, but there is concurrency at every `await`:

- `setInterval` does not wait for an asynchronous callback, so several
  invocations of `retryBufferedJobs` and any number of `handleJob` calls are
  under way at once, over one table. A print may take 40 s and a report 10 s;
  the retry timer fires every 30 s.
- Lists read before an `await` are used after it. An entry may by then have
  been printed, failed, abandoned, removed, or removed and delivered anew.
- Reports are lost without a trace; a write to disk may fail before or after
  the file was truncated; the process may die between any two awaits.
- Sockets, timers and callbacks race to settle one promise.
- The save of the history is put off again and again, may fail, and races the
  end of the process.
- A request body arrives in any number of pieces; `end` may follow the 413.
- Answers of the backend come late, break off, or come from a proxy; several
  calls learn of the same deletion at once; the service manager starts a failed
  process again in the middle of it.
- pusher-js recovers on its own while the agent's own reconnect timer runs, and
  announces `disconnected` from inside the teardown that replaces it.

`PROJECT.json` lists these as `hazards`, each at its line and with the
properties that would catch it going wrong.

## 3. The modules

| module | models | extended by |
|---|---|---|
| `JobTable` | the rows of `buffer.js` and every method that changes them, as pure operators | `PrintAgent` |
| `PrintAgent` | the job path: `index.js` over buffer, worker, and the promises of printer and backend; crash, shutdown, start, the clock | `MCPrintAgent`, `PrintAgentProofs` |
| `DurableQueue` | what the job buffer promises: the abstract specification `PrintAgent` implements | instantiated by `PrintAgent` |
| `Printer` | `sendToPrinter`: promise, socket, timers | `MCPrinter`, `PrinterProofs` |
| `PrintPromise` | what a call of `sendToPrinter` promises: the abstract specification `Printer` implements | instantiated by `Printer` |
| `Connection` | `AgentConnection` over one pusher-js client at a time | `MCConnection`, `ConnectionProofs` |
| `History` | `history.js` and the calls of `index.js` to it, over crash, stop and start | `Health`, `HistoryProofs` |
| `Health` | the server of `health.js` composed with the history | `MCHealth`, `HealthProofs` |
| `Lifecycle` | the process: configuration, calls to the backend, signals, deletion of the agent, the service manager | `MCLifecycle`, `LifecycleProofs` |
| `JobTableProofs` | lemmas about the operators of `JobTable` | `PrintAgentProofs` |
| `MC*` | constants and symmetry sets for TLC | - |
| `*Proofs` | theorems | - |

`PROJECT.json` maps each definition to the lines it stands for. Definitions
whose comment says *seeded fault* (`FailedRowAtLimit`, `SettleKeepingSocket`,
...) are not part of any specification: they are variants of the definition
that follows them, with a plausible bug, and are substituted one at a time to
confirm that the property concerned can fail.

### PrintAgent and JobTable

*Atomicity.* Node runs one continuation at a time, so an action is the code
from one `await` to the next, all of its calls included: `HandleJob` is
`enqueue` with its write *and* the checks of `processJob` up to the socket;
`FinishSent` is what follows the report: the removal, its write, and, in a retry
flow, the choice of the next entry.

*State.* `mem` is the sql.js database and `disk` the file. `flow[s]` is one
invocation of `handleJob` or `retryBufferedJobs`: where it waits (`pc`), the
job, and the rest of the list it read (`todo`). `owed`, `waiting`, `sent`,
`prints` (how often a job was printed), `gaveUp` are history variables: no guard
reads them; `behind` says that the last write failed. `stops` and `deliveries`
count what the environment did.

*Data.* A row holds exactly the columns the code reads back. Time is relative:
`age` is `Date.now() - received_at`, which the code only compares with the TTL,
so it is capped there; `wait` is `next_retry_at - Date.now()`, which the code
only compares with 0. `Elapse` moves the clock of a running agent by one unit,
`Boot` by any number of units up to TTL, the length of the outage. Time does not
step back: of `Date.now()` it is assumed that it falls behind by no more than the
time that has really passed (`AbandonedIsFinal` needs it; `History`, whose rows
the clock only orders, admits any reading). Payloads are
left out: the buffer keeps the payload of the first delivery, and every delivery
of an id prints the same ticket. `Printable` is the set of jobs for which
`processJob` reaches the printer; the others (no printer address, or no payload)
go straight to the failure report.

*Faults.* `_persist` overwrites the file in place. It may succeed, be refused
(the file keeps its content) or fail after truncation (the file is empty):
`WriteFaults` says which of these a run admits. A failed write throws after the
table in memory has changed, and ends a `handleJob` and a `retryBufferedJobs`
alike; the promise is rejected and caught by the caller's `catch`. `create` ends
with such a write too (`buffer.js:31`): when it fails, the `await` at the top of
`index.js` rejects and the process exits with a failure, so `Boot` leads to
`"crashed"`, over the old file or an empty one.

| code | action or operator |
|---|---|
| `buffer.js` enqueue, recordFailure, dueJobs, abandonedJobs, removeAbandoned, remove | `Enqueue`, `RecordFailure`, `DueJobs`, `AbandonedJobs`, `RemoveAbandoned`, `Remove` |
| `buffer.js` `_persist` | `Persist(t, w)` |
| `index.js` handleJob up to the printer | `HandleJob` |
| the retry timer and the first step of `retryBufferedJobs` | `RetryTick`, `NextDue`, `NextAbandoned` |
| `sendToPrinter` settles inside `processJob` | `PrinterAnswers` |
| after `reportResult`, by outcome | `FinishSent`, `FinishFailed`, `FinishAbandoned` |
| a crash; `shutdown`; start with `JobBuffer.create` | `Crash`; `Shutdown`; `Boot` |

### DurableQueue

The promise without the means: a set of jobs that survives crashes. A job
that is accepted is in the queue; only what is done leaves it, only what was
offered enters it. `PrintAgent` implements it with

| `DurableQueue` | in `PrintAgent` |
|---|---|
| `offered` | the jobs with `deliveries[j] > 0` |
| `accepted` | `owed` |
| `queue` | `Present(disk)`: the rows of the file, not of the table in memory |
| `done` | `sent \cup gaveUp` |

`HandleJob` is `Accept`, or `Refuse` when the write throws; `FinishAbandoned` is
`Complete`, and so is `PrinterAnswers` with a success, although the row leaves the
queue only with a later write, which is `Flush`; a write that makes good for
failed ones brings the queue up to date with all of them.
A crash, a stop and the clock are stutters; so is a start, which is where a
queue that purged old jobs would show.

### Printer

State per call: `promise`, `settled`, `socket`, `timer`, `taken` (how much of the
ticket the kernel has accepted). `Settle` is the code's `settle`: the first
call decides, clears the timers, and destroys the socket on an error. External,
and assumed of `net.Socket`: a destroyed socket delivers no more events and
takes no more bytes; the callback of `socket.end` is called exactly once, at the
end of the data or, with an error, when the socket fails before that, ahead of
the event `error`. A call in `BadAddress` has a port or host at which
`socket.connect` throws: its promise is rejected by the exception, not through
`settle`, and its connect timer lives on and later fires to no effect.

`PrintPromise` is what is left for a caller: an attempt is open from its call
until it settles, settles once, and parts of the ticket reach the network only
while it is open, none twice. It says nothing of how much was handed over when it
settles, since the code resolves a ticket that broke off (section 6). `Printer`
implements it with `outcome <- promise` and `handed <- taken`:

| `Printer` | `PrintPromise` |
|---|---|
| the call of `sendToPrinter` | `Call`, which may fail at once (`BadAddress`) |
| a part of the ticket is taken | `HandOver` |
| any step that settles an open call: a timer, an `error`, the callback of `socket.end` | `Settle` |
| every other step of socket and timers, the late connect timer and events after settling among them | a stutter |

`PrinterAnswers` of `PrintAgent` rests on this: an attempt is answered once, and
nothing of it happens after. That it is answered at all is `EventuallySettles`.

### Connection

`handle` is `_reconnectTimer !== null` and `armed` says whether the timer it
stands for has yet to fire; they are separate so that a stale handle can be seen.
`ReconnectTimer` includes the teardown of the old client, which announces
`disconnected` from inside `disconnect()` (`handle` is cleared by then, so a
further attempt is scheduled before this one starts). External, and assumed of
pusher-js: it may recover by itself and announce `connected` again, announces
`error` whether or not the connection survives it, and is silent after
`disconnect()`.

### History and Health

A row is its `printed_at`, a number from 1 to `MaxStamp`, 0 for no row; payloads
are left out. `Record` may read the clock at any value, so ties and steps back
happen; `steady` says that none has happened since the start, and the claims
about "latest" are made under it: of ties and of a clock that steps back nothing
is claimed. With ties any choice of SQLite is admitted
(`FirstByDate` is a set of results). `timer` counts the debounce down; `Write`
fails as `_persist` may, but is caught and forgotten. `seen`, `steady`, `missed`
are history variables; `PrintRetried` is the success of the retry loop, which
does not call `record`, or of a `handleJob` whose `remove` throws before it could.

`Health` extends `History` and adds requests. A body is its length, its
characters, each the interval of bytes it is encoded in, and what it holds (a job,
something bad, or the literal `null`). `Data` delivers any number of bytes, which
are decoded by themselves: `text`, the variable `body` of the code, gains the
characters that lie within the piece. `cuts` is a history variable. `End` answers 400 or 202
or, after a 413, nothing; `EndNull` is the exception that a body `null` raises
outside the handler's `try`, which ends the process (`Crash` of `History`). Where
the job goes from `handed` on is `HandleJob` of `PrintAgent`, for which it is one
more delivery. External, and assumed of Node's server: no `data` after
`destroy()`, but an `end` may still come; no `end` after the client has gone.

### Lifecycle

`proc` is the process as the service manager sees it. `ConfigOk` is what
`config.js` demands of the environment; the process comes up or fails on it. Each
name in `Calls` is a place for a call of one kind, `free`, `sent` (the headers are
awaited, under the abort timer), or an answer whose body is awaited: a 410 always
(`isRevokedResponse`), an error unless it is a heartbeat's, a success if it is a
channel authorization. `ReadBody` of a `revoked` answer runs the handler and
`shutdown` to `process.exit(0)` in one step. External, and assumed of the
backend: `revoked` is answered only once the agent was deleted, and no success
from then on. A body that is awaited may break off (`LoseBody`) or trickle without
end: the abort timer is cleared by then (`backend.js:69`).

## 4. The runs

Check one with `tlc -config <cfg> <module>`. `PROJECT.json` names, for every
property of a passing run, a seeded fault under which TLC finds it violated.

| run | instance | properties | shows |
|---|---|---|---|
| `agent_two_jobs` | 2 jobs, one of them unprintable, 2 flows, 1 delivery each, 1 crash or stop, refused writes, symmetry | `TypeOK`, `NoLostJob`, `DiskInStep`, `ImplementsQueue` | an accepted job is on disk until it was sent or given up; the file is the table after every good write; the agent is a durable queue |
| `agent_redelivery` | 1 job delivered twice, 2 flows, refused and truncated writes, 1 crash or stop | `LiveRowLeavesOnlySent`, `AbandonedIsFinal`, `RowsComeFromDeliveries`, `HeldUntilDone`, `AttemptsBounded`, `PrintsBounded`, `BufferDrains` | flows acting on old lists do no harm to a row that has changed under them; what is held is lost in two ways only, a process that ends after a failed write and a start that truncates the file; failures and prints of a job are bounded however its flows overlap; the buffer empties if starts do not fail for ever |
| `printer` | 3 concurrent calls, one to a bad address, 2 chunks | `TimerOfPhase`, `RejectedSendsNothing`, `ImplementsPromise`, `EventuallySettles` | no phase of a call goes unwatched; a rejected call is over; a call settles once and sends only until then; all settle |
| `connection` | back-off of the code (1 s to 60 s), 12 faults | `NeverStranded`, `HandleIsArmed`, `OneHandler`, `ConnectedIsLive`, `StoppedIsQuiet`, `BackoffFallsOnConnect`, `Reconnects` | every order of events leaves a way back; a connection that `/health` calls up has a client, and no timer about to tear it down; nothing survives `stop`; a lasting connection follows the last fault |
| `history` | 3 receipts for a list of 2, 4 clock readings, a debounce of 2 ticks, refused and truncated saves, unreadable files, any number of crashes and stops | `TypeOK`, `KeepsTheLatest`, `UnsavedIsScheduled`, `CloseSavesAll`, `SavedWhenQuiet` | the receipts recorded last are kept; what the file lacks is about to be saved, by the timer or by `close` |
| `reprint` | 1 request at a time over a history of 3 receipts for a list of 2; bodies around a limit of 3 bytes, one of them with a character of two bytes; 6 limits, a cap of 1 | `HealthTypeOK`, `AnsweredOnce`, `TextArrives`, `ShowsTheLatest` | one answer per request; of a body handed on only characters cut in two are missing; the latest receipts are shown, up to the cap, for every limit |
| `lifecycle` | 2 heartbeats, a report and an authorization under way, 5 environments, 2 crashes, 2 starts by hand | `TypeOK`, `StopsOnPurpose`, `RevokedAgentStops` | the agent stops for good only on purpose; a deleted one does, though other calls hang |
| `agent_reprint`, `agent_forgotten`, `printer_resolved`, `connection_unsubscribed`, `history_retry` | as small as shows it | one each | the disagreements of section 6 |

`printer`, `connection` and `lifecycle` say `CHECK_DEADLOCK FALSE`: all calls may
be over, a stopped connection does nothing, and a stopped process stays so when
its starts are used up. `PrintAgent` never deadlocks, since a stopped
agent can be started by hand and the clock of a running one goes on.

Bounds, and why they are enough.

- *Two flows* (`Slots`): the harm of an overlap is done by one flow acting on
  what a second has changed; a third repeats it. The proofs have no such bound.
- *Limits* (`MaxAttempts` 2 or 3 for 30, `TTL` 2 or 3 for 24 h, `MaxBackoff` 1 or 2):
  small values reach every boundary: below, at and past the limit, from both the
  attempts and the age; with two overlapping flows past it by one. A back-off of
  one unit is still a time at which a job is *not* due.
- *`MaxDeliveries`, `MaxStops`, `MaxFaults`* bound the environment only. Two
  deliveries are needed to deliver a job anew while an attempt of it is under
  way; one crash or stop separates memory from file, and the restarted agent goes on
  from the file alone; what a second one adds is left to the proofs.
  Twelve faults are more than the six steps the back-off takes to its cap.
- *`Chunks`* 2: a ticket can be sent not at all, in part, or whole.
- *One request* (`Requests`): requests share nothing but the history, which none
  of them changes; the proofs have no such bound. Bodies of 0 to 4 bytes are
  below, at and above a limit of 3, and arrive in every division. In the code
  the list and the cap on what is shown of it are both 50, so the cap cuts nothing;
  here it is 1 for a list of 2, so that it does.
- *Three receipts for a list of two*: one can be dropped, come back, and be
  printed again while it is listed; four clock readings allow two recordings
  after any state of the list.
- *Two heartbeats* overlap; more only repeat what the second does.
- `Boot` admits outages of up to TTL, past which all ages are alike.

## 5. Fairness

`FairSpec` of each module. `Spec` alone, without fairness, is used for safety.

- *A promise a flow waits on settles* (`PrinterAnswers`, `Finish*`):
  `sendToPrinter` has a timer for each phase (10 s to connect, 30 s to write) -
  that these suffice is `EventuallySettles` of `Printer`, under the fairness of
  its two timers alone, with nothing assumed of network and printer; `fetch` is
  aborted after `BACKEND_TIMEOUT_MS` until the headers are in. `reportResult`
  then awaits a body only if the answer is an error; that this body arrives or
  breaks off is assumed of the network, for no timer of the code sees to it.
- *`setInterval` fires again* (`RetryTick` in some free slot) and *the clock
  runs* (`Elapse`).
- *A crashed process is started again* (`Restart` of `Lifecycle`): systemd has
  `Restart=on-failure`, launchd `KeepAlive`/`SuccessfulExit=false`, WinSW
  `onfailure restart`. All of them leave a process that exited with code 0 alone.
  In `PrintAgent` there is no fairness on `Boot` at all: a start ends with a write,
  and on a disk that stays full every start fails. `BufferDrains` has a premise
  instead, `[]<>(mode # "crashed")`: the process does not stay down for ever.
- *A call without an answer ends* (`Abort` of `Lifecycle`): the abort timer fires.
  That a call which has its headers ends is not assumed of reports and
  authorizations.
- *Heartbeats go on* (`Send` of some heartbeat, in `Lifecycle`): `setInterval`.
- *The backend is not out of reach for ever* (`Reachable`, strong fairness, used
  only for `RevokedAgentStops`): of the heartbeats that are sent again and
  again, one is answered whole, and the body of none trickles for ever. A heartbeat
  is told of the deletion in the body of a 410, so without the last the agent may
  wait for that body and never learn of it.
- *An armed debounce timer runs out* (`Tick` of `History`); `SavedWhenQuiet` assumes
  in its premise that recording pauses.
- *A client connects* (`PusherConnected`): the network is there in the end, and
  the back-off grows to a minute while it is not, which is enough time for one
  connection attempt. The reconnect timer fires; the authorizer answers.

No fairness is assumed of deliveries, of writes succeeding, or of a report
reaching the backend. Crashes, deliveries and write refusals may go on to their
bounds (failed writes of a running agent without one: `BufferDrains` holds since
the removal of a sent job and the mark of an abandoned one are effective in memory
whether or not the write succeeds).

## 6. Where code and documentation differ

Each of these is a `violation` run: TLC finds a behaviour of the model that
breaks what a line of the repository says.

1. `agent_reprint`. A job is enqueued with `next_retry_at` 0 before `handleJob`
   prints it, and the retry loop does not know what `handleJob` is working on. A
   tick that falls into that print prints it again, though nothing failed
   (`src/README.md:14`: jobs are retried *if the printer or network is
   unavailable*).
2. `agent_forgotten`. A job accepted again while an earlier attempt reports
   success shares its row, loses it to that attempt, and is not retried when its
   own attempt fails (`src/README.md:128`). `POST /reprint` takes its job id from
   the caller, so an id may well come twice.
3. `printer_resolved`. The callback of `socket.end` ignores its argument, so a
   connection reset in the middle of a ticket resolves the promise and the job is
   reported as printed (`printer.js:5`). It rests on the assumption about
   `socket.end` in section 3.
4. `connection_unsubscribed`. A failed channel authorization is only logged: the
   agent stays connected and healthy, without a subscription, until the WebSocket
   reconnects for some other reason (`health.js:5`).
5. `history_retry`. The retry loop does not record what it prints: a receipt
   that failed at first is never on the list of recent jobs
   (`src/README.md:18`).

Four more are seen in the models and have no run. The 24 hours are looked at
only after a failed attempt, so a job of any age is printed once more after an
outage (`buffer.js:119`, `Boot` then `RetryTick`). The report of an abandoned job
may be lost and the job is removed all the same (`index.js:65`,
`FinishAbandoned`). And the one copy of the buffer is overwritten in place:
a write that fails after the truncation, then a crash, loses jobs that were on
disk, against `buffer.js:8-9`, and a start whose own write fails so (`buffer.js:31`)
loses all of them at once; that is why `NoLostJob` and `ImplementsQueue` are
claimed only where no write truncates the file. Last, each piece of a reprint body
is decoded by itself (`health.js:85`), so a character of several bytes that lies
across two pieces is printed wrong; `TextArrives` says that nothing else is.

## 7. The proofs

`tlapm <module>` checks them. They hold for every set of jobs, slots and calls,
every limit and every bound; the only assumptions are the named `ASSUME`s of the
modules, which TLC evaluates in each run (the number of flows that overlap is
finite, `IsFiniteSet(Slots)`, and the like), and, in `Refinement` and `AtLeastOnce`,
that `"truncated" \notin WriteFaults` (section 6 says why it is needed).

| theorem | says |
|---|---|
| `PrintAgentProofs!TypeCorrect` | `[]TypeOK` |
| `QueueProofs!Refinement` | `ImplementsQueue`, unless a write truncates the file |
| `QueueProofs!AtLeastOnce` | `[]NoLostJob`, under the same condition |
| `PrintAgentProofs!AbandonmentIsFinal`, `NoRowComesBack`, `OnlySentJobsLeave` | the action properties `AbandonedIsFinal`, `RowsComeFromDeliveries`, `LiveRowLeavesOnlySent` |
| `PrintAgentProofs!FileFollowsTable`, `NothingHeldIsLost` | `[]DiskInStep`, the action property `HeldUntilDone` |
| `PrintAgentProofs!AttemptsStayBounded`, `PrintsStayBounded` | `[]AttemptsBounded`, `[]PrintsBounded` |
| `PrinterProofs!TimersFollowPhases`, `RejectionIsFinal` | `[]TimerOfPhase`, `RejectedSendsNothing` |
| `PrinterProofs!PrinterKeepsPromise` | `ImplementsPromise` |
| `ConnectionProofs!AlwaysAWayBack`, `HandleFollowsTimer`, `JobsHandledOnce`, `ConnectedStaysLive`, `StopIsFinal`, `BackoffGrows` | the safety properties of `Connection` |
| `HistoryProofs!TypeCorrect`, `LatestKept`, `SaveIsPending`, `StopSaves` | `[]TypeOK`, `[]KeepsTheLatest`, `[]UnsavedIsScheduled`, `CloseSavesAll` |
| `HealthProofs!ServedIsHistory`, `ServedHistoryKeeps` | the history under the server is a history: `HealthSpec => Spec`; so its theorems hold there |
| `HealthProofs!HealthTypeCorrect`, `OneAnswer`, `TextHandedOn`, `LatestShown` | `[]HealthTypeOK`, `[]AnsweredOnce`, `[]TextArrives`, `ShowsTheLatest` |
| `LifecycleProofs!TypeCorrect`, `OnlyOnPurpose` | `[]TypeOK`, `[]StopsOnPurpose` |

*PrintAgent.* `TypeOK` does not hold step by step on its own. `IInv` adds: a flow
that waits holds a job; a flow that is about to report success holds a job that
was sent (else its `remove` would drop an accepted one); there is no table in
memory while the process is down; and both tables are *sound*: an abandoned row
has reached a limit, attempts or age. The last is why abandonment is final: a
late `recordFailure` computes the flag anew from values that never fall, so it
comes out set again. `JobTableProofs` states once, for each operator on tables,
what it keeps.

*What is held* (`HeldUntilDone`). The agent holds the rows in memory while it
runs and those in the file while it does not. A step that takes one away removes a
job sent or given up, but for two: the end of a process, which by `DiskInStep`
loses nothing unless its last write failed, and a start that fails in its write,
which loses nothing unless that truncated the file (`BootFacts`). So it holds
whatever writes do, where `NoLostJob` needs that none truncates.

*How often an attempt fails* (`AttemptsBounded`). A row can pass the limit, since
flows that were attempting it together all count. The invariant `Counted` says by
how much: the attempts on the row and the flows that may yet add one, because
they attempt the job or have it on the list they read, are together below the
bound. A retry flow reads only live rows, and `Sound` says that a live row is below
`MaxAttempts`; a `handleJob` may start on any row, and its delivery
pays for it.

*How often a ticket is printed* (`PrintsBounded`), which is how often
`sendToPrinter` resolved: an attempt that timed out may have printed as well. A
job is bought `Cardinality(Slots)` prints by each delivery and by each end of the
process. `PrintsPaid` says how far these go. While there is a row to be read, each
flow may still start on it, and a flow that has printed but not removed the row
occupies its place: prints plus slots are within the allowance plus those flows.
Once the row is gone only the flows that already have the job can print. So the
removal of the row by the first flow to finish is what ends the printing, and a
removal that cannot be written is undone by a restart only, which is paid for.
`stops` counts those. Both bounds are exact: TLC finds, in the instance of
`agent_redelivery`, a behaviour that reaches either (six prints of a job delivered
twice, over one restart, by two flows).

*Refinement.* The file alone does not tell which steps are legal: the next write
replaces it by the table in memory, and a flow may complete a job it read from
the table long ago. So `QueueProofs` adds to `IInv` that a row in the file and not
in memory is of a job that is done (`Lagging`), and that every job in the tables
or in the hands of a flow was once offered (`Known`). Then each action maps to an
action of the queue or a stutter. That nothing accepted is forgotten is proved
of the abstract `DurableQueue`, where it takes a few lines, and carried over:
`AtLeastOnce`.

*Printer.* `TimerOfPhase` needs to know that the socket of a settled call never
comes back to a phase that arms a timer. The invariant lists the seven
combinations of promise, flag, socket and timer that a call goes through (`Life`).
The same invariant gives the refinement: `SettleMaps` shows that `settle` of an
open call is one `Settle` and of a settled one a stutter, and `StepMaps` takes
each step to a step of `PrintPromise`; that bytes go only into an open call holds
because in `Life` a socket that still takes them belongs to a pending promise.

*Connection.* `IInv` ties the handle to its timer, the handlers to the
subscription, and `stopped` to the absence of client and timer.
`ConnectedIsLive` is part of it: `connected` is only set where the timer is
cancelled, and only a step that clears it arms one or takes the client away.

*History and Health.* `KeepsTheLatest` needs that no two receipts on record share
a reading of the clock (`SeenApart`), for the trim compares with `<=`. Its step is
`RecordKeepsLatest`: what the trim drops is older than all it keeps, and what was
dropped before is older still; that nothing goes before the list is full is a
count of finite sets. `CloseSavesAll` rests on `UnsavedIsScheduled`, since `close`
writes only when a timer is armed. `HealthProofs` reuses these steps, because
each step of the server is a step of the history or leaves it alone, which is
`ServedIsHistory`; it adds what
each phase of a request says of its count, its answers and the job (`Sound`), and
what the text holds on the way (`Arrived`): of the characters that are in, those
that were not cut. `PieceAdds` takes it over a piece: a character that the piece
shares with an earlier one was cut where that one ended.
`ShowsTheLatest` combines `KeepsTheLatest` with the range of `Limit`.

*Lifecycle.* An answer `revoked` that a call has taken up was given after the
deletion, which is final: so the step that stops the process finds the agent
deleted, however late the body is read.

*Only model-checked*: the passing runs check no safety property that is not also
proved. What remains to TLC are the liveness properties `BufferDrains`, `EventuallySettles`,
`Reconnects`, `SavedWhenQuiet` and `RevokedAgentStops`: liveness under
fairness is beyond the prover.

## 8. What is not modelled

- *The order in which `ok` and `fail` reports of overlapping attempts reach the
  backend*, and what it makes of them: the backend is not in this repository.
- *Which events pusher-js announces while it reconnects by itself*: likewise.
  `/health` may answer 200 during such a reconnect; `ConnectedIsLive` says what can
  be relied on all the same.
- *`GET /health`, `OPTIONS`, unknown routes*: answers that change nothing.
- *One process made of all modules*: `PrintAgent`, `Printer`, `Connection`,
  `Health` and `Lifecycle` meet in promises and calls (sections 1 and 3), and each
  states what it assumes of the others; their product is out of TLC's reach.
- *HTTP, CORS, log lines, ESC/POS bytes, base64*: formats. `processJob`'s checks
  appear as the constant `Printable`.
- *sql.js, pusher-js, `net.Socket`, the backend, the printer*: external; what is
  assumed of each is in the header of the module that uses it.
- *Installers, release scripts, CI*: shell commands around the program; the
  restart policies they install are `Restart` of `Lifecycle`.
- *A file that cannot be read on start*: a crash loop until someone removes it,
  which `BufferDrains` excludes as it does a disk that stays full. A truncated file
  is modelled as an empty table, the best case.
- *A subscription that is refused*: `Reconnects` speaks of the connection and
  accepts it; `connection_unsubscribed` shows it.
- *The wait for a body that never ends*, but for its effect on the deletion of the
  agent (`RevokedAgentStops`).

## 9. Plan

The core components are modelled and checked, and every safety property a run
checks is proved. What a next step could add:

1. The four observations of section 6 without a run, as runs of their own.
2. An abstract specification of the connection and of the history, as the queue
   and the print promise are, with their refinements.
3. `parseEnvInt` on character classes, against the integers a person would read.
4. Several agents of one tenant at one backend, once the contract of the backend
   is written down.

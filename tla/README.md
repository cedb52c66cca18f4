# A TLA+ verification project for MCPeak

MCPeak tests MCP servers: it starts a server under test over stdio (or HTTP), runs a suite of tool
calls against it, compares the answers with contracts, and, when asked, records the outgoing HTTP
calls of the server (External record) so that a later run can be fed from the recording (External
replay). This directory holds a TLA+ model of the parts of it that are concurrent, can fail half-way
or depend on order, the TLC configurations that check the model, and TLAPS proofs.

Paths below are relative to `src/packages/` unless they start with `src/`.

    tlc -workers 2 -config ExternalRecord.cfg MCExternalRecord.tla     # a run
    tlapm TestCommand_proofs.tla                                        # the proofs of a module

`PROJECT.json` lists every run with its properties, every mapped definition with its source lines,
the hazards, the findings, a mutant for every checked property and the theorems.

## 1. Inventory

| Part | State it keeps | Operations | Hard behaviour | What makes it correct |
|---|---|---|---|---|
| External session store (`record/src/external/session-store*.ts`) | sessions, ordered interactions (key, occurrence, outcome), status; the SQLite file and its version | createSession, reserve, complete, lookup, finish, read; open, migrate, probe | orphaned interactions, overlapping calls of a key, two CLIs on a file, a kill between two statements | a key's entries are numbered 0, 1, 2 ...; only the last may be open; `completed` means whole; only its recorder changes a session; a completed one stays readable |
| External Coordinator (`coordinator.ts`, `protocol.ts`) | writer, count of other processes' calls, HTTP server, the finish promise | /begin, /complete, /lookup, finish | `await readJsonBody` in the middle of each handler, a second process with the same token, finish during requests | one writer; nothing after finish; `completed` never hides a call |
| Record and replay engines (`engine.ts`) | replay: cursors, consumed count, misses | begin, complete, lookup, finish | lookups of two processes interleave, a hit's answer gets lost | each key is served in recorded order; a miss means exhausted |
| Child adapter (`child/*.mjs`) | per fetch: its reservation; `claimed`; the out-of-scope counter | fetch in both modes, exit report | time-outs whose request is still handled, kill, exit hooks | a response given to the program is recorded; the count is the writer's |
| Redaction, normalisation (`runtime.mjs`, `shared/`) | none | pure | | (inputs of the model: a body passes or leaks) |
| CLI wiring of External (`cli/src/external-wiring.ts`) | the coordinator handle | start, finish after close | order of close and finish | finish sees every exit report |
| stdio lifecycle (`core/src/lifecycle.ts`) | state, two promises, deadline, hook | close, forceClose, deadline, close event | every order of hook, timers, exit, kill failures | success means the process is gone; failures are final; promises settle |
| stdio transport, connect (`core/src/controlled-stdio.ts`, `index.ts`) | own state, start promise | start, handshake, failure, clean-up | forceClose during start, spawn errors | connect settles and leaks no process |
| HTTP transport, client adapter (`core/src/http-transport.ts`, `client.ts`) | SDK session; seen cursors | callTool, listTools | unbounded pagination | |
| Runner executor (`runner/src/executor.ts`) | results, stop reason, pending call, report and drain promises | a case, deadline, abort, loss, padding, drain | late answers, abort against time-out, throwing observer | one call at a time; `passed` means all passed; the report covers every case |
| Runner shutdown (`runner/src/shutdown.ts`) | position, awaited promise, errors | finalizeRunnerExecution | close that hangs, fails, or overlaps force | settles; leaves no process, or says so |
| Determinism (`runner/src/determinism.ts`, `cli/src/determinism-capture.ts`) | captured answers by case | capture, compare | late answers | a timed-out case has no answer |
| test command (`cli/src/test-command.ts`, `reset-hook.ts`) | position, server number, first run, exit code | reset command, connect, run, finalize, second run, compare | failures of each step in each run | the second server starts after the first is gone; the command ends |
| Runner contract algorithms (`runner/src/schema-match.ts`, `assertions.ts`, ...) | none | pure | | |
| other CLI commands (`cli/src/*-command.ts`) | none that outlives a call | wiring, output | | |
| generate command (`cli/src/generate-command.ts`) | draft, runs and repairs of a saving round, approval, the file | review, dry run, repair, full run, save | the server's state between runs, a file that appears meanwhile | an approval says what was seen; nobody else's file is lost |
| generate: provider process (`generate/src/provider-process.ts`) | child, output, reason, three timers, result | runProviderProcess | abort before the listener, time-out before exit, stdin errors before exit 0 | one clean answer; a heard abort wins; no child is forgotten |
| generate: authoring session (`generate/src/authoring-session.ts`) | approved draft with provenance, candidate | propose, preview, apply, reject | selections that reorder, add and remove at once | a selection changes what it names and nothing else |
| dashboard server (`dashboard/src/server/run-registry.ts`, `review-bridge.ts`, `routes.ts`) | a run's events, subscribers, the one pending question | start, emit, subscribe, summary, answer | subscribing during output, late and repeated answers, restart | every event once and in order; an answer reaches its own question |
| dashboard run screen (`dashboard/web/src/run-stream.ts`, `screens/RunView.tsx`, `components/QuestionPanel.tsx`) | log, status, question, answered question | reduce an event, a summary or a reply; reconnect | three kinds of traffic that overtake each other | a waiting question and the end come to be shown |
| optimize: proxy (`optimize/src/proxy.ts`) | two connections, finishing flag, spent signal handlers | forward, finish on signal or close | second signal, upstream that dies during the listing | both ends are ended |
| audit sandbox (`audit/src/sandbox/docker.ts`, `audit/src/audit.ts`, `audit/sandbox/gateway/`) | resources and which are known to be there; phase; trace lines read and held back; the gateway's phase, notes and tape | start, mark, snapshot, destroy; a request through the gateway | phases that end with a request in flight or a system call cut in two, docker that fails or answers too late, a server that shortens its trace | an observation belongs to the call that caused it; nothing is lost or repeated; what stays on the machine is said |
| perf, audit rules, mock, rest of generate, optimize and dashboard, `src/bench`, `src/website`, `src/examples` | | pure algorithms, text, containers, UI | | |

How they interact. The CLI (parent) starts the Coordinator, then the server under test with its
token and port in the environment. Every Node process below inherits them, and its adapter replaces
`fetch`: in record mode a call is `/begin`, the real call, `/complete`; in replay mode it is one
`/lookup`. The runner calls tools through `core`, whose connection owns the server process. When the
run is over `finalizeRunnerExecution` drains, closes, or forces the connection, and only then
`finish()` of the Coordinator ends the session and adds up the exit reports of the processes. The test
command does all of that up to twice; the generate command and the optimize proxy own a connection of
`core` in their own ways, the former beside a provider CLI. The dashboard runs these commands in its
server process, and hands their lines and questions to browser tabs.

## 2. Modules

| Module | Models | Extends |
|---|---|---|
| `SessionStore` | the store: `status`, `log`; Reserve, Complete, Finish | |
| `SessionFile` | the SQLite file between CLIs that record or replay it: opening, lock, version, migration, creation, kills | |
| `RecordingTape` | the abstract promise: per key, a tape written slot by slot and sealed whole, or void | |
| `Coordinator` | the HTTP exchange common to both modes: adapter requests, head of the handler, claim, finish | `SessionStore` |
| `ExternalRecord` | record mode: adapter, second half of the handlers, redaction failure, engine finish | `Coordinator` |
| `ExternalReplay` | replay mode over every log a recorder can leave | `Coordinator` |
| `ReplayObserver` | replay with process exits, kills, out-of-scope reports and `finish()` | `ExternalReplay` |
| `Lifecycle` | `LifecycleController` and its process | |
| `StdioConnection` | `connectStdio` and the transport around the controller | `Lifecycle` |
| `RunnerExecutor` | `runSuite` with the determinism capture | |
| `RunnerShutdown` | `finalizeRunnerExecution` over a run and a connection | `RunnerExecutor`, `Lifecycle` |
| `TestCommand` | `mcpeak test`: reset command, connection, run, second run, comparison, exit code | `RunnerShutdown` |
| `ProviderProcess` | `runProviderProcess`, from the call to the close of the CLI | |
| `OptimizeProxy` | `startProxy` over its upstream connection | `StdioConnection` |
| `ConnectionOwners` | one connection under any caller, under the proxy, or under the generate command with a provider | `OptimizeProxy`, instance of `ProviderProcess` |
| `AuthoringSession` | draft, candidate, diff, selection, provenance | |
| `GenerateCommand` | `mcpeak generate`: review, dry run, repairs, full run, approval, saving | `AuthoringSession` |
| `RunRegistry` | `RunRecord` and `WebReviewIO` of one run, with the command they serve | |
| `Dashboard` | the HTTP server and the tabs around one run | `RunRegistry` |
| `SandboxGateway` | the gateway of an audit sandbox: requests, their phase, the tape of a recording | |
| `SandboxTrace` | the trace file and what each mark attaches of it | |
| `AuditSandbox` | an audit in the sandbox: start, marks, calls, snapshot, clean-up | `SandboxGateway`, `SandboxTrace` |
| `MC*` | symmetry and constants for TLC | |
| `*_proofs` | theorems and their proofs | |

How state and actions correspond to the code:

* **A handler of the Coordinator is two actions.** `HandleHead` is the code before
  `await readJsonBody`, and `HandleBegin`, `HandleComplete`, `HandleLookup`, `HandleLeak`,
  `RefuseBody` or `StoreFails` the code after it. Each is atomic because the store is synchronous (`node:sqlite`).
  SQLite may refuse any access, for a lock or an I/O error: a request is then answered with
  `COORDINATOR_INTERNAL` (`StoreFails`), the verdict on a leak is swallowed (`VoidSession`), and `finish()`
  rejects (`FinishFails`).
  A request is `wire[c]`: sent, reading, answered or lost. A client time-out moves `pc[c]` and
  leaves the request where it is, so the handler may still run.
* **A match key, a payload and an outcome are model values.** Normalisation decides which requests
  share a key; what the properties tell apart is the key, the call the outcome came from, and
  whether it is a response or a thrown error.
* **The lifecycle controller is one record.** Each method is the set of records it may leave behind
  (`BeginForce`, `FailClose`, `AtDeadline`, ...), because stream and kill calls may throw at each
  point. Time is abstract: an armed deadline may be due at any moment, which includes every real
  schedule; `ObserveClose` deals with a due deadline first, as `#observeClose` does.
* **`told` (Lifecycle), `fetched`, `unvoided` (ExternalRecord), `served` (ExternalReplay)** are history:
  what callers were given, used by properties only or set where the code has the same local value.
* **The runner's case is `StartCase` followed by one of answer, time-out, abort or loss.** Between two
  cases nothing but `onEvent` runs, which may abort or throw (`Abort`, `ObserverThrows`).
  `Answered` also covers the late answer of a case that is over, and captures it for the case that
  asked, as `determinism-capture.ts` does.
* **`run` (ProviderProcess) is the record the handlers of one provider run share**: `settle` and
  `terminate` are operators on it, and every event is one action. An abort counts as heard only between
  the spawn and the close, where the listener is attached: one that comes during `mkdtemp` or `writeFile`
  is never looked at again (no caller in the repository passes a signal today). The child's handle keeps
  the event loop alive, so the timers fire although they are unref'd; Node destroys the stdin stream
  when the child exits, so `StdinError` is possible only while it runs. `reported` is history.
* **A statement of SQLite is an action of `SessionFile`.** `node:sqlite` runs each in a transaction of its
  own, the code opens none, so a lock or a kill (`Locked`, `Killed`) comes between any two. The version
  a run read and the columns it found are its own (`fileVersion`, `added`): it does not look again.
  What the rows hold is `SessionStore`'s; here they are counted. `creator` and `found` are history.
* **`command` (TestCommand) is the await at which `runCliCore` stands**, the listing of the tools before the first
  run included. `FreshRun` gives each run a
  server of its own, the state of the first being over; `servers` says which it is. A program that uses
  the runner itself is the value `"absent"`, and only it aborts. Whether two answers are equal is a free
  choice of `Conclude`.
* **The three owners of a connection share its state** (`awaits` is the promise an owner waits for), and
  every step of `StdioConnection` may come between two of theirs. `signalled` is the set of spent
  once-handlers: a second signal of a kind kills the proxy. A provider run is an instance of
  `ProviderProcess` and starts when it is asked; it may go on after its answer.
* **A suite (AuthoringSession) is a sequence of cases, a case an id and a value.** The diff is computed
  from the two suites as the code does, order included; any sequence of cases with ids of their own is a suite.
  What a run of a case answers depends on the
  server's state, so `Test`, `Rerun` and `Classify` choose the outcome freely. Each prompt is a choice.
  Saving is one action per file-system call, and another program acts between any two (`OtherProgram`).
* **A browser tab is a record and traffic is a set of requests.** `emit` hands an event to every open stream
  in the step that adds it, because `Set.forEach` and `res.write` are synchronous; `ConnectStream` is replay and
  subscription in one step for the same reason. Bytes wait in `stream` until `Receive` dispatches them
  to the reducer; a reconnection starts from the last event id the tab was handed. A summary read or an answer
  gets its reply in one step and delivers it in another, so replies overtake events and each other.

* **A phase (AuditSandbox) is its rank**: start, list, each call, list again, shutdown. `mark` is two actions,
  because requests arrive and lines are written between the POST and the reading. `present` is the flag
  of each resource and `exists` the truth; a trace line has a number, a process and a half. `Waiting` and
  `Pairs` are the two collections of `attachable`, and its loop over the pairs finds the largest cut that divides
  none, which is what `Attachable` says. `due`, `untold`, `hindered` and `touched` are history.

Code outside `src/` that appears as external actions: `node:http` dropping connections, the
operating system ending processes, the server under test answering, strace writing, and docker refusing to
remove what is in use.

## 3. Runs

| Run | Question | Instance |
|---|---|---|
| `record` | what a recording may contain and claim; the store implements `RecordingTape`; calls and finish settle | 2 calls, 2 keys, 2 processes, 1 stranger; 603,048 states |
| `replay` | order, misses and out-of-scope count of a replay | sources of up to 2 entries over 2 keys, 2 calls, 2 processes |
| `stdio` | promises of connect, close, forceClose under each owner; the owner, its server and its provider end | complete, a provider asked once; 284,197 states |
| `runner` | report, drain, finalizer, and the test command around two of them | 2 cases, up to 2 servers; 1,619,297 states |
| `dashboard` | what a tab shows, where an answer goes | 1 tab that opens the run twice, 2 questions, lines while fewer than 2 events, 1 loss; 953,686 states |
| `generate` | selections, approvals, files | a suite of 2 cases, 3 candidates, 2 values, 2 revisions; 682,787 states |
| `session_file` | who changes a recording, and whether it stays readable | 4 runs of the CLI (symmetric), 2 writes; 526,203 states |
| `audit` | which call an observation belongs to, what a recording holds, what is left on the machine | 1 tool called twice, 2 requests, 2 processes, `MaxEvents = 4`; 3,929,731 states |
| `replay_claim`, `replay_zero` | findings 1 and 2 | as `replay`, with 1 key |
| `stdio_force_closed` | finding 3 | `StdioConnection`, complete |
| `runner_late_answer` | finding 4 | `RunnerShutdown`, 2 cases |

Bounds and why they are enough.

* *Record and replay.* Two calls of one process or of two overlap on a key or not; two keys separate "the last
  of its key" from "the last of the session". Two processes are the race for the claim. In replay, two
  entries and two lookups give: both on one key, one on each, more lookups than entries, and fewer.
  `MaxOutside = 1` separates none from some. What more calls could do to a recording is proved, not bounded.
* *Runner.* Two cases are "a case and the next", and padding after the one that stopped. The theorems
  have any number. A first server that outlives a wrong answer of `forceClose()` (finding 3) is not
  followed once the second has started.
* *Connection.* Finite as it is. `Ask` is bounded to one provider run, each being a process of its own.
* *Dashboard.* Two questions are needed for a late answer to the first, two visits for what a tab
  that left still has under way, one line before a question and one after for what follows what. One
  loss is a reconnection, a lost summary read or a lost answer. Tabs interact only through the pending
  question; two of them at these bounds are beyond TLC's reach here, and a tab that left plays the
  part of the other: its answers arrive as those of a stranger (`NoTab`).
* *Generate.* The three candidates reorder and change, remove and add, and remove one of two while adding two.
  Two revisions are a draft that was changed before and after a test; two values an input and its repair.
* *Audit.* `MaxEvents` bounds together what goes wrong and what the server does: a line, a shortening and a
  failure count one, a request two. So a run has 4 lines (two processes that interrupt each other), 2 requests
  (one in flight when another arrives), or fewer of them beside one or more failures, those of the clean-up
  included. Lines are written at a reading: nothing else looks at the file. A gateway in mode `live` is one
  that records without its tape.
* *Session file.* A recording, one that overlaps it, a third that finds what they left, and a replay.

`CHECK_DEADLOCK FALSE` is set where the system really stops: a finished session, a closed connection, a
finished command, an ended audit, an ended run with its tabs gone.

What the runs show, property by property, is said in the comment above each property. The most
important ones: `CompletedAccountsForRealCalls` (a `completed` session holds every real call's outcome
or counts it as refused, whatever timed out, was killed or raced); `IsRecordingTape` (refinement);
`ServedInRecordedOrder` and `MissMeansExhausted`; `FailureIsFinal` and `ResolvedMeansGone`;
`FinalizedMeansGone` and `AbandonedIsKilled`; `NextServerAfterLast` and `TestEnds`; `BothSidesEnd`;
`WaitingIsShown`; `SavedIsVerified`; `OnlyItsRecorder`; `HalvesStayTogether` and `NothingLeftUnsaid`.

Every property of a passing run has a mutant: a definition replaced by a plausible bug (marked
"Weakened" in the modules) under which TLC finds the property violated.

### Fairness

* `record`: callbacks that are ready run, in the parent and in every living child (Node's event
  loop). Nothing makes the real call answer, the parent call `finish()`, or the request timer fire;
  a killed process has no ready callback. Fairness of `EngineStep` also says that the body of a request past the
  head comes to an end, which the adapter sees to (it sends it whole) and `coordinator.ts` does not, so
  `FinishSettles` says nothing of another client whose body never ends; and a parent that lives goes on
  answering, so `NoCallHangs` is about connections that are lost and answers that are late.
* `stdio`: the Node process runs: spawn reports, the handshake ends or times out (`connectTimeout`),
  timers fire, the SDK's close, which is the asynchronous hook, ends, the file system answers, the
  proxy polls its upstream, and an owner goes on when the promise it awaits has settled. Nothing is assumed
  of the server or of the provider CLI: each may never exit, ignore SIGTERM, keep its pipes open and not
  answer. A hook that never ends leaves close() pending: `lifecycle.test.ts:332` shows the authors know.
  The user's review, the client of the proxy and signals owe nothing either.
* `runner`: the command, the runner and every timer, those of the connection included. Not the server, not
  the SDK's close, not the reset command (section 5), and not the listing of the tools: its pages have
  no bound (`collectPages`), so only the loss of the connection is taken to end it, by rejecting the page that was
  asked for. `TestEnds` names the two as what may hold the command up (`HeldUp`) and says that nothing else does.
  No other property relies on a listing that ends: in `OptimizeProxy` its end has no fairness.
* `dashboard`: the network and the two event loops deliver what is not lost. Users, commands and restarts
  owe nothing: `WaitingIsShown` says what a tab shows while the server is up and the tab stays.

## 4. Proofs

Every safety invariant and every action property of a passing run is proved, for every value of the constants.
So are the two refinements: the store implements the tape, and so does the whole recording system.

| Module | What is proved |
|---|---|
| `SessionStore_proofs` | the store's inductive invariant; a key and an occurrence name at most one interaction; the store implements `RecordingTape` |
| `ExternalRecord_proofs` | `SingleWriter`, `OccurrenceIsRank`, `CompletedIsWhole`, `ReturnedIsRecorded`, `LeakVoidsSession`, `CompletedAccountsForRealCalls`; each step of a recording is a step of its store; `IsRecordingTape` |
| `ReplayObserver_proofs` | `ServedInRecordedOrder`, `MissMeansExhausted`, `WriterCountIsExact` |
| `Lifecycle_proofs` | what each method of the controller keeps, and the invariant of the controller |
| `ConnectionOwners_proofs` | of a connection and of a provider run, each alone: `ResolvedMeansGone`, `ClosedSettlesAll`, `FailedConnectLeavesNothing`, `FailureIsFinal`, `OkIsClean`, `HeardAbortWins`; that every owner keeps to their specifications (`OwnersUseConnection`, `OwnersRunProvider`), and with that the four checked properties under `OwnersSpec` |
| `TestCommand_proofs` | of one run with its finalizer: `OneCallAtATime`, `PassedMeansAllPassed`, `ReportAccounts`, `FinalizedMeansGone`, `AbandonedIsKilled`, `CloseWaitsForCalls`; the checked ones again for a command of one run or two, and `NextServerAfterLast` |
| `AuditSandbox_proofs` | `RequestsFollowTheirCall`, `RecordedOnce`, `NothingLeftUnsaid`, `TraceIsWhole`, `HalvesStayTogether` |
| `Shared_proofs` | generate: `SelectionIsExact`, `SavedIsVerified`, `NothingIsClobbered`; dashboard: `LogIsPrefix`, `AnswersReachTheirQuestion`, `MissingMeansForgotten`; session file: `RecordingsStayReadable`, `OnlyItsRecorder` |

Where a type invariant is in reach it is a conjunct of the inductive invariant, or a theorem of its own
(`RecordTypeOK`, `StdioTypeOK`, `ProviderTypeOK`, `ShutdownTypeOK`).

### Assumptions

Named in the modules, and evaluated by TLC in every run: `NoOutcomeAssumption` and `AnswerAssumption` (no
outcome is `NoOutcome`; every call and kind of answer is one); `ProcessAssumption` (no stranger is an adapter, no
process is `NoProcess`); `SourceAssumption` and `OutsideAssumption` (what a source session holds are outcomes; the
bounds are numbers); `NAssumption` (a run has a case); `SuitesAssumption` (the baseline and each candidate are
suites, as `validateMcpSuite` has seen to); `BoundsAssumption`, `RunsAssumption`, `AuditBounds` (bounds are numbers, `NoRun` is
no run). Everything else is arbitrary: any sets of calls, processes, keys, tabs, runs of the CLI and
requests, any number of cases and tools, suites and traces of any length.

### The arguments

* *Store.* `OccurrenceIsRank` and `CompletedIsWhole` are not inductive: `complete` must not be able to
  write an entry that a later one of its key has passed. `OpenIsLast` (an open entry is the last of its key)
  closes the gap. `reserve` refuses while one is open, so the number of earlier entries of the key is
  the next occurrence.
* *Tape.* The tape of a key has a slot for every entry of the key, the one of occurrence n in slot n + 1. That this is
  a function at all is `OccurrenceIsRank`: `reserve` then adds one slot, `complete` fills one, and every other
  step leaves all tapes as they are.
* *Recording.* The invariant adds, call by call, how far it is (`IdleInv`, `WriterInv`, `BeginInv`,
  `CompleteInv`) and the session's verdict (`SessionInv`). The heart is that a granted call and a
  request past the head belong to the writer, although the body is awaited in between, and that the
  outcome in the log of a granted call is what the real call ended with. The store's part is proved
  once: every step is a step of `StoreNext` or leaves the store alone.
* *Accounting.* `CompletedAccountsForRealCalls` counts, and a count is not inductive call by call. `AccountInv` gives every real
  call a place: an interaction of its own (`OwnInteraction`: no two calls share one), or a refusal
  (`RefusedInv`). The refused calls are a finite set no larger than the counter, and, once the session is
  completed, than the counter as it was read (`RefusedAreCounted`): a request in flight while the server closes is
  still refused and counted, once it is closed none is, and only then is the counter read.
* *Leaks.* Nothing guarantees that a leak fails the session, as an error of the store is swallowed there. What keeps a
  leaked outcome out all the same is that an interaction stays open until a `/complete` of its call is answered with
  ok (`LeakInv`), and a session with an open interaction never completes. A leaked request has no interaction: it
  has failed the session, or it is one of those that the store did not let (`unvoided`).
* *Replay.* A cursor is the number of calls that were served from its key; the n-th of a key found its n-th interaction, and a
  miss a cursor at the end. What makes the step work is that a call asks once (`LookupInv`) and the store's
  contract, which every source session obeys because a recording left it (`SourceIsStored`).
* *Observer.* The count at the end is a sum over reports. `ReportInv`: what a report says was true when its process ended and
  still is, because an ended process is in none of its calls (`EndedInv`) and a claim is never undone. `ClaimInv`
  ties what a process believes to the writer the coordinator knows: only a refused call leaves no claim. The sum of
  `Counted` is a fold over a set, of which no more is used than that it is determined by its arguments.
* *File.* What a run found decides what it does, and the file may have changed since. The invariant says which parts
  of a file imply others (`FileWhole`: a version is given only to a whole schema, version 2 only to one
  with its columns) and, run by run, which of its knowledge cannot go stale (`RunKnows`); a run that found a
  completed recording is never on its way to writing (`StillCompleted`).
* *Lifecycle.* `Keeps(l, m)` says what any method may do to the two promises: make them once, settle
  them once. `NoNews` says that no method but the close event reports success. Each method has its
  lemma, every action is built of methods, and `FailureIsFinal` is read off `Keeps`.
* *Connection.* `Unclosed`: until the caller has the connection nobody can have called close(), hence a
  failed controller has a force promise, and the clean-up of connectStdio never waits for an answer
  that nothing stands behind.
* *Owners.* The proxy, the generate command and a caller of any kind restrict when the connection's operations are called,
  and never touch its state otherwise: each of their steps is one of `StdioConnection`, one of
  `ProviderProcess`, or neither. The theorems about the two then hold under every owner.
* *Run.* `StopNames` ties the results to the stop reason while the run goes on: every entry but the
  named one is passed or failed, and the named one is last. The verdict's clause for `passed` then excludes
  every padded report.
* *Finalizer.* When drain gave up, close() was never called (`Unclosed` again), so the promise that is
  awaited is that of forceClose(), and its success means a closed process.
* *Test command.* A second run starts with a state of its own, and the first one's finalizer is over by then. What
  has to be kept is what a run leaves to whoever ends its connection later (`RunLeaves`): the command
  itself forces the second connection, which the finalizer's invariant does not allow for.
* *Provider.* Until the answer, whatever was reported or sent has left its reason, and an abort the
  reason `cancelled` (`Reasoned`); an answer before the close has a reason, so no handler that runs
  after it starts anything anew (`Answering`). `Verdict` then answers `ok` only if nothing was reported.
* *Gateway.* Where a request stands says whether it has its entry on the tape (`RequestInv`, `IsTaped`), the
  one the server gave up included. The gateway is a phase ahead of the audit between the telling and the reading of
  a mark, and nowhere else (`PhaseInv`).
* *Clean-up.* It goes through the resources in one order (`PastInv`): of what it has gone past nothing is there unless docker failed.
  The order matters because a network or a volume in use is not removed.
* *Trace.* As long as the server leaves the file alone, what was attached, followed by what is held back, is the file as far as it
  was read (`WholeInv`); when it is shortened or replaced, what is left to read is still younger than what was read
  (`FileInv`). For the halves, every first half has its end or is the last its process wrote (`CallInv`),
  and a segment that was cut holds both or was cut before the second came (`SegmentInv`).
* *Selection.* `Selected` removes, replaces, adds and reorders one case after the other, so its result is known only by
  what each stage has in it: no id twice, and which cases. Each stage is a function over 0..n, and its lemma goes up from 0 by
  `UpTo`, a least counterexample in the numbers, instead of an induction over sequences; `SelectSeq` and the
  folds of the community modules are opaque to the prover, for which reason the model has functions in their place.
* *Saving.* What a round has seen belongs to the draft it saw. While inputs are repaired, a case that has not failed passed as it is to be
  saved (`Repairing`), and applying the repairs makes that the draft; from then on approvals and scope say what
  was seen of the draft (`Seen`), and what is written is the draft as approved (`PathInv`).
* *Dashboard.* What a tab received and what is on its way to it are one piece of the run's events, each under its own id,
  and for an open source this piece reaches to the last event (`Follows`). So no event that arrives is one the reducer
  has, the next one is always the one after the last, and a reconnection starts where the tab is. The question in the
  slot is the last one asked (`RunInv`). Only a server that forgot the run answers 404, and one that forgot has no open source
  (`Served`).

`TypeOK` of each module, `ClosedSettlesAll`, `HeardAbortWins`, `PassedMeansAllPassed` and
`CloseWaitsForCalls` are proved and not checked by a run of their own.

### Model-checked only

* Liveness under fairness: `FinishSettles`, `NoCallHangs`, `CloseSettlesOrForceFails`, `AskingEnds`, `BothSidesEnd`, `TestEnds`,
  `WaitingIsShown`, `EndIsShown`. They need ENABLED, which TLAPS does not handle.
* That the numbers of a run's summary are numbers where they come from a fold (`outOfScope`): what a fold over a set
  computes is a fact by induction over data.
* The four disagreements of section 5, which are counterexamples.

## 5. Findings

1. `replay_claim`: a lookup that got no answer at all marks its process as the writer
   (`record/src/external/child/fetch-adapter.mjs:80`), against ADR-0100.
2. `replay_zero`: when the writer is killed, the out-of-scope count falls back to what the other processes
   wrote, and may read 0 instead of "could not count" (`record/src/external/coordinator.ts:774`).
3. `stdio_force_closed`: after a failed graceful close forceClose() may resolve with the process alive
   and unsignalled (`core/src/lifecycle.ts:137`). `FinalizedMeansGone` excepts the answer this is about.
4. `runner_late_answer`: an answer that arrives after its case timed out is captured for that case
   (`cli/src/determinism-capture.ts:106`), and the comparison of two runs may report a response difference
   for a case that has no response by design.

Smaller divergences met on the way, without a run: when SIGKILL throws while close() is pending, close() never settles
(`core/src/lifecycle.ts:157`), although `src/docs/superpowers/specs/2026-08-12-core-stdio-transport-design.md:271`
bounds it by 1,500 ms, and `CloseSettlesOrForceFails` excepts this; a failing `#failClose` after the close event turns
`closed` into `failed` (the core design speaks of `closed` as terminal); after CLOSE_FAILED a second close()
returns the force promise, not the rejected close promise (same document, 299-300);
`cli/src/test-command.ts` has a branch for a time-out that reports `aborted`, which `executor.ts:554-559`
never produces. For the same reason a second run of `--determinism` that stopped because its server died or a
case timed out is `failed`, not `aborted`, and is compared, although
`src/docs/superpowers/specs/2026-08-18-determinism-check-design.md:253-265` counts it as one that did not
complete. The first run's failed finalizer is not followed by `forceClose()`, the second's is
(`test-command.ts:1324`, `1441`). The minute of the reset command only kills it: its promise
waits for the end of its output, so a grandchild that holds the pipe keeps `mcpeak test` waiting
(`cli/src/reset-hook.ts:108-131`). In Node `child.kill` reports EPERM as an `error` event and throws for other codes; the
model follows `lifecycle.ts` and its tests, where kill throws.

Two more concern a store that fails. A leak is to end the session as `failed` at once (`coordinator.ts:645-648`,
`src/docs/adr/0052-coordinator가-engine과-session-store를-소유한다.md:271-273`), but the catch around that `finish()` (650-654)
swallows every error. Its comment has a session in mind that has ended, for which `finish()` never throws; what it
really swallows are the errors of SQLite, and then the session goes on and may complete: without the outcome if
that leaked, since its interaction stays open, but with no trace of a request that leaked at `/begin`. And
a store that fails in `/begin` or `/complete` itself does not end the session as `failed` then (same document,
181-182): the request gets a 500 and the session goes on. After a failed `/complete` it cannot complete, as its interaction
stays open; after a failed `/begin`, which has no entry and after which the adapter makes no real call, it may.

Observed while modelling, without a document that says otherwise:

* *Dashboard.* A summary read that fails late leaves its error notice on a run whose stream works, although
  `dashboard/web/src/run-stream.ts:108-109` does not want the order of arrival to decide. A late reply to the answer of
  question 1, after question 2 was asked, sets `answeredId` back, so a tab that had answered question 2 shows
  it again, and a second answer gets 409. A line written while a question waits shows `running` in the tab
  while the server's status is `waiting-input`.
* *Generate.* An input that a repair replaced counts as the user's even when a provider proposed it, so a later
  round does not repair it again. When the review is over close() is not followed by forceClose() if it
  fails, unlike in the proxy's `closeQuietly`; when the preparation fails forceClose() is called at once.
  The command passes no abort signal to the provider, whose CLI may outlive its answer by the escalation.
* *Session file.* A migration killed between two `ALTER TABLE` leaves a file that never records
  again ("duplicate column name"). A killed recorder leaves a session that stays `running`, which
  record and replay both refuse. Neither loses a recording.

* *Audit.* docker may have made the network or the volume when its CLI is given up after 30 seconds (`docker.ts:368`, `381`):
  the clean-up does not know of it, and neither the reason of the failed start nor anything else tells the
  user (`untold`), although `backend.ts:50-52` has start remove what it made. The gateway is marked before
  it is made for this very reason (384). An error of the audit buries a failed clean-up, by design. The last loop of
  `attachable` holds back again a line that had been held back, when a cut divides its pair, which the comment
  above it (636) excludes. What a server does while its connection is closed is attached to the second `list`, as the
  mark of `shutdown` follows the close. A request whose body is not whole when the audit reads
  the gateway is neither noted nor counted as a gap.

## 6. What is not modelled, and the plan

Not modelled, and why:

* Pure algorithms over schemas and text, where the state is the input: runner contracts, synthesis,
  optimisation rules, audit rules, redaction and normalisation. They are recursive over JSON Schema, and the
  tests beside them enumerate what a bounded model would.
* Rendering, reporters, layout, the website, examples and benchmarks.
* Of the audit: CONNECT tunnels, DNS and TLS notes, the parsing of trace lines, the image, masking, the audit outside a
  sandbox and the comparison with the host.
* What runs in the containers, the provider CLIs and the HTTP transport, whose sessions and retries are the SDK's.
* Wall-clock measurement (perf).
* Listing tools page by page (`core/src/client.ts`). That a server with a fresh cursor for every page is never stopped
  is in `TestCommand` (`Listed` need not come while the server lives); the pages themselves are not.
* An error of SQLite in a replay, whose store is read only: a lookup would be answered with a 500.
* Of the generate command: arguments, prompts, the comparison of pre-filled suites, the repair cache, fixture
  write-back and the batch file; temporary files that could not be removed; a preview
  against an older revision.
* Of the dashboard: the routes that list and start runs, the limit on kept runs, the other screens.
* Of the test command: reading and validating the suite, rendering (taken to succeed), the repair bundle.

Limits of properties that hold:

* `RequestsFollowTheirCall`: sending a request and its arrival at the gateway are one step; one still under way when
  the phase changes is judged by its arrival.
* `OnlyItsRecorder` names the state of the session's creator and not who acts. That catches another writer because
  the creator may be killed before any step of the other.
* `NothingLeftUnsaid` excepts what docker made without answering (`untold`), which the audit does not tell of.
* `WaitingIsShown` is about one run: a screen that is given another run's id while it stays is not followed.
* `FinishSettles` and `NoCallHangs`: see the fairness of `record`.

Built, in this order: 1. `SessionStore`, `RecordingTape`, `Coordinator`, `ExternalRecord`;
2. `ExternalReplay`, `ReplayObserver`; 3. `Lifecycle`, `StdioConnection`;
4. `RunnerExecutor`, `RunnerShutdown`; 5. `ProviderProcess`; 6. `SessionFile`;
7. `RunRegistry`, `Dashboard`; 8. `AuthoringSession`, `GenerateCommand`; 9. `OptimizeProxy`,
`ConnectionOwners`; 10. `TestCommand`; 11. `SandboxGateway`, `SandboxTrace`, `AuditSandbox`; with the proofs
of 1, 3 to 6 beside the modules and those of the others after them.

Next, proofs, most important first:

| Statement | What it needs |
|---|---|
| a replay implements an abstract reader of the tapes `RecordingTape` writes | an abstract specification of the reader, and `ServeInv` as its refinement mapping |
| the dashboard implements a log that each tab reads | an abstract specification of a log and its readers; `Follows` is the mapping |
| a question that a tab shows was asked, and is waiting or was answered | `Follows`, with the question number of the last question received |
| the parts of the liveness properties that are safety | per property, the invariant that says what can still happen |

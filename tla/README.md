# Soulacy in TLA+

TLA+ modules that model the stateful core of Soulacy (the gateway and agent
runtime under `src/`), TLC configurations that model-check them on small
instances, and TLAPS proofs of the properties that matter most. `PROJECT.json`
lists the runs, which lines of the source each definition stands for (`map`),
one faulty variant of the code per property (`mutants`), the hazards of the code
and the theorems.

Contents: 1 the system, 2 the modules, 3 scheduler, 4 missed runs, 5 safe undo,
6 ingestion, 7 a turn: approvals and the phone, 8 processes: workers and
sidecars, 9 budgets and goals, 10 what is proved, 11 disagreements between code and text,
12 what is not modelled, 13 plan, 14 how to run.

## 1. The system

Soulacy is one Go binary. A gateway (HTTP and WebSocket) accepts requests of a
person, of channel adapters (Telegram, Slack, sidecars, a mobile app) and of
schedules, and an engine runs agents, each defined by a `SOUL.yaml` file. All
state is in the process, in SQLite files and in files below the workspace. There
is one process; what is hard is that many goroutines share its maps, that the
files outlive it, and that it talks to servers that answer late or never.

| Component | State it keeps | Operations | Talks to | Hard behaviour | Correct when |
|---|---|---|---|---|---|
| scheduler (`internal/scheduler`) | cron entries, one-shot cancel functions, run locks, failure counters, file of completed fires | register, deregister, `fireAt`, catch-up, quarantine | loader, engine, readiness, delivery | ticks, catch-ups, manual runs and edits interleave; crash between run, record and delivery | one run per agent; off means off; enabled means scheduled; completed fires are remembered |
| agent definitions (`runtime/loader.go`, `watcher.go`) | definitions in memory, `SOUL.yaml` files | upsert, remove, enable, reload | scheduler | handler, watcher and quarantine change one map; reload from stale files | the cron table follows the definitions |
| agent requests (`gateway/api.go`) | none of its own | create, save, enable, disable, delete, run | loader, scheduler | several steps, each may fail | all or nothing as far as a person sees |
| safe undo (`internal/safeundo`) | SQLite ledger of receipts, conflict index, one-use plan, a single gate | prepare, preview, confirm, reconcile, view, recover | remote records and WebDAV texts | lost answers, late requests, outside edits, crash around a write | the receipt is true; nobody else's value is overwritten |
| knowledge ingestion (`knowledge/jobs.go`, `worker.go`) | catalog of jobs, spooled uploads, documents | upload, claim, run, back off, park, retry, recover | embedder | crash, shutdown, panic, timers that outlive the row | every job settles; done means stored, and once |
| executor pool (`executor/pool`) | idle Python workers, stop channel | run, replace, close | subprocesses | a worker dies, hangs or cannot be replaced while the pool closes | a place is counted once; every run ends; no process is forgotten |
| confirmations (`runtime/confirm.go`) | pending approvals, one channel per call | register, list, resolve, forget, time out | engine, clients | several devices answer while the run ends | one answer counts and is obeyed; nobody hangs |
| queue (`internal/queue`) | subscriptions, buffers | publish, subscribe, close | hooks | slow subscriber | at most once per subscriber |
| hooks and events | subscribers, retry timers | emit, dispatch | queue, HTTP | redelivery, order | documented best effort |
| budgets (`internal/costs`, `llm/router.go`, `llm/run_budget.go`) | reservations and use in SQLite, run and execution budgets, slots, circuit | reserve, refuse, release, record | providers | four reservations per call, each may be refused; admission between release and record | nothing leaks; no budget admits more than it holds, the daily one but for one call |
| channel supervisor (`channels/external`, `plugins/delegation.go`) | sidecar process, back-off, fingerprint of its secrets | start, supervise, restart, stop | subprocesses, vault | stop and restart meet a start | one sidecar at a time, none started after stop, current secrets |
| mobile nodes (`channels/mobile`) | a row per command, registration | enqueue, poll, claim, finish, expire, unpair | phones, engine | lost and repeated calls, a killed application, a lapsed command | done once at most; a final status is true |
| pairing | one-time codes | issue, redeem | mobile | two redeem at once | a code is used once |
| workboard | tasks and runs | claim, start, finish | engine | a crash leaves a run open | one open run per task |
| autopilot (`internal/autopilot`, `runtime/autopilot.go`, `gateway/autopilot_goals.go`) | goals, tasks, claims, proofs, frozen agents in SQLite; contexts of goals and runs | run, admit, claim, prove, settle, cancel, freeze, close | engine, budgets | cancel, freeze, deadline, shutdown and crash meet a run on its way in or out | no task is worked on twice or after the stop; success is proved; budgets are given back |
| missions | missions and their checks | define, evaluate | autopilot | none of its own | not stated here |
| engine, router, memory, sessions, learning, plugins, MCP, browser, updates, auth, credentials, rate limits, studio, clients | see `PROJECT.json` | | | mostly I/O, SQL or text | not stated here |

## 2. The modules

| Module | Kind | Models |
|---|---|---|
| `Scheduler` | component | one process of the scheduler with the loader, the watcher and the agent requests |
| `RunLock` | abstract | what the run lock promises; `Scheduler` implements it |
| `MissedRuns` | component | the schedule through restarts, with a clock and the state file |
| `SafeUndo` | component | the Safe Undo store, its remote resources and its requests |
| `Receipt` | abstract | what a receipt promises; `SafeUndo` implements it |
| `Ingest` | component | catalog, worker, timers, uploads and retries of ingestion |
| `Approvals` | component | the confirmation broker, the run that waits and the people who answer |
| `NodeCommands` | component | the commands of a paired phone, and the phone |
| `Errand` | abstract | what a phone command promises; `NodeCommands` implements it |
| `Turn` | composition | an agent's call that is approved (`Approvals`) and reaches for the phone (`NodeCommands`) |
| `PythonPool` | component | the pool of Python workers |
| `Sidecar` | component | a supervised channel program and the watcher of its secrets |
| `Budget` | component | admission and accounting of model calls |
| `Goals` | component | a goal and its tasks: admission, claim, proof and settlement, and what stops them |
| `MCScheduler`, `MCSchedulers`, `MCMissedRuns`, `MCSafeUndo`, `MCIngest`, `MCTurn`, `MCPythonPool`, `MCProcesses`, `MCSpending` | instances | constants, symmetry, and several instances in one run |
| `SchedulerProofs` | proofs | about `Scheduler` |
| `SafeUndoProofs` | proofs | about `SafeUndo` |
| `IngestProofs` | proofs | about `Ingest` |
| `TurnProofs` | proofs | about `Turn` and its two halves |
| `MissedRunsProofs` | proofs | about `MissedRuns` |
| `ProcessProofs` | proofs | about `PythonPool` and `Sidecar` |
| `BudgetProofs` | proofs | about `Budget` |
| `GoalsProofs` | proofs | about `Goals` |

Conventions. One action is one critical section, one SQL statement or
transaction, one file operation, or one request to a server; everything else the
handler does in that section is in the same action. A goroutine or request has a
`pc`, whose values name the next section of its code. A definition whose comment
begins with "Fault:" is no part of the specification: it is a plausible bug (a
dropped guard, a missing reset), used to show that a property can fail. A history
variable is marked `history`; no guard of the code's actions reads one.

Where a run has several instances (`MCSchedulers`, `MCIngest`, `MCProcesses`,
`MCSpending`), a
variable `instance`, chosen in the initial state and never changed, says which of
them a behaviour belongs to; each is the component under its own constants.

## 3. Scheduler

`Scheduler` composes four pieces of code that share state without a common lock:
`scheduler.go`, `runtime/loader.go`, `runtime/watcher.go` and the agent handlers
of `gateway/api.go`.

State: `disk` and `mem` are the files and the loader's map (a definition is
`[enabled, surface, valid]`, all that scheduling reads: `valid` says that its
expression parses, or that its time is set); `shared` says that a handler
changes the very object in that map in place, as the create and enable handlers
do through a pointer; `dirty` is the watcher's debounce; `jobs` are live cron
entries and waiting timers, `handle` the scheduler's own tables of them, and
`cancelled` the contexts of timers; `running` and `fails` are the run locks and
counters; `missed` and `invalid` are what start-up still has to do; `th`, `wr`
and `rl` are the goroutines.

| Actions | Code |
|---|---|
| `CronTick`, `TimerDue`, `TimerCancelled`, `CatchUp`, `ManualTrigger` | what starts a goroutine |
| `FireCheck`, `FireDrop`, `FireGate`, `TryStartRun`, `Lookup`, `RunCompletes`, `RunFails`, `MarkCompleted`, `Deliver`, `FinishRun`, `OneShotForget` | `fireAt` and `handleManualTrigger`, section by section |
| `QuarantineDeregister`, `QuarantineDisable`, `QuarantineClear` | `recordFireResult` at the limit |
| `Request`, `Upsert`, `UpsertFails`, `Store`, `StoreUnsynced`, `HandlerDeregister`, `Remove`, `RemoveNothing`, `RemoveFails` | the agent handlers, with their early returns |
| `RegisterSkip`, `RegisterFails`, `AddCron`, `SwapCron`, `AddOneShot` | `RegisterAgent`; `AddCron` and `SwapCron` are apart because the entry is added before the lock is taken |
| `EditFile`, `ReloadBegin`, `ReloadLoad`, `ReloadDiff`, `ReloadDrop`, `ReloadRegister`, `ReloadEnd` | a person's edit and the watcher |
| `BootValidation`, `Restart` | start-up and the end of a process at any moment |

The readiness gate and the run itself are free choices of outcome; time is
abstract (a live entry may tick at any moment), which allows more interleavings
than a clock would.

| Run | Instance | Shows |
|---|---|---|
| `scheduler` | "fires": 1 cron agent, 2 goroutines, 1 handler, limit 2; a write, a synchronisation, a removal and a validation may fail | `DisabledNeverRuns`, `QuarantineInProgress`, `ImplementsRunLock` |
| | "writers": 1 cron agent, 2 handlers, 3 entries | an entry the scheduler does not know would be seen here |
| | "reload": 1 cron agent, 1 one-shot, 1 reloader, edits of both files; the cron agent's expression may not parse | `TableFollows` |
| | "one-shot": 1 one-shot, 1 goroutine, 1 handler, both surfaces; its time may be unset, fair | an entry without a timer would be seen here; `LockReleased` |
| `lost_entry` | 1 cron agent, 1 goroutine, 1 handler | `EnabledIsScheduled` is violated (section 11) |

`DisabledNeverRuns`, `QuarantineInProgress`, `ImplementsRunLock` and `TableIsTrue` are
checked in all four instances of `scheduler`, which share one set of constants: the
actors that an instance does not need stay idle in it. `MutualExclusion`, `LockMatchesOwner`,
`FailuresCountedUnderLock` and `TypeOK` are proved (section 10) and not
checked by a run. `TableFollows` is `TableMatchesDefinitions`, which holds with one
reload at a time and nothing else under way (section 11), and is proved for that case.

Bounds. Each hazard needs two actors on one agent, so two goroutines or two
handlers reach every pairwise race; a second agent matters only where the
question is about the others ("reload"). The surface of an agent varies only in
"one-shot": the reload does not compare it (section 11), so `TableFollows` holds
only while it stays the same. `Jobs` bounds the entries alive at once, not in
total: a freed identity is used again, so runs do not end when it is spent. The
identity of a removed entry may thus be given to a later one; the cron library
never does that, and the scheduler never keeps an identity it has removed, so the
two differ only for a pointer that is already gone. `LeastIsNew` picks the least
free identity in "writers", which loses nothing since identities are
interchangeable. `FailLimit` is 2 instead of 3: the counter is compared with the
limit and nothing else, and `SchedulerProofs` covers all positive limits.

Fairness: weak fairness of each step of a goroutine, a handler and a registration
(Go schedules runnable goroutines; a run ends because its context carries
`run_timeout`), strong fairness of a waiting timer coming due (it is disabled only
while the modelled goroutine is busy, and the code starts a goroutine per timer).
Nothing makes a person act, a gate pass or a process die. Deadlock is checked.

## 4. Missed runs

`MissedRuns` fixes the table and adds what `Scheduler` abstracts: `now`, the
`file` of completed fires with the copy `mem`, the cron library's `next`, and
the start of the process in three steps (`Boot`, `DaemonStarts`,
`CatchUpBegins`, as `wire.go` and `Start` order them). A cron agent is due at
the multiples of `Period`; `at` is the time a fire carries and `slot` the due
time it stands for, which differ when a tick is late. `CheckMissed` is one
agent of `runMissedOnStartup`; `MarkCompleted` is `markScheduleCompleted`, whose
load and save may fail. `completed`, `tried`, `lost` and `hasSeen` are history.

| Run | Instance | Shows |
|---|---|---|
| `processes` | "gateway": 1 cron agent, 1 one-shot, 2 goroutines, 2 processes, failing loads and saves, fair | `RecordIsEarned`, `RecordNeverGoesBack`, `MissedIsMadeUp` |
| `missed_oneshot` | 1 one-shot, 2 processes | `OneShotRunsOnce` is violated (section 11) |

Bounds: `Horizon` (the clock) leaves two due times, so an old fire and a newer
one can wait together and the latest of two missed ones can be chosen; two
processes are what a restart needs; two goroutines are what a catch-up and a tick
of the same agent need. With a `Period` of 1 and a `Window` of 2 every tick of the
clock is a due time, so the run distinguishes fires inside and outside the window but
not the ends of a longer interval. Fairness is weak, on the start and on each goroutine; the
clock and crashes are free. `CHECK_DEADLOCK FALSE`, because a behaviour ends when
the clock and the starts are used up.

A load may fail although the file exists. The copy in memory then stays as it is, and
the caller goes on with it (`scheduler.go:838-840`): a catch-up looks at that copy, and
the next completed run writes it over the file. In a process that has not read the file
since its start the copy is empty, so its first save takes back the record of every
other agent, and even that of its own if the fire was an old one. `RecordNeverGoesBack`
therefore speaks of a process that has read the file, or written it, once (`hasSeen`):
there neither a later failure nor a fire that ends late takes a record back. The run has
one cron agent, whose record goes back in this way when a late catch-up is what writes
it; `MissedRunsProofs` covers any number.

What `MissedIsMadeUp` does not promise follows the code: a catch-up that meets a
run in progress, or that the readiness gate refuses, is dropped, and counts as turned
away.

## 5. Safe undo

`SafeUndo` has the `ledger` (a receipt per job, an action per change), the
conflict index (an action's `order`), the operation `op` that holds the store's
gate, the remote resources with their ETag `version`, and `net`, the write
requests that may still arrive. A field's value is the job that wrote it.

| Actions | Code |
|---|---|
| `BeginPrepare`, `PrepareRead`, `PrepareSave` | `Prepare` |
| `BeginPreview`, `PreviewRead`, `PreviewSave` | `Preview`: order, conflicts, observed state, a new one-use plan |
| `BeginExecute`, `Check`, `Consume` | the confirmation up to the commit that uses up the token |
| `Intend`, `PermissionLost`, `Send`, `TimeOut`, `ReadBack`, `RecordFailure` | one change: durable intent, request with `If-Match`, read-back |
| `Reconcile` | acceptance of an observed state |
| `Finish`, `Abandon`, `View`, `Restart` | ends, and the recovery of interrupted intents at the next load |
| `ServerWrites`, `ServerRefuses`, `OutsideEdit` | the environment |

`Send` and `ServerWrites` are apart, so a request can be executed after its
operation gave up, after a crash, or not at all; a write is done once at most.

| Run | Instance | Shows |
|---|---|---|
| `undo` | job `j1` changes a field of a record and a text, job `j2` the same field of the record; 1 outside edit, 3 previews, 3 confirmations per job, fair | `ReceiptTruth`, `NothingOverwritten`, `ImplementsReceipt`, `DispatchOncePerToken`, `UndoInOrder`, `GateReleased` |

The jobs share a record because there only the conflict index keeps an undo from
passing a later job whose value somebody has put back; a text is compared with the
version of the write as well. The other way round, a text is where the
precondition `If-Match` alone protects other people's values: the server of a
record tests the values in the patch too.

`UndoInOrder` has two halves, which the documentation states apart: within a job,
changes are undone from the last to the first, also by the second preview that
resumes a partial undo; and between jobs, none is undone while a later job's
change of the same field stands.

Bounds: two jobs on one resource are what a conflict needs, two changes of one job
what an order and a partial failure need; 3 previews are an apply of each job and
the undo of one, or an apply, a partial undo and its resumption. 3 confirmations
per job stand for the code's 16. Fairness is `WF(OpStep)`: every request of the
store has a deadline of 8 seconds and every operation one of 45. Deadlock is
checked.

Left out: plans that expire unused (a plan that is never confirmed does the
same), size limits, the normal form of JSON numbers, the list of receipts, HTTP.

## 6. Ingestion

`Ingest` has the catalog `row` and the files `spool`, which survive, and the
worker, its back-off `timers` (a count of goroutines for each job), uploads and retry
requests, which do not. `spent` and `spared` count, for the budget a job is on, the
runs that failed or were cut short and those that neither failed nor were cut short but
are in the count of the row all the same; `cuts` counts the runs cut short for good,
and `contested` holds the jobs about which two presses of Retry were under way at once
since the process started. These four are history.

| Actions | Code |
|---|---|
| `Upload`, `Enqueue`, `EnqueueFails` | `enqueueIngest`: spool, then row, and the removal of the spool when the row fails |
| `Claim`, `Read`, `Store`, `StepFails`, `Panic` | `step`: claim counts the attempt, the document is one transaction |
| `FinishDone`, `Clean`, `BackOff`, `Park`, `Discard`, `RequeueOnStop` | the ends of a run |
| `TimerFires`, `TimerCancelled` | the back-off goroutine |
| `RetryCheck`, `RetryStat`, `RetryRequeue` | `handleRetryIngestJob`, whose three steps hold no lock |
| `Stop`, `Exit`, `Crash`, `Boot` | shutdown, crash and `RecoverStaleIngests` |

| Run | Instance | Shows |
|---|---|---|
| `ingest` | "faulty": 2 uploads, 1 crash, panics, failing statements, 2 operators and 2 presses of Retry, which may overlap | `ClaimIsExclusive`, `DocumentsAddUp`, `ParkedAfterBudget` |
| | "calm": 2 uploads, 1 crash, 1 orderly shutdown, fair | the same, and `CalmJobsSettle` |
| `ingest_panic` | 1 upload, panics | `RunningIsOwned` is violated (section 11) |

Bounds: `MaxAttempts` is 2 instead of 3, enough for a first run, a retry and a
park; the second upload lets a timer of one job fire during a run of the other.
Two operators with a press each are what presses that overlap need.
`CHECK_DEADLOCK FALSE`: when every job has settled and the bounds are used up
nothing is left to do.

Nothing serialises the presses (`knowledge_jobs.go:142-150`). Two that overlap both find
the job ended and both requeue it, the second perhaps under a run; a press that is alone
finds the job as it left it. So `ClaimIsExclusive` holds for every job that is not
`contested`, and for a contested one it fails. `ParkedAfterBudget` holds with overlapping
presses and with shutdowns, because it says what a parked job's count is made of:
failures, runs cut short, and what `spared` names (a run handed back at a shutdown, whose
attempt is spent; a run whose success a late timer undid; failures that a press wiped
while the next run was counting on from them).
`DocumentsAddUp` is `DoneIsStored` with `CopiesNeedCuts`. A statement of the catalog
that never succeeds keeps a job from settling, so the "calm" instance has no such
faults.

Fairness is weak, on the worker, the timers, the end of a shutdown and the next
start. It assumes that the embedder answers or fails, which is up to its client,
and that a stopped gateway is started again.

`DeadLetter` of the worker is not in the model: `worker.go:34-36` says that the
gateway's store implements it, and `wire.go` passes none. `PressesAreBounded` is
proved (section 10) and not checked by a run.

## 7. A turn: approvals and the phone

`Turn` composes what happens when an agent's call needs a person's yes and then a
person's phone. `Approvals` has the broker's table (`pending`), the channel of each
call (`slot`, capacity one), where its run is (`stage`, `outcome`), the contexts
that have `ended`, and what a request has taken out of the table and not yet sent
(`hand`). `NodeCommands` has the status column of each command (`row`), the expiry
times that have passed (`lapsed`), the registration, the requests that have read it
(`creating`), the claims that have taken the time and wait for the database
(`claiming`), and the phone: how far each start of its application is with each
command (`at`), the result on its disk (`saved`), and what it has really done.

| Actions | Code |
|---|---|
| `PassUnasked`, `RefuseUnattended`, `Ask`, `Obey`, `GiveUp`, `Forget` | `maybeConfirm`, `requiredHumanConfirm` and its deferred `Forget` |
| `Take`, `Deliver` | `ResolveForPrincipal`: the entry under the lock, the answer after it |
| `EndRun` | deadline, cancellation, or the end of the client's connection |
| `Check`, `Insert` | `EnqueueNodeCommand`: the registration is read, then the row inserted |
| `AskToClaim`, `Claim`, `ClaimFails` | `ClaimNodeCommand`: the time is taken before the statement (`nodes.go:270`), which may wait for SQLite's write lock |
| `Finish`, `RegisterNode`, `DeleteDevice`, `Lapse` | the other conditional statements of `nodes.go`, and time |
| `Poll`, `Act`, `Save`, `Kill` | the phone (external), after the protocol comment of `nodes.go` |
| `Invoke`, `InsertInvoked`, `ReadRow`, `ShowQueued` | `mobile.invoke`, `mobile.command_status` and `waitForNodeCommand`; a row read as queued is compared with the time afterwards (`scanNodeCommand`) |
| `Create` | a person's client, with an `Idempotency-Key` |
| `Restart` | the gateway forgets runs, approvals and requests; rows and phone go on |

An answer to a claim may be lost (`Claim` may leave the phone where it was), a
result is sent until it is taken (`Finish` may repeat), a request may be repeated
(`Check` again), and a claim of a killed application may arrive late (`"killed"`).

| Run | Instance | Shows |
|---|---|---|
| `turn` | 1 call that reaches for the phone, 1 command of a client, 2 devices of the owner and 1 of somebody else, 2 starts of the application, 1 queued command at most | `AnswerObeyed`, `SenderNeverBlocks`, `DoneOnlyIfCleared`, `ToldTheTruth`, `ImplementsErrand` |

Bounds: two devices are what two answers of one call need, the third checks who may
answer; a second command is what the limit of queued commands and the two ways of
creation need; two starts of the application are what a late claim needs. `OneInHand`
keeps the phone to one command at a time, polled to finished: two commands meet only in
the count of queued ones and when the phone is unpaired, and the proofs of section 10
have no such bound. A call has one id and asks once, so nothing is counted.
`CHECK_DEADLOCK FALSE`: when every command has ended there is nothing left to do. No
fairness: a run may wait until its deadline, and a phone may stay silent.

A claim is judged by the time it took before it waited for the database, so an agent may
be told `expired` and the phone may claim the command and do it afterwards. `Errand` has
that step, for who asked before the time was up, and `ToldTheTruth` promises of
`expired` only that the row ended so and nothing was done, or that the time has passed.

Left out: what is asked and shown, the events that announce an approval (they may be
missed, and the list is read instead), the content of commands and results.

## 8. Processes: workers and sidecars

`PythonPool` has each worker's process (`proc`), the channel of `idle` workers, and
for each call of `Run` its stage, the worker it holds, its send goroutine and the
goroutine that replaces its worker. A worker may die, hang, or answer with an
error; a start may fail.

| Actions | Code |
|---|---|
| `Start`, `Acquire`, `Leave`, `Finish`, `TimeOut`, `Push` | `Pool.Run` |
| `Send`, `Hear` | the goroutine that writes the request and reads the answer |
| `Kill`, `Reap` | `worker.kill`: the process first, then `ioMu`, then `Wait` |
| `CheckOpen`, `Spawn`, `SpawnFails`, `Wake`, `Install` | `replaceWorker` with its back-off |
| `Mark`, `CloseChannel`, `Drain` | `Close` |

`Sidecar` has the goroutine of `supervise` (`sup`), the adapter the supervisor
refers to and the one being started, the processes with the version of the secrets
each was given, the `stopOnce` of each adapter, and two callers of `Adapter.Stop`:
the watcher of the vault through `Restart`, and the gateway through `Stop`.

| Actions | Code |
|---|---|
| `Resolve`, `StartFirst`, `Store`, `Exited`, `DelayOver`, `StartAgain`, `StoreFake`, `HearStop` | `Supervisor.Start` and `supervise`, section by section |
| `Notice`, `Restart` | `WatchCredentials` and `Supervisor.Restart` |
| `Stop`, `CloseStop` | `Supervisor.Stop` |
| `EnterOnce`, `WriteShutdown`, `Grace` | `Adapter.Stop` |
| `Crash`, `Clog`, `Rotate` | the program dies or stops reading; a secret changes |

| Run | Instance | Shows |
|---|---|---|
| `processes` | pool: 2 runs, 1 worker, 2 attempts, fair | `NoStrays`, `NeverReapedWhileRead`, `RunsFinish` |
| | sidecar: 2 changes of its secrets, fair | `OneSidecar`, `NothingStartsAfterStop`, `KeepsTrying` |
| | gateway: section 4 | |
| `pool_size` | 1 run, 2 workers, 5 attempts | `PoolKeepsItsSize` is violated (section 11) |
| `pool_close` | 2 runs, 2 workers | `CloseStopsWorkers` is violated (section 11) |
| `rotation` | 1 change of the secrets | `HoldsCurrent` is violated (section 11) |

Bounds: with one worker, two runs compete for it and the second waits while the
first one's is replaced; `ProcessProofs` covers all sizes. 2 attempts instead of 5
give a failed start that is tried again and one that is given up. Two changes let
one come while the restart for the other is under way. A new adapter takes the least
identity that nobody refers to, so sidecars start without bound.
`CHECK_DEADLOCK FALSE`: every run and the supervisor end.

The pool shrinks when all the starts of a replacement fail, against its comments. What
holds instead, `ShrinksByFailedStarts`, is proved: the places that an open pool has lost
are those replacements and no others.

Fairness: goroutines are scheduled; a run's context ends (`run_timeout`); the pipe of
a dead process ends. A tool need not answer and a sidecar need not read. `KeepsTrying`
asks only for the goroutine of `supervise`.

Left out: what workers are asked, the order in which idle ones are taken, the length
of back-offs (and so the count that `HealthyReset` resets), handshake and messages
of a sidecar, the end of the gateway's context, which kills every sidecar.

## 9. Budgets and goals

`Budget` follows a model call through `completeOne`: the execution budget of its run
(`exec`, `share`), the circuit and a slot of its provider, a row against the daily
budget (`rows`), the run budgets above it (`bucket`); each may refuse it, and the
call then gives back what it has taken so far. `used` is the recorded use, `mu` the
governor's mutex.

| Actions | Code |
|---|---|
| `Enter`, `Cancel` | `reserveExecution` and its `cancel` |
| `CheckCircuit`, `TakeSlot`, `LeaveQueue`, `ReleaseSlot` | `acquireProvider`, `releaseProvider` |
| `TryReserve`, `DropRefusedRow` | the transaction of `costs/store.go`, with the second attempt of a smaller request; `Release` |
| `ReserveRunCost` | `llm/run_budget.go`: in every run budget above the call, or in none |
| `Preflight`, `Answer`, `Fail` | the call, or the refusal before it; settlement of the execution budget |
| `After`, `Record` | `Governor.After` up to the release of the row, and from there |
| `Expire`, `CoolDown` | the TTL of a reservation, and the circuit's cool-down |

| Run | Instance | Shows |
|---|---|---|
| `spending` | "calls": 3 calls, one in a nested run; a daily budget of 5, run budgets of 4, an execution budget of 6; estimates of 3, of which a provider reports 1 or 4; 2 slots; a circuit that opens at one failure; a reservation of 2 left by a crash; 1 expiry; fair | `NothingLeaks`, `RunBudgetKept`, `OvershootBounded`, `CallsSettle` |
| | "goal": 2 tasks, the first waits for the second; budgets of 1 and 2 in a goal of 2; 2 presses of Run, 1 cancel, 1 freeze, 1 restart, 1 failed write; fair | `WorkOnce`, `SuccessIsProved`, `ReservedForRuns`, `StoppedStaysStopped`, `GoalsSettle` |

Bounds of "calls": no budget holds all three calls and each holds at least one, so every step
can refuse; three calls are what two slots and a queue need; the nested run shares
one budget with its parent and has one of its own. `Threshold` is 1 instead of 5: it
is compared and nothing else. `CHECK_DEADLOCK FALSE`: the calls end.

A provider may report more than was reserved for the call, and nothing compares the two:
the execution budget, the run budgets and the day are charged what is reported
(`execution_budget.go:114-135`, `run_budget.go:126-133`, `governor.go:289-296`). So no
budget bounds what is spent. `RunBudgetKept` and `OvershootBounded` say what the
admission keeps all the same: whatever is above a limit was reported above a
reservation, and the history variables `execOver`, `bucketOver` and `dayOver` add that
up, call by call. A failed call is charged the whole of what it held in the execution and
run budgets, and what it reported to the day.

`OvershootBounded` has two more terms: between the release of a row and the record of
its use, another call may be admitted against neither. The governor's mutex lets one
call at a time be there, so the day is passed by the estimate of one call, and by those
that outlived their reservation (`late`).

Fairness is weak on the calls that are admitted or wait to be, taken together: while
one of them can move, one moves. It assumes that a call's context ends. For a goal it
is weak on each goroutine: a run ends because its context carries a timeout.

Left out: errors of the statement that releases a row, which the code discards
(`governor.go:216`, `:256`; the TTL removes the row), prices (money and tokens are one
unit), answers whose price is not known, soft budgets, per-agent limits (the same
transaction under another key), several providers and fallbacks, reports.

`Goals` is one goal of the autopilot. The store has its row (`status`, `spent`,
`reserved`), its tasks (`task`), the claim of each task's run (`run`) and its `proof`,
and whether the agent is `frozen`; these survive. The process has the goroutine of
each press of Run (`at`, `hand`), the contexts that have not ended (`live`), and the
two tables through which they are ended: `registered` of the gateway, which Cancel and
the shutdown reach, and `active` of the engine, which Freeze reaches. `begun` and
`upset` are history.

| Actions | Code |
|---|---|
| `PressRun`, `Register` | `handleAutopilotRunGoal`, which holds `autopilotMu` from `StartGoal` to the registration |
| `CancelInStore`, `CancelContext` | `handleAutopilotCancelGoal`: the store first, then the context |
| `FreezeInStore`, `FreezeRuns` | `handleAutopilotFreeze`: the store first, then the runs the engine knows |
| `CloseGateway`, `GatewayClosed` | `closeAutopilot`: every context, then the wait |
| `Deadline`, `Restart` | the end of the goal's time; the end of the process and `NewStore` |
| `Loop`, `Ask`, `Admit`, `Reserve`, `Reread`, `FailGoal`, `Prepare`, `Tail`, `Leave` | `executeAutopilotGoal`, with `ReadyGoalTasks`, the look and the transaction of `StartGoalTask`, and `FailGoal` |
| `Turned`, `Admitted`, `ClaimRun`, `Activate`, `Resolve`, `Begin`, `Answered`, `Failed`, `SaveProof`, `ProofLost` | `Handle` of the engine around a run |
| `FinishGoalTask`, `FinishLost` | the settlement of a task in one transaction, and one that the database fails |

`StoppedStaysStopped` is what the order of `Handle` is for ("Close the
freeze/admission race", `runtime/autopilot.go:226`): a run reads the store, registers
itself and reads the store again; a freeze writes the store and then looks at the
registered runs. Whatever the order, one of the two sees the other, and no work begins
after the freeze was answered. Work that has begun may go on until its next tool. The
same holds of Cancel and of a shutdown through the context of the goal.

`ReservedForRuns` says that at most one task holds a reservation, since a goal starts
once and runs its tasks one by one, and gives it back on every way out of a run: a task is
settled, the goal is cancelled, or the task stays blocked, with its budget reserved,
for a person to judge. A goal that is cancelled takes its reservations along, and the
cost of a run that was under way is then added to no total.

`GoalsSettle` has three exceptions, which `upset` names and the code leaves as they
are. After a crash the goal stays `running` with a blocked task: `ReadyGoalTasks`
admits nothing "until an operator resolves its unknown external effects"
(`goal.go:374`), but no handler calls `ResolveBlockedGoalTask`, so Cancel is the only
end. After an error of the database in the two writes that follow a run, and when the
context ends between the test of the loop and the query (`autopilot_goals.go:157-160`),
the goroutine returns with the goal `running`; Cancel ends it too.

Bounds of "goal": with two tasks one waits for the other, and they fit in the goal's
budget only if the first run costs less than it may, so admission is refused as well as
granted; two presses, so the second meets a goal that runs or has ended; one restart is
what a crash needs. A task costs nothing, its budget, or more than its budget.
`Cancellers` and `Freezers` have one member each: a second request finds the store as
the first has left it.

Left out: what a mission checks (the proof is good or bad), thawing an agent, other
deployments and proposals, runs nested in a task's run (they pass the same boundary
with contexts below that of the run), errors of the database other than the two above.

## 10. What is proved

TLAPS proves these for every value of the constants, under the assumptions the
modules name (`KindAssumption`, `FailLimitAssumption`, ...), which TLC evaluates
in the runs.

| Theorem | Says | Argument |
|---|---|---|
| `SchedulerProofs!TypeCorrect` | `[]TypeOK` | `TypeInv` adds what a handler knows at each step: while `shared` names it, the definition it holds is not `None`, and a writer in the middle of a registration has an agent and an entry |
| `SchedulerProofs!RunsExcludeEachOther` | `[]MutualExclusion` | `LockInv` is `MutualExclusion` and `LockMatchesOwner`: the first is not inductive alone, because a thread acquires by looking at `running`, not at other threads |
| `SchedulerProofs!LockIsNeverLeaked` | `[]LockMatchesOwner` | the same invariant |
| `SchedulerProofs!RunLockImplemented` | `Spec => ImplementsRunLock` | each step maps to `Acquire`, `Release`, `Die` or a stutter of `RunLock` |
| `SchedulerProofs!FailuresAreSerial` | `FailuresCountedUnderLock` | action property from the types |
| `SchedulerProofs!QuarantineCompletes` | `[]QuarantineInProgress` | needs the lock: the thread that reaches the limit keeps it until it has cleared the counter, so no other thread can count in between |
| `SchedulerProofs!OffMeansOff` | `[]DisabledNeverRuns` | strengthened by what `bornOff` implies: the thread is scheduled and its agent is off or absent still |
| `SchedulerProofs!NoEntryIsOrphaned` | `[]NoOrphanEntry` | `Tables`: a live entry is the scheduler's own or that of one registration about to swap it in, two registrations never carry the same one, and no two agents share one |
| `SchedulerProofs!NoOneShotIsAPhantom` | `[]NoPhantomOneShot` | `Tables` again: a timer that is listed is live or its goroutine has not yet forgotten it, and only a registration or that goroutine changes the list; a timer whose context is cancelled is not listed |
| `SchedulerProofs!TheTableIsTrue` | `[]TableIsTrue` | the two before it |
| `SchedulerProofs!EntriesAreKept` | `[]EnabledIsScheduled`, without reloads, unless `LosesEntry` happens or requests for one agent overlap | `Kept`: an agent that is on and whose expression parses has an entry, or a request on its way to register or remove it, or is being quarantined; `Held`: that request holds the definition the loader serves. `LosesEntry` names the steps that break `Kept`: a drop on a stale read, a save that returns before it registers, a delete that cannot remove the file |
| `SchedulerProofs!TheTableFollows` | `[]TableMatchesDefinitions`, while one reload at a time is all that happens | `Following`: up to the comparison the table is that of the snapshot; after it every agent is to be dropped, to be registered with no entry, being registered, or done. `Undisturbed` names the assumptions: no runs, no requests, one reloader, one value of the surface, no rejection at start-up |
| `SafeUndoProofs!TypesHold` | `[]TypeOK` | `IsOperation` says what the operation knows at each stage (its job is on the ledger, its index is one of the job's) |
| `SafeUndoProofs!ReceiptsTellTheTruth` | `[]ReceiptTruth` | `OnLedger` and `OnOperation`: a request in flight belongs to an action in doubt or reconciled, and the operation's view of an action agrees with the ledger between intent and read-back |
| `SafeUndoProofs!StoreImplementsReceipt` | `Spec => ImplementsReceipt` | each step is described by what it does to the claim of one change; those that leave all claims alone are stutters, the others are `Receipt`'s, whose guards follow from `OnLedger` and `OnOperation` |
| `SafeUndoProofs!TokensDispatchOnce` | `DispatchOncePerToken` | `Fresh`: a plan's token has sent nothing, the one in use nothing of the steps that are left, and no token is used that has not been issued |
| `SafeUndoProofs!EditsOfOthersSurvive` | `NothingOverwritten` | `SeenInv`: as long as the version of a resource is the previewed one, so is its value, for every plan, step and request on its way; a text is written under that version only, a record under the server's own test of the values |
| `SafeUndoProofs!UndoGoesBackInOrder` | `UndoInOrder` | `Ordered`: the orders that were given out are distinct and counted; `Planned`: a plan to undo has every applied change of its job, the last first, and after its check no later job's change of its fields can appear while it holds the gate |
| `IngestProofs!Types` | `[]TypeOK` | `Typed` adds that the catalog is a finite table, from which a new row takes its age |
| `IngestProofs!DoneMeansStored` | `[]DoneIsStored` | `Begun`: a run past its transaction has a document; only such a run sets `done` |
| `IngestProofs!RunsDoNotOverlap` | `[]ClaimIsExclusive` | `Owned`: for a job that is not contested, a run and a timer have a row that is running, and a press one that has ended and is alone about it; so each status has one writer |
| `IngestProofs!CopiesAreOwed` | `[]CopiesNeedCuts` | `Library`: the documents of a job and the runs it has to come (`Chances`: the run in progress, its timers, its row if it is queued) and the presses under way (`Pending`) are together within what was paid for |
| `IngestProofs!CopiesAreAccountedFor` | `[]DocumentsAddUp` | from `DoneMeansStored` and `CopiesAreOwed` |
| `IngestProofs!PressesBounded` | `[]PressesAreBounded` | `Accounts`: the same sum for the runs that fail, with what the budget of the row still allows; where a press has put the count of a running row back, the press pays for the run |
| `IngestProofs!RowsAreOwned` | `[]RunningIsOwned`, where no statement fails and nothing panics | `Attendance`: only a run or a timer takes the last of both from a running row, and each changes the row as it goes |
| `IngestProofs!NoEarlyParking` | `[]ParkedAfterBudget` | `Account`: the count of a row, and of the run in progress, is on the tab `spent + spared`, but for that run; where a press clears the row under a run, the tab keeps what the run started with |
| `TurnProofs!Types` | `[]TypeOK` | one lemma per half: a step of `Turn` is a step of the broker, of the rows and the phone, or of both (`TwoHalves`) |
| `TurnProofs!ListIsCurrent` | `[]NoStaleEntries` | inductive with the types: the entry is made and forgotten by the run itself |
| `TurnProofs!OneAnswerCounts` | `[]AnswerObeyed` | an answer is in one place: in a hand, in the channel, or with the run, and a call that is none of these is still in the table or has been forgotten |
| `TurnProofs!TheSlotIsFree` | `[]RoomToAnswer`, the guard of `Deliver` | from the same invariant: the channel of a call holds an accepted answer, and a call whose answer is in a hand has none |
| `TurnProofs!CommandsAreErrands` | `Spec => ImplementsErrand` | at most one start of the application has claimed a command, and it alone may act; a claim under way was asked for in time, so the one that is late is `Errand`'s; each step maps to one of `Errand` or to a stutter, and a restart refuses who asked |
| `TurnProofs!NothingUncleared` | `[]DoneOnlyIfCleared` | a command's row exists only once its call was sent, which needs a clearance that nothing takes back |
| `TurnProofs!AgentKnows` | `[]ToldTheTruth` | `Truthful`, from the errand: a final status agrees with `done`, and neither changes; an `expired` that was read of a queued row means that its time has passed, which stays so |
| `ProcessProofs!Types` | `[]TypeOK` | which worker a run and a replacement hold at each stage |
| `ProcessProofs!NobodyStrays` | `[]NoStrays` | inductive once stages say who holds a worker |
| `ProcessProofs!WaitFollowsRead` | `[]NeverReapedWhileRead` | needs that no two runs hold one worker, from `NobodyStrays` |
| `ProcessProofs!PoolShrinksByFailedStarts` | `[]ShrinksByFailedStarts` | `Accounted`, with one lemma per step on the four sets (idle, holding, pending, lost): a place moves from one to another, and `Cardinality` follows from the finite-set theorems |
| `ProcessProofs!PoolNeverStuck` | `[]NobodyWaitsInVain` | `Accounted` and `InHand` (what a run that gives back or kills a worker has in hand): each place that could be missing in the channel belongs to somebody |
| `ProcessProofs!SidecarTypes` | `[]SidecarTypeOK` | with the next |
| `ProcessProofs!NeverTwoSidecars` | `[]OneSidecar` | `AliveWhere`: at each stage of the supervisor one adapter at most may have a program alive, the one it refers to or the one it has just started |
| `ProcessProofs!NothingStartsOnceStopped` | `NothingStartsAfterStop` | `Unstarted`: nobody can stop what has not been stored, so the first start precedes every Stop; a retry reads the flag under its lock |
| `MissedRunsProofs!Types` | `[]TypeOK` | `Placed` and `Marks`: which fires a goroutine may have in hand; that `Latest` and `Next` are times rests on least elements of `Nat` |
| `MissedRunsProofs!TheRecordIsEarned` | `[]RecordIsEarned` | `EarnedInv`: the copy in memory is earned as well, which a failed save leaves ahead of the file and a failed load leaves empty, and so is what a goroutine is about to write |
| `MissedRunsProofs!TheRecordStands` | `RecordNeverGoesBack` | from `EarnedInv`: the copy of a process that has read the file, or written it, is never behind it, so a load that fails loses nothing, and a save takes the later of the two |
| `BudgetProofs!Types` | `[]TypeOK` | with the next: that no counter falls below zero needs `Backed` |
| `BudgetProofs!NoReservationLeaks` | `[]NothingLeaks` | `Staged` (what a call holds at each stage, and one call at a time in the mutex) and `Backed` (each budget holds the sum over the calls that count) |
| `BudgetProofs!RunsKeepTheirBudget` | `[]RunBudgetKept` | admission compares with spent and held together; a settlement gives back what was held, which `Backed` says is there, and what it charges above that is counted |
| `BudgetProofs!DayIsBounded` | `[]OvershootBounded` | `DayInv`: the calls that run on without a reservation are within `late`, and the rest (used, reserved, the one call between release and record) is within `Ceiling`, one estimate and `dayOver`: a cost is counted against its estimate in the step that releases the row |
| `BudgetProofs!NeverStuck` | `[]NobodyIsStuck` | a call in the mutex needs nothing else; if nobody has it, a call that is past the queue can move; if all are in the queue, `NothingLeaks` says that the slots are free |
| `BudgetProofs!OnlyOnwards` | `CallsMoveOn` | a measure for each stage, which every step of a call lowers |
| `GoalsProofs!Types` | `[]GoalTypeOK` | `Held`: what a goroutine has in hand is a task |
| `GoalsProofs!NoWorkTwice` | `[]WorkOnce` | `Ordered` on top of `Alone` (one goroutine at a time, and none while the goal is a draft) and `Assigned` (what a task's status says of its run): a run that has not reached its first tool has begun nothing, and the dependencies it waited for have succeeded, which nothing takes back |
| `GoalsProofs!ReservationsAreOwed` | `[]ReservedForRuns` | `Owed`: while the goroutine has no task in hand nothing is held, so the next reservation is the only one |
| `GoalsProofs!NoSuccessUnproved` | `[]SuccessIsProved` | `Proved`: a proof is the last thing a run leaves, and only the settlement that finds it good makes a success; a goal's success from `ReservationsAreOwed` |
| `GoalsProofs!NoWorkAfterStop` | `StoppedStaysStopped` | `Reached` and `Stopped`: whoever has answered has cut every context that was there, and a run that comes later is in a settled goal or resolves a frozen agent |

The proofs of steps have one step per action and, below it, one per conjunct the action
can disturb; the inductive invariants were model-checked before they were proved.

The theorems of `IngestProofs` are about any number of presses of Retry at once. What
presses that overlap cost is one job's exclusive claim (`RunsDoNotOverlap` excepts the
jobs in `contested`) and no more: a job is done only when its document is stored
(`DoneMeansStored`), each press pays for one more copy (`CopiesAreAccountedFor`) and for
one more failure (`PressesBounded`) at most, a parked job has its budget on its tab
(`NoEarlyParking`), and no press leaves a row running with nobody behind it
(`RowsAreOwned`).

`EntriesAreKept` is about a property that does not hold: it says which steps break it,
the one that the run `lost_entry` shows and those of section 11, so that repairing these
would be enough as long as no file is reloaded. Its conditions are `Reloaders = {}` and
two hypotheses about the behaviour, `RequestsApart` and no `LosesEntry`. Writes that
fail, registrations that fail, quarantines, validations and restarts are in its scope.

`NeverStuck` and `OnlyOnwards` are what the liveness property `CallsSettle` rests on:
every step of a call takes it closer to its end, and some call can take one as long as
one is under way, so weak fairness of the calls taken together ends them all. The step
from there to `CallsSettle` is temporal and is left to TLC. `PoolNeverStuck` is the same
for `RunsFinish`: no channel and no wait in the pool holds a goroutine up, except the
wait for an idle worker of a pool whose places have been given up or which is closed.

The sums of `Budget` are folds over sets. What a fold does is proved in `BudgetProofs`
from its recursive function by induction over the subsets of a finite set; the
induction is stated with a set of good subsets and the library's theorem on minimal
elements, since one over a predicate is out of the provers' reach. `MissedRunsProofs`
finds the least and the greatest time in the same way.

Assumptions of `Budget`: calls, and the estimates they may have, are finite sets (one
process). The reservations that a crash left behind may be more than the daily limit,
which an operator may have lowered between two starts; `Ceiling` is the greater of the
two, and the code admits nothing until enough of them have expired. `used` starts at
zero: `Limit` stands for what is left of the day's budget.

Model-checked only:

- all liveness, which is out of the prover's reach;
- `SenderNeverBlocks`, which speaks of `ENABLED`: what is proved instead is that the
  guard of `Deliver` holds (`TheSlotIsFree`). TLC checks the action itself, and so also
  a `Deliver` that would wait for a receiver;
- `TableFollows`, which speaks of one instance of `MCSchedulers`: `TheTableFollows` is
  the theorem about `Scheduler`, for every instance of its kind.

## 11. Where the code and its text disagree

Six are runs that TLC ends with a counterexample, quoted under `findings`.

| Run | Property | What happens |
|---|---|---|
| `lost_entry` | `EnabledIsScheduled` | a goroutine that saw the agent off deregisters it after a request has turned it on again (`scheduler.go:450-453`); `EntriesAreKept` says what else can lose an entry |
| `missed_oneshot` | `OneShotRunsOnce` | a one-shot in the past runs at each start, also when it has run (`scheduler.go:388`) |
| `ingest_panic` | `RunningIsOwned` | a panic leaves the row running until the next start (`worker.go:168`) |
| `pool_size` | `PoolKeepsItsSize` | a replacement gives up after five failed starts and nothing tries again (`pool.go:384-403`), against "the pool never shrinks below the configured size" (`pool.go:9-10`) and "self-heals without operator intervention" (`:297-298`) |
| `pool_close` | `CloseStopsWorkers` | a run that `Close` meets puts its worker back after the channel was drained (`pool.go:348`, `:395`): its process outlives the pool |
| `rotation` | `HoldsCurrent` | a secret that changes between the read of the environment and the moment the supervisor refers to the new adapter (`supervisor.go:150`, `:158` at the first start, which the run shows; `:211`, `:243` at a restart, the same race): the watcher counts the change as dealt with, the program keeps the old secret |

The following came up while modelling. The models have the steps; no run is kept
for them, and where one limits a property above, the run's instance excludes it.

Scheduling:

- A save whose account connections cannot be synchronised returns between the
  stored definition and its registration (`api.go:562`, `:624`): the agent is
  enabled and has no entry until the next save or start.
- A delete deregisters the agent first (`api.go:839`) and then fails if the file cannot
  be removed (`loader.go:708`): the agent stays enabled, without an entry.
- A save, a create or an enable whose cron expression does not parse, or whose one-shot
  has no time, is stored; the error of `RegisterAgent` is only logged
  (`api.go:568`, `:631`, `:872`). A save has deregistered the agent before, any other
  leaves the entry of the old definition.
- `scheduleChanged` (`watcher.go:253`) does not compare the surfaces, which decide
  whether an agent is scheduled: an edit of them alone leaves the cron table.
- Two reloads may overlap: the watcher has a timer per file (`watcher.go:188`) and
  nothing excludes their callbacks. The one that compared first may register what it
  loaded after the other has dropped the agent, which stays scheduled although its
  file is gone; TLC shows this with two `Reloaders` and one agent. `TableFollows`
  therefore has one.
- `LoadAll` (`loader.go:424`) reloads every file, so an edit of any file ends every
  quarantine, not only that of the edited agent.
- A one-shot that has fired forgets the table entry of its agent
  (`scheduler.go:408`), which may be the timer of a registration made meanwhile;
  a later deregistration does not stop that timer.
- A manual run delivers through `schedule.output` (`api.go:2638`), against
  `docs/using/schedules.md:106`.
- A process that cannot read the state file goes on with an empty map, and its next
  completed run writes that map over the file (`scheduler.go:838-849`): the records of
  the other agents are gone, and their fires inside the window are caught up again.
- A process that ends between a run and its record runs the fire again; one that
  ends between the record and the delivery never delivers it (`scheduler.go:535`,
  `:560`), against "exactly once" of `docs/using/schedules.md:82-87`.

Ingestion:

- A run that a shutdown cuts short has spent an attempt, so a job may be parked after
  fewer failures than its budget; the comment at `worker.go:198-199` says that the job
  is left "rather than burning an attempt". `ParkedAfterBudget` counts these runs in `spared`.
- Two presses of Retry that overlap both find the job ended (`knowledge_jobs.go:142`)
  and both requeue it (`:150`); if the worker claims it in between, the second puts
  a running row back into the queue, to be run once more. Sections 6 and 10 say how
  far this can go.
- Parking removes the upload (`worker.go:235`), so a parked job cannot be retried;
  a retry that comes between the two statements leaves a queued job without bytes.

Processes:

- A sidecar that was started just before `Supervisor.Stop` and stored just after it
  (`supervisor.go:243`) is not the one `Stop` stops: it runs on until the gateway's
  context ends. `NothingStartsAfterStop` says all that holds.
- `Adapter.Stop` writes its shutdown frame before it starts its grace timer
  (`adapter.go:371`): a sidecar that does not read blocks `Stop`, `Restart` and the
  watcher, against "waits briefly for a clean exit, then kills" (`adapter.go:354`).
- A run that waits for a worker when the pool is closed waits until its own context
  ends; nothing wakes it (`pool.go:384-425`).

Phone:

- `mobile.command_status` may say `expired` (`nodes.go:234`) of a command that a phone
  has asked for in time: the claim waits for the database with the time it took before
  (`nodes.go:270`), and the command is then done.

Budgets:

- What a provider reports is charged whole, however little was reserved for the call, so
  a run and the day may spend more than their limit in one call (section 9).
- The circuit is read before the wait for a slot and not again: calls that wait when
  it opens are still sent.
- A call that the preflight refuses counts as a failure of its provider.
- A failed call costs nothing in the daily budget unless it reported usage, and its
  whole reservation in the run budgets above it.

## 12. Not modelled

Of the modelled components: the readiness verdict and the routing of a delivery,
YAML parsing, the other gateway endpoints (the studio, imports
and rollbacks store and register agents as a create does), chunking, embedding and search, the
16-attempt limit of a receipt (documented, `docs/SAFE_UNDO.md:169`), a panic inside
a provider (which would keep its slot), and a grandchild of a killed worker that
holds its output open (which would make `kill` wait for the end of the read).

The components marked `not_modelled` in `PROJECT.json`. Most of the repository's
lines are there, for one of these reasons:

- text and prompts: reasoning strategies, the studio and its compiler, skills, and
  most of the gateway, which turns a request into one call of a store. What they do
  depends on strings and on a model's answers; a state model would have nothing to
  say but that a function was called.
- one store, one statement: sessions, memory, learning, pairing, where SQLite's
  transaction is the whole of the concurrency.
- I/O with programs and servers that are not in the repository: MCP servers, the
  managed browser, plugins, updates, most channel adapters.
- cryptography and authentication.
- clients: the GUI, the SDKs and the command line.
- components with a state machine of their own that have not been reached yet: they
  are in section 13.

## 13. Plan

Done, in this order: `Scheduler` with `RunLock`, `SafeUndo` with `Receipt`,
`Ingest`, `MissedRuns`, then `PythonPool`, `Approvals`, `NodeCommands` with `Errand`
and their composition `Turn`, `Budget`, `Sidecar`, `Goals`, and the proofs of
section 10.

Next, most important first:

1. `WorkboardRuns` (`workboard/runs.go`, `gateway/workboard.go:257-330`): a crash leaves
   a run open, which refuses every later one; a run ends in two statements, its own row
   and then its task's status, so that an older run can overwrite the status a newer one
   has written; abstract specification: one open run per task.
2. Deployments of the autopilot: promotion and rollback while runs resolve a version.
3. The queue with the hooks that read it: close against publish, redelivery.
4. Counters of the rate limits.

Every safety property of the runs is proved, but for the two that section 10 names.
Proofs to come: the invariants of the components above, when they are modelled; and
`EnabledIsScheduled` with reloads, where the files would have to be part of `Kept`.

## 14. Running

    tlc -workers 2 -config Scheduler.cfg MCSchedulers.tla
    tlapm SchedulerProofs.tla

`PROJECT.json` gives the module and the configuration of every run. The longest
runs take about two minutes on two cores.

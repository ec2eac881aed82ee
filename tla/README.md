# Utteran: TLA+ models and proofs

Utteran is a desktop transcription application. A GUI process serves an HTTP
API, keeps jobs and setup operations in a SQLite *control store*, runs one
resource-heavy operation at a time in a worker process, and recovers the store
when it is started again after a crash. The worker, and the command line, run a
pipeline that can be resumed stage by stage, on runtimes that are probed, built
and downloaded on the user's machine. This directory models the parts of the
program where processes, crashes, caches and user commands interleave, and the
pure algorithms that decide what a transcript says; it checks the models with
TLC and proves theorems about them with TLAPS.

Paths below are relative to `src/`, the root of the repository; a bare name of a
Python file is below `src/src`.

| module | what it is | models |
|---|---|---|
| `Transitions` | the three status tables as sets of rows | `utteran_control/transitions.py` |
| `ControlStore` | the store: one action per method | `utteran_control/store.py`, `job_repository.py` |
| `FencedSlots` | what the store promises: the abstract specification | |
| `ControlStoreSlots` | the refinement mapping from `ControlStore` to `FencedSlots` | |
| `Dispatcher` | processes around the store: GUI processes, threads, workers, crashes; extends `ControlStore` | `utteran_gui/job_dispatcher.py`, `job_runtime.py`, `worker_client.py`, `process_verifier.py`, `utteran_control/recovery.py` |
| `SetupStore` | plans, approvals, steps and the child journal; extends `ControlStore` | `utteran_control/setup_repository.py`, `utteran_gui/setup_planner.py` |
| `SetupExecutor` | the thread that runs a setup, and the machine it changes; extends `Dispatcher` and `SetupStore` | `utteran_gui/setup_executor.py` |
| `EventStream` | outbox, cursors, compaction, epochs, streams, and a browser that follows them | `utteran_control/events_repository.py`, `store.py`, `utteran_gui/events_api.py`, `frontend/src/transport/` |
| `WorkerProtocol` | one run of a worker: both ends of its pipes | `utteran_gui/worker_client.py`, `utteran/worker.py`, `worker_runtime.py`, `worker_subprocess.py` |
| `Cutover` | legacy queue, job manager, supervisor of children, and their hand-over to v1 | `utteran_gui/operation_queue.py`, `jobs.py`, `processes.py`, `job_runtime.py` |
| `JobAdmission` | tokens, single flight, replays | `utteran_gui/job_admission.py`, `accept_batch` |
| `JobCommands` | commands that a client may repeat, from the request to the replay | `utteran_gui/jobs_api.py`, `setup_api.py`, `job_admission.py`, the replays of `job_repository.py` and `setup_repository.py` |
| `Settings` | revisions, replays and paged listings of settings | `utteran_settings/repository.py`, `utteran_gui/settings_api.py` |
| `StoreFiles` | creation, migration and copies of the file of the store | `utteran_control/store.py`, `utteran_gui/job_runtime.py` |
| `JobDirectory` | pid lock, manifest, resume, export and clean | `utteran/jobs.py`, `pipeline.py`, `cli.py` |
| `Batch` | a folder with a pool of backends, memory guards and fallbacks | `utteran/batch.py`, `pipeline.py`, `memory.py`, `asr/`, `diarization/` |
| `TokenWords` | words out of the tokens of whisper.cpp | `utteran/asr/whisper_cpp_words.py`, `whisper_cpp.py` |
| `Align` | speakers of the words | `utteran/align.py` |
| `Devices` | probes, their cache, the choice of devices | `utteran/devices.py`, `_device_probe.py` |
| `NativeBuild` | builds of whisper.cpp and their manifest | `utteran/native.py` |
| `ModelStore` | downloads and the shared encoder | `utteran/models/manager.py`, `openvino.py` |
| `Capability` | which installation runs a file | `utteran_settings/inheritance.py`, `utteran/capabilities/`, `utteran_gui/capability_inventory.py` |
| `BridgeRead` | one question to a child process | `utteran_gui/capability_transport.py` |
| `SetupWizard` | the first-run wizard, its page and its jobs | `utteran_gui/setup_wizard.py`, `settings.py`, `web/app.js` |

`MCControlStore`, `MCDispatcher`, `MCRuntimes`, `MCLiveness`, `MCSetupExecutor`,
`MCEventStream`, `MCJobDirectory`, `MCServices` and `MCEngine`, with the `MC*.cfg` files,
instantiate them for TLC. `ControlStoreProofs`, `DispatcherProofs`, `SetupProofs`,
`SetupStepProofs`, `ServicesProofs`, `EventStreamProofs`, `JobCommandsProofs` and
`EngineProofs` hold the theorems.

## 1. Inventory

### 1.1 Components

**Status tables.** No state. For each kind of operation (job, setup operation,
refresh operation) the allowed changes of status.

**Control store** (`ControlStore`). State: a SQLite file with `operations` (kind,
status, revision, recovery flag), `queue` (dispatch mode, revision),
`queue_items` (waiting with an order, or active; held and blocked flags),
`attempts` (fencing token, state, launch record), `leases` (one row per slot),
counters, and append-only tables (history, outbox, idempotent responses).
Each operation is one `BEGIN IMMEDIATE` transaction, except `recover`, which reads,
observes processes outside any transaction, and writes in a second one.
Correct if the four tables always agree, a slot has one holder, and what has
ended is not written again.

**Job commands** (`job_repository.py`). Adds snapshots, results, and the job
versions of accept, cancel, retry, block, revalidate, reorder, hold, finish.
Correct if the flags and the status agree, the order is strict, and a result
exists only of what succeeded.

**Setup store and executor.** State: plans, one-use approvals, steps, child
journals; the executor's current operation. The executor shares the heavy slot
with jobs. Hard: child processes whose intent, launch and result are journaled
one by one across crashes; a machine that changes behind the plan; waits for the
user; a cancel that races a step's result. Correct if a step never runs twice
without a decision of the user, an approval starts one operation, no child
escapes the journal, and a recorded cancel wins.

**Dispatcher.** State: one thread, the attempt it runs (`_Active`), the stop event; a
heartbeat thread per attempt. Picks a job from a hint read outside the
transaction, checks its inputs, begins an attempt, runs the worker, reports.
Correct if it never runs two workers, never frees the slot of a live one, and a
cancellation reaches the worker.

**Job runtime.** Activation (close the legacy queue, back up, recover, start the
dispatcher), deactivation and shutdown (stop, hand back).

**Recovery and process verifier.** A pure decision from what the operating system
says of the recorded owner and child.

**Worker client and worker process.** Spawn, handshake, a message loop with
timeouts, one cancel message, verification of the result, kill; in the worker a
control thread and the main thread share the terminal message. Correct if both
sides agree on how the run ended, and both end.

**Event stream.** Outbox with a compaction floor, long-lived readers with cursors,
listings for readers that fell behind, a bounded number of subscribers; a
browser that applies frames in order. Correct if no event is lost silently and
the browser comes to show the store.

**Legacy queue and job manager.** A thread and its queue, children that a supervisor
knows; closed while v1 owns the machine. Correct if the two never work at once
and a shutdown leaves no child.

**Job admission.** Input tokens, one submission at a time per key, unknown commit
outcomes, idempotent replays. Correct if a key makes one batch and a token at
most one.

**Commands of the API.** The handlers of jobs, the queue, plans and setups. Each looks for
a replay, checks the machine, and commits, in a transaction of its own with the rest of
the program in between; the client may repeat the request with its key. Correct if a
command has one effect and one answer, and acts on a check that still holds.

**Settings repository.** Compare-and-set under a lock; listings pinned to a generation.

**Store files.** The file at the path of the store: created through a temporary file
by processes that may start at once, migrated class by class, copied before.
Correct if there is never a half-made store and never a lost write.

**Job lock and manifest.** A pid lock file with removal of stale ones; the resumable
manifest of five stages. Correct if a resumed run reports what a run from
nothing would, and a completed stage is not lost.

**Transcription pipeline.** The order of the stages; a batch that goes on after a
failed file; a pool of loaded backends; memory guards; fallbacks from one
accelerator to another. **Words and speakers**: pure algorithms over tokens, words
and turns.

**Devices, native builds, models.** Files of the machine that several commands read
and write without a lock: the probe cache, build directories and their manifest,
model files and an encoder shared by quantisations.

**Capability.** Layered settings, evidence with a lifetime, the choice of an
installation; an answer that comes from a child process through pipes.

**First-run wizard.** A page, a service, a child at a time, `settings.json`.

Around these are the parsing of HTTP, probes of the environment, data schemas, the
command line, packaging and the rest of the frontend (section 6).

### 1.2 How they interact

The store is the only state the v1 components share. HTTP threads call the job commands;
the dispatcher thread, its heartbeat and the thread that deactivates the runtime
call the owner's methods with a fencing token or a revision; another GUI process
may have the same file open. Inside a process `_Active` (under a lock) and the
stop event are shared. The worker is reached by pipes, and after the death of
its parent only by its pid. The browser sees the store through the event stream
alone. The composition follows this: `SetupExecutor` extends `Dispatcher` and
`SetupStore`, both extend `ControlStore`; setup operations and jobs compete for one slot in
one state space. `Cutover` takes a v1 runtime as its states and the attempt it runs,
which is the interface `Dispatcher` offers it. The other components share files with
nobody but themselves.

### 1.3 What is hard to test

`PROJECT.json` lists it under `hazards`, each at its line with the properties that
would catch it. In short: two transactions with an observation between them; a
hint, a cache or evidence that is stale when used; a journal entry before or
after the effect it records; a crash in each such gap; cancellation that races
completion, stop that races begin, recovery that races a live owner; streams
that lose their place; and words without duration, on boundaries, or repeated.

## 2. The models

Each action stands for a whole method, handler or step between two points where
somebody else may interfere: a transaction, a file operation, a message, a lock that is
released. The comments at the head of each module say what it abstracts.

### 2.1 `ControlStore`

| variable | code |
|---|---|
| `status`, `revision`, `flag` | columns of `operations`; `flag` is `recovery_required` with its reason |
| `item` | row of `queue_items`: place, held, blocked, ord |
| `enqueueOrder` | the counter behind `ord` |
| `queueRevision`, `dispatch` | `queue` |
| `attempts` | `attempts`, a sequence indexed by fencing token (the `fencing` counter is its length) |
| `lease` | `leases`: the token that holds each slot, 0 if free |
| `known` | operations with a `job_snapshots` or `setup_operations` row |
| `results` | operations with a `job_results` row |

Each method is an action of the same name: `Submit`, `AcceptBatch`, `RetryJob`,
`StartOperation`, `CancelJob`, `SetHold`, `SetItemHold`, `SetDispatch`, `Reorder`,
`Revalidated`, `Transition` (with `_apply` as `ApplyActive` and `ApplyIdle`),
`BeginAttempt`, `RecordLaunch`, `FinishAttempt`, `FlagUnconfirmed`, `BlockJob`,
`Recover`. Their shared pieces have the names of the code's private methods:
`Record`, `QueueChanged`, `Enqueue`, `Release`, `Fenced`. A call that raises rolls back
and is a stuttering step, so there is no action for it; the guards are the
conditions under which it does not raise.

`StoreNext` lets arbitrary clients call any method at any time with any revision
and any token. What a client believes does not matter: a stale call is one
whose guard fails. `Recover(decisions)` is the second transaction; its argument
maps the tokens read in the first one to verdicts, and `RecoverStore` takes any such
map, so that every interleaving between the two transactions is covered
(a token that is no longer in the lease is "skip", as in the code).

`FencedSlots` is the store without its tables: an operation asks for the slot of its
kind, is granted it under a new token when nobody has it, yields it by ending or
being interrupted, and never asks again once it is over. `ControlStoreSlots` maps
status to phase, `lease` to holder, and the operations of `attempts` to the grants;
`KeepsPromise` says that the store implements it.

### 2.2 `Dispatcher`

| variable | code |
|---|---|
| `up` | GUI processes that exist |
| `runtime[g]` | `JobRuntime.state`, and the locals of `recover()` between its transactions |
| `loop[g]` | program counter and locals of `run_once` / `_run`, with `_Active` and the cancel event |
| `stopper[g]` | program counter and locals of `deactivate` / `stop` / `_request_cancel` |
| `owner`, `orphans` | who began each attempt, and which of those processes are dead (what `owner` and its pid tell recovery) |
| `workers` | attempts whose worker process runs |
| `unclear` | bound counter, below |

Steps are cut where another thread or process can interfere: between two
transactions, between a transaction and the publication of `_active`, between
the spawn and the journal of the worker, between the read of a job and the
transition with its revision. `loop[g].pc` goes

    down | idle -> checking -> granted -> starting -> spawned -> executing -> exited -> idle
                                  starting -> unstarted -> exited
                                  spawned, executing -> killing -> exited

`Crash(g)` may happen at any point; the worker lives on. `Kill` may fail to end the
worker. `WorkerAnswered` gives a success, a failure, or a cancellation only if
it was asked for. `DeferReport` is the terminal report given up after its
retries. `Observations` says what the operating system may answer: the truth, or
"cannot tell" (`unknown`, `pid_reused`), the latter at most `MaxUnclear` times.

`StopTimesOut` is possible where the thread may really be for longer than the
timeout: in the pre-start checks, or once an attempt has a worker. The code
between (`granted`, `starting`, `unstarted`) takes no time of that order.

### 2.3 Setup: `SetupStore`, `SetupExecutor`

`SetupStore` adds `plan`, `approval`, `link` (the row of `setup_operations`), steps and the
child journal to the tables. The methods are actions again: `ProposePlan` and
`ReplacePlan`, `ApprovePlan`, `StartSetup` and `RetrySetup` (which consume the approval),
`FinishStep`, the waits, `CancelSetup`, expiry. The API routes observe the machine just
before the transaction; the model takes both as one step.

`SetupExecutor` is `dispatch`, `_attempt` and the child runner. `machine` is what an observation
would return, and it moves: through children while they run, and `MaxDrift` times by
itself. Of a child the intent, identity and exit are journaled in separate
transactions; a crash may fall between any two, the child lives on, and so may
processes it left behind (`descendants`), which hold its pipes. `exec` holds the locals
between these steps, `doing` says what the child is really about. A cancel or the
shutdown request is honoured at the boundaries, as in the code.

### 2.4 `EventStream`

`store` is what the event stream needs of the tables: the outbox with floor and high
watermark, epoch, and a revision per operation and of the queue. `Commit` writes the
rows of a transaction, `Compact` deletes (never more than `MaxDelete`, never the newest
`KeepLatest`, never what an active operation needs), `RotateEpoch` and `Restore` begin an epoch.
A connection goes `free -> request -> checked -> counted -> stream -> ended`, one step per
await of `events_api.py`, so that a browser may leave between the count of subscribers and
the start of the body. `client` is the coordinator of `sync.ts`, `reducer` is `reducer.ts`;
frames travel on `wire` in order and are lost with their connection. `faults` bounds
what goes wrong by itself.

### 2.5 Processes and files around the store

`WorkerProtocol` has the client's thread and its timers, the worker's main and control
threads, and both pipes. Either process may die at any step. `Cutover` has the items of the
legacy queue, its thread, the jobs and their children, threads that cancel, runtimes that
open and stop, and the shutdown with its supervisor; the lock of the job manager, held while a child is
launched, makes the launch one step. A runner may raise at any point (`RunnerRaises`): its item ends as failed, its job
stays as it is, and a child it has launched lives on. `JobAdmission` has threads that serve requests,
the leader of a flight and those who wait for it, the token store, and a commit that may raise, before it was made
or after (`CommitFails`); the field `told` of a replay says whether anybody was told of its batch. A restart loses tokens
and flights, not replays.
`JobCommands` has handlers from the request to the
answer, a step per transaction and per look at the machine; jobs, the queue, plans and setups
as far as the commands read and write them; and the three tables of replays as one. A `scene` is the jobs at first and the
requests that may come. `machine` stands for all that is checked outside the store; the ghost field `ready` of a blocked job
says whether, since it was blocked, the machine was as the job needs it. A refusal is not remembered, an answer that is accepted is. The handlers that cancel, retry
and resume a setup have the shape of those of jobs, and are in `SetupStore` by what they do.
`Settings` has the file, records with revisions, replays, and senders that page through a
listing while others write. `StoreFiles` has openers of several layouts with their
temporary file and copy. A transaction of SQLite is atomic in all of them; that much of
SQLite is assumed.

`BridgeRead` has two reader threads, a writer, the child, what it leaves behind, and the
caller with its deadline. `SetupWizard` has the page with what it remembers, the service
thread, `settings.json` read in one step and written in the next, and restarts; `earned` is the set of stages that
were done, each for a profile, and `strays` are those that are recorded under another one.

### 2.6 The engine

`JobDirectory`: `manifest`, `artifact`, `lock` and processes that run, export or clean, each of which may be
killed at any step, and a run may fail or be interrupted in a stage, also after the stage was saved as done and before
the next one (`saved`, `StageEnds`). The pid of a process that is gone may be another program's (`Reused`). An artifact is
modelled as the choices it was made with, so that
"resume reports what a run from nothing would" is an equation. `Batch`: the
position in the batch, what has been done for the file at hand, the pool, and
the results; loads, readings of memory and inferences are chosen anew each time. Speakers are separated on CUDA, XPU or
the CPU, in the order of the code, and each has its budget and its retreat.

`TokenWords` and `Align` are the algorithms of the transcript, step by step as the code's
passes: bytes to pieces to words with repaired times; groups, scores and back
pointers of the dynamic programme, fragments, absorption, speakers of segments. Their
properties compare with a reference definition: the text is what the tokens
spell, and the sequence of speakers is the best of all sequences (`BestSequence`
enumerates them).

Between the two, whisper.cpp drops the words that have no duration and leaves their segment exact
(whisper_cpp.py:618), so `Align` gets segments of high quality whose words do not spell their text (`Spelled` says which do).

`Devices`: a machine whose fingerprint moves forward, the cache file, and processes
that probe, write the cache and select. A probe fails and says so, and then nothing is saved, or it hides the failure of
a kind of accelerator (`hidden`) and answers that there is none, which is saved. `NativeBuild`: source tree, build and staging
directory per variant, the manifest; a tree is removed file by file. `ModelStore`: the copies
of a model, the two files of the encoder and the names linked beside each
quantisation, commands that may be killed, or whose move, link, copy or removal may fail, between any two files or in the
middle of one. `Capability`: layers of settings, evidence with times,
evaluation at a refresh, resolution later, and what the GUI accepts.

## 3. Runs

| run | instance | question |
|---|---|---|
| `store` | two jobs and a setup operation, arbitrary clients | do the tables tell one story whatever is called, and does the store implement `FencedSlots`? |
| `runtimes` | two GUI processes, in one part with two jobs and no commands, in the other with one job, its commands, and users who stop | can two workers run, can recovery rob a live owner, is launch evidence true, does a returned runtime own nothing? |
| `liveness` | one GUI process and one job with one unclear observation; beside it one run of `WorkerProtocol`; fairness | is a cancellation answered and does it end the run, is a journaled attempt freed, do both ends of the pipes agree, is a held job ever blocked by a stale check, is `recover()` idempotent? |
| `setup` | a gated plan and its retry on one process, one drift of the machine, crashes | does one approval run one plan in order, does no child escape, does a cancel win? |
| `setup_stop` | one setup, cancels, shutdown, fairness | is a cancel answered, does success rest on fresh evidence? |
| `events` | two operations and the queue, two connections, every limit 1 or 2, one fault, fairness | is anything lost, do streams have gaps, does the browser converge? |
| `services` | `JobDirectory`, `JobAdmission`, `JobCommands`, `Settings`, `Cutover`, `StoreFiles`, `BridgeRead`, `Capability`, `SetupWizard` | the properties of section 4 |
| `engine` | `Batch`, `Align`, `TokenWords`, `Devices`, `NativeBuild`, `ModelStore` | the properties of section 4 |
| `restart_lifts_recovery`, `stop_asks`, `words`, `lock` | small instances | four statements of the documentation that the code does not keep (section 7) |

`MCServices` extends all of its components, `MCEngine` all but `Align` and `TokenWords`, which are instances, and
`MCLiveness` extends `Dispatcher` and `WorkerProtocol`: the properties the theorems are about are those of the
run, and TLC evaluates the assumptions of the theorems on its constants.

`MCLiveness`, `MCServices` and `MCEngine` put several components into one run: the first
state chooses `part`, steps are those of that part, and the other variables keep their
initial values. The state space is the disjoint union of the parts' own; no
interleaving of unrelated components is explored, and none is left out that exists.
`MCRuntimes` does the same with two restrictions of `Dispatcher`: no commands on submitted
jobs and no stop, or one job only.

Symmetry is used where the run has no liveness property and the names mean nothing: of the two processes of `runtimes`, and
of the legacy jobs and the runtimes of `Cutover` in `services`.

### 3.1 Bounds

`MaxRevision[o]` and `MaxQueueRevision` limit the revisions that *clients name*, never those that
exist: an operation may be recorded beyond the bound by its owner. A job that is
submitted (1), begun (2) and cancelled (3), or held and released, is inside
revision 3; together with recovery, which needs no revision, this reaches every
status with every combination of flags. Two jobs and one setup operation are
enough for a conflict over the slot, for an order to be permuted, and for a
batch. Two GUI processes suffice because a third could only repeat what the second does:
at most one process holds the slot, and any other is recovering or
waiting. Attempts are bounded by the number of operations and their resubmissions, which is also
what lets the temporal properties quantify over tokens.

*Setup.* One plan with its approval, an operation and its retry: a replay and a second start
compete for the approval, and a retry inherits the steps. One drift is enough
for an observation to be wrong at any one of the places that use it.
*Events.* Limits are as small as they can be, so that all of them are met: one row per page
and per listing page, one retained listing, one subscriber, two rows before compaction
may reach a reader. Two connections are what a browser can have: the present
one and one the server has not noticed is gone. *Directory.* Three processes: what a
killed one leaves, what a second does with it, and a third that relies on both. The pid of one of them may be used again.
*Files.* Two openers of different layouts, one of which copies, over files of every kind the code
distinguishes, one of them with a table of a later layout, two writes and two crashes. *Cutover.* Two legacy jobs, two runtimes, one
thread that cancels, and the shutdown. *Commands.* Two handlers, and six scenes: two keys of a
revalidation, or a revalidation and a hold, of a job that may be blocked; two keys of a retry, and a retry with a hold of
the job it makes; a cancel beside a change of dispatch; a plan with its approval and two starts. Jobs go to revision 4 (submitted, blocked, held, revalidated),
two jobs or plans may be made, and the machine has two states.
*Admission, settings.* Two threads or
senders, two keys; a listing of up to three records, a page at a time. *Batch.* Three files: before, at and
after a failure. *Words and speakers.* The inputs are listed in `MCEngine`: shared
intervals, words without duration, words missing from an exact segment, overlapping and short turns, gaps; tokens without
time, outside the segment, reversed, from DTW, and characters cut in two.
*Devices, builds, models.* One change of the machine, one probe that fails or hides a failure, two processes;
two releases and two builds; two quantisations, four commands, one kill or failing file operation.
*Wizard.* One page, two profiles, two mishaps.

`CHECK_DEADLOCK FALSE` in every configuration: with bounded commands a state in
which everything is finished, and nothing more may be asked, is a legitimate end.

### 3.2 Fairness

*Dispatcher.* The threads of a process are scheduled (weak fairness of the dispatcher
thread, its heartbeat, and the thread that stops: none of them waits without a
timeout), a worker which received the cancel message exits (`worker.py` stops at its next
checkpoint), and a user restarts an application which is closed or which shows an
attempt as `recovery_required` (the documented remedy). Strong fairness is assumed only of the
steps of an activation: attempts at it may be cut short by a crash or a busy store
any number of times, but not always. Nothing is assumed of timeouts, of a
worker that was not cancelled, or of user commands. `MaxUnclear` makes
observations truthful eventually; with an operating system that never answers, the
slot rightly stays occupied.

*Worker protocol.* The four threads run; no timer is assumed to expire, and nothing
is assumed of a process that died. *Setup.* The thread, its heartbeat and the thread that
stops run, children and what they leave behind end (each has a timeout after which it
is killed). *Events.* The tasks of the server and the browser's callbacks and timers
run, and a stream whose browser left is noticed; a healthy stream need not end, no
frame need be written, and no fault need happen.

## 4. Properties

Each property has its statement above its definition and a mutant in `PROJECT.json`:
a plausible bug of the code under which the same run refutes it.

*Store.* `SlotCoherence` (lease, status, attempt and queue item agree), `FlagsMatchStatus` (and only what
succeeded has a result), `OrderIsStrict`, the action property `HistoryIsLawful` (statuses follow the
table, what ended is not written, attempts that ended are frozen), and the refinement
`KeepsPromise`. `HistoryIsLawful` has one exception that the code makes: `block_job` accepts a held job,
although the table has no row for it; `NeverBlocksHeld` shows that the dispatcher, its
only caller, never does it.

*Processes.* `WorkerHoldsLease` (a worker runs only for the attempt that holds the slot),
`LiveOwnerKeepsLease`, `LaunchFailedMeansNoWorker` (what recovery takes as evidence),
`DeactivatedOwnsNothing`, `NeverBlocksHeld`, `RecoverIsIdempotent`, `BothAgreeOnTheEnd`, and the liveness properties
`CancelIsAnswered`, `RecoveryFreesSlot`, `CancelEndsRun`.

*Setup.* `ApprovalIsOneUse`, `StepsAreCoherent`, `NoStrayChild`, `CancelWins`, `SuccessHasFreshEvidence`, and
`SetupCancelIsAnswered`, which is liveness.

*Events.* `NothingIsLost`: as long as the server accepts the browser's cursor, whatever
the browser does not know lies ahead of it in the outbox. `StreamsAreSound`: no gap, no
stream above the limit. `Converges`: once store and faults rest, the browser shows the store.

*Services.* `ResumeIsSafe`, `CompletedStagesAreKept`; `AdmissionIsOnce`; `CommandsAreOnce` (who is told of a key is told what is remembered of it,
a repetition is replayed, a job, a plan or a setup is made by one key, and a block is lifted only from a job that was
ready since); `ListIsASnapshot`; `HandOverIsSafe`; `StoreIsSafe`;
`AnswerIsWhole`; `ChosenIsProven`; `DoneIsEarned`.
Some of these state an exception where the code makes one, by name, and section 7 has it as an observation: a batch whose commit raised
and that nobody was told of, for `AdmissionIsOnce`; the child of a runner that raised (`OneExecutor`); a stage stray since
the profile changed (`strays`); a pid that is another program's now (`DeadSeldomLockOut`); a stage undone right after its
completion was saved (`JustCompleted`).

*Engine.* `BatchIsSound`; `TranscriptIsWhole`; `RunnableIsCurrent`; `VerifiedEncoderIsCurrent`; `ChoosesWhatIsThere`.
The last two likewise: what a command that stopped amid the files of the encoder leaves (`damaged`, until the encoder is removed to the
end), and what a cached detection could not see because its probes hid a failure (`hidden`).

## 5. Proofs

For every finite set of operations, every kind and every bound, any number of processes, connections, threads,
handlers, openers, pages and files, from the named assumptions on the constants of the modules (`OpsAssumption`, `KindAssumption`
and `BoundAssumption` of the store, `DispatcherAssumption`, those of `SetupStore` and `SetupExecutor`,
`CutoverAssumption`, `StreamAssumption`, `AdmissionAssumption`, `CommandsAssumption`, `ListAssumption`,
`DirectoryAssumption`, `BridgeAssumption`, `LayoutAssumption`, `ReleaseAssumption`, `BatchAssumption`,
`CatalogAssumption`, `ReportsAssumption`, `MachineAssumption`, `FoundAssumption`, `AskedAssumption`). The last
nine say of which shape the inputs are (a release has a number, times are integers, a catalog has no entry twice, a
request for the CPU names no second one); `FoundAssumption` says in addition that a probe cache found at the path was written by such
a detection, on this machine or on an earlier one, since the code believes what it reads there. Two groups of theorems have hypotheses besides, stated with them: `SetupNoStrayChild` and
those of the job directory; what happens without them is among the findings and observations of section 7.

| module | theorem | property |
|---|---|---|
| `ControlStoreProofs` | `StoreTypeOK` | `TypeOK` |
| | `StoreSlotCoherence` | `SlotCoherence` |
| | `StoreSingleHeavySlot` | `SingleHeavySlot` |
| | `StoreFlaggedIsActive`, `StoreFinalIsFinal`, `StoreStatusFollowsTable`, `StoreEndedAttemptsAreFrozen` | the parts of `HistoryIsLawful`, and that a flag is shown only of what occupies its slot |
| | `StoreHistoryIsLawful` | `HistoryIsLawful` |
| | `StoreOrderIsStrict` | `OrderIsStrict` |
| | `StoreResultOnlyIfSucceeded`, `StoreStatusMirrorsFlags`, `StoreFlagsMatchStatus` | `FlagsMatchStatus` and its parts |
| | `StoreKeepsPromise` | `KeepsPromise`: the store implements `FencedSlots` |
| `DispatcherProofs` | `RuntimesTypeOK` | `DispatcherTypeOK` |
| | `RuntimesWorkerHoldsLease` | `WorkerHoldsLease` |
| | `RuntimesLiveOwnerKeepsLease` | `LiveOwnerKeepsLease` |
| | `RuntimesLaunchFailedMeansNoWorker` | `LaunchFailedMeansNoWorker` |
| | `RuntimesDeactivatedOwnsNothing` | `DeactivatedOwnsNothing` |
| | `RuntimesSlotCoherence`, `RuntimesFlagsMatchStatus`, `RuntimesHistoryIsLawful`, `RuntimesKeepPromise` | the store's, under the processes |
| | `RuntimesNeverBlockHeld` | `NeverBlocksHeld` |
| | `RuntimesRecoverIsIdempotent` | `RecoverIsIdempotent` |
| `SetupProofs` | `SetupApprovalIsOneUse` | `ApprovalIsOneUse` |
| | `SetupTypeOK`, `SetupLiveOwnerKeepsLease`, `SetupLaunchFailedMeansNoWorker` | the dispatcher's, with setups running too |
| | `SetupJournalNamesTheChild` | `JournalNamesTheChild` |
| | `SetupNoStrayChild` | `NoStrayChild`, of one process at a time |
| | `SetupCancelWins` | `CancelWins` |
| `SetupStepProofs` | `SetupStepsAreCoherent` | `StepsAreCoherent` |
| | `SetupSuccessHasFreshEvidence` | `SuccessHasFreshEvidence` |
| `ServicesProofs` | `CutoverHandOverIsSafe` | `HandOverIsSafe` |
| | `ListingsAreSnapshots` | `ListIsASnapshot` |
| | `ResumeIsRight` | `ResumeIsSafe`, of processes that do not overlap and settings whose hash tells their use |
| | `CompletedIsKept` | `CompletedStagesAreKept`, likewise |
| | `AnswersAreWhole` | `AnswerIsWhole` |
| | `StoreStaysSafe` | `StoreIsSafe` |
| | `StagesAreEarned` | `DoneIsEarned` |
| | `ChoicesAreProven` | `ChosenIsProven` |
| `EventStreamProofs` | `StreamNothingIsLost` | `NothingIsLost` |
| | `StreamStreamsAreSound` | `StreamsAreSound` |
| `JobCommandsProofs` | `AdmissionMakesOneBatch` | `AdmissionIsOnce` |
| | `CommandsTakeEffectOnce` | `CommandsAreOnce` |
| `EngineProofs` | `ClientAndWorkerAgree` | `BothAgreeOnTheEnd` |
| | `OnlyTheCurrentRuns` | `RunnableIsCurrent` |
| | `FilesAreIndependent` | `BatchIsSound` |
| | `EncodersAreCurrent` | `VerifiedEncoderIsCurrent`, with kills and failing file operations |
| | `DevicesAreThere` | `ChoosesWhatIsThere` |

The properties of the runs `store`, `runtimes`, `setup`, `services` and, liveness apart, `setup_stop`, `events` and
`liveness` are all among them, and those of `engine` but for `TranscriptIsWhole`.

**The store.** `TypeOK` is inductive; the interesting steps are those that append an
attempt (every lease stays a token that exists) and those that enqueue.
`SlotCoherence` splits in two halves, each inductive relative to `TypeOK`. The first,
`LeaseCoherence`, is the pair `LeaseHolderIsActive` and `ActiveHoldsLease`; neither is
inductive without the other: `Release` frees the lease that `HeldFence` finds, so
that an operation may leave the active statuses only because an active operation
is found there, and an attempt may be closed only because the lease it closes is its own.
The second, `QueueShowsStatus`, is a statement about each operation by itself, and needs
facts about the tables (`TableFacts`: only `queued` becomes `running`, and so on). The
inductive invariant is `TypeOK /\ LeaseCoherence /\ QueueShowsStatus`, and there is one lemma per
half and per group of actions, with one step per action. `SingleHeavySlot` follows
without further induction.

`StepRows` says of every method at once what it may do to one operation (`RowStep`): its status
follows the table, it is written only while its table goes on (`Open`), and its flag is
cleared or it goes on holding its slot. The invariant gets one more part,
`OnlyJobsHeld` (a setup operation is never shown held or blocked), without which a waiting setup
operation might be in a status its table does not know. The journal of attempts
has a lemma of the same kind (`StepAttempts`), which rests on `HeldIsOpen`: the attempt
through which a slot is held has not ended. `OrderIsStrict` is inductive with `TypeOK` alone:
items keep their position or leave, or take positions above the counter, or exchange
those they have. For the refinement each transaction is one of five abstract steps
(`AskStep`, `LeaveStep`, `GrantStep`, `YieldStep`, `StutterStep`); the hard one is recovery, which yields several slots
at once, each because the lease it frees is the one of an operation it interrupts.

*Calls.* The theorems of the store are proved of `CallSpec`, in which any method is called with any arguments
(`StoreCall`), and `StoreSpec`, with the bounds of the runs, is an instance of it. `RuntimesCallTheStore`
says that whatever the processes do to the store is a sequence of such calls; the theorems of the store are then those of
`Dispatcher` too, without another induction.

**The processes.** `WorkerHoldsLease` is not inductive: that a worker's attempt has the lease depends
on nobody releasing it, which depends on what every thread knows. The invariant (`BaseInv` and `SlotInv`) adds: a thread
that holds an attempt holds the slot and its process began it (`Holders`); before the spawn there is
neither a worker nor a record that there is none (`Unstarted`); what an activation has read or concluded
between its transactions does not become wrong (`Known`: a launch recorded as failed stays so,
and an attempt concluded to be abandoned has a dead owner and no worker, for good);
processes that are gone have orphaned their attempts (`Absent`); a process whose runtime is not active
has no attempt in the slot (`GivenBack`). `LiveOwnerKeepsLease` and `DeactivatedOwnsNothing` follow from `Holders` and
`GivenBack`. One lemma per action of `Dispatcher`, most of them by a few lemmas on groups of actions that
leave the store or the threads alone. `SlotInv` is kept apart from the rest because it is the part that setups with
several processes do not keep (below). For `NeverBlocksHeld` a revision that a thread has read names what it
has read (`RevisionStep`: what changes a status moves its revision on).

**Approvals.** `SetupInv` is the shapes of the tables involved, `LinksAreOfOperations` (an operation is linked only
once its row exists, and only to a plan and an approval that exist) and the property. Every step of
the executor, the dispatcher and the store either leaves plans, approvals and links alone and keeps every row, or
is one of the seven methods that write them.

**Setups.** `BaseInv` holds of `SetupExecutor` as well, since it was stated for both halves of the thread: `Holders` and
`Unstarted` list the steps of a setup too. On top comes `ChildInv`: before a child is spawned, and until its identity is
recorded, the journal has its intent. `SetupNoStrayChild` has the hypothesis that there is one GUI process on the store
(one at a time: it may die and another start, any number of times). It is needed: see the first of the observations in section 7. `SetupCancelWins` is a statement about each step: the row of a setup being cancelled is
written only by what the theorem allows. `StepsInv` is for the steps: the rows of an operation are those of its plan, and in order (`OpInv`); and of a thread in a run, which
steps before its own its attempt has done, and that none after it runs (`RunInv`). The token of the attempt in the slot
is the last one, which makes evidence "of this attempt" the freshest there is.

**The hand-over.** `CutoverInv` is types, `Ownership` (a queue that is closed is empty, and closed by the
runtime that is active or on its way), `Thread` (the item that runs is the thread's, and a child is alive only
while it waits for it, or its runner has raised), `Supervision` (a closing supervisor has every child it knew left to kill) and
`Coherent` (where a job is, by its request, its item and the thread). TLC checked it first on the instance of
`services`.

**The event stream.** What compaction has deleted is no longer in the state, yet a frame of it may still be on its
way to a browser that applies it. `StreamInv` therefore says that there is a log of events, an existentially
quantified set, which the outbox is what is left of: it is numbered, all of it above the floor is still in the
outbox (`LogOf`), every frame of this epoch on any connection is in it (`ConnOK`), and whatever the browser, or a
listing on its way to it, does not know is in it, ahead of its cursor (`Knows`). A write extends the log, compaction
keeps it, an epoch or a restored copy starts another, and then only what is of an older epoch is left to
know. The theorem follows because an accepted cursor is not below the floor. Of the order of frames nothing is needed:
`reduce()` asks for a listing at a gap. `StreamsAreSound` is the other half, with an invariant of its own, `SoundInv`: above its floor the outbox
has one event for every number (`Full`); the frames on the wire of the browser's connection follow its cursor one by one, and the server goes on
where they end (`SourceChain`); the connections that run are finitely many and not more than the places taken (`PlaceInv`).

**Admission.** `AdmissionInv`: whoever is past the join leads the flight of its key (`Leads`); a reserved token has one
request at work, and its key (`Reserves`); no batch was made of a token before its own commit (`Unused`); what is
answered `accepted` is the batch of the key; a token that made a batch anybody was told of is spent or expired. A batch counts
as told (`told`) once a commit or a replay of it has returned to a request, whose token then is consumed; one whose commit raised
stays untold until its key is tried again.

**Commands.** Every step of a handler is first described by what it does to its own request, to one job and to one plan (`HandlerDoes`,
one lemma per action), and what others do likewise (`OthersDo`); the parts of `CommandInv` are then kept
whatever the action was. They say that a request which was answered before it came is on the way to that answer; that what a
request is of is there, and is not older than the request saw it; and that a check which found a job ready is of the block the job is
still under (`CheckHolds`), because a job that has moved since has another revision.

**The worker protocol.** `ProtocolInv` orders the events by their numbers: what is on its way is what the worker has sent and
the client not received (`Stream`, `Received`), the place of an event in the protocol follows from its number, a terminal event is the
worker's last, and only a cancel that was sent makes it call its end cancelled.

**Listings.** `generation` only grows, and a revision that is appended is of the next one: it belongs to no snapshot that was
taken (`AppendKeepsSnapshots`). So `Listed(snapshot)` is a constant of a reader from its first page on, and what the reader
has is the part of it up to its cursor: the pages are the first rows after it, and the last page is the one after which
nothing is left. That a page which is not the last is not empty, so that the cursor moves, rests on `PageLimit > 0`.

**The job directory.** Nothing is proved of the manifest alone: `DirectoryInvariant` ties four things. `LockOf`: whose the
lock can be at each step of a process (a process that is alone finds only locks of the dead, and at most one of them, so
that one retry is enough, unless the pid is in use again). `MemoryOf`: the manifest in memory is the one in the file, which holds because only one process
is alive. `ManifestIsTrue`: for a stage that is done, with all before it, the recorded hash agrees with the hashes of the stages before
(`HashesAgree`) and the artifact is what that hash says (`ResultsAgree`), unless an export is being made again or was
killed (`OutputsUnsure`). `StagesOf`: what a run has passed is what its settings produce, in the file and in memory, and what it has not
reached is unrecorded or will be reused with reason (`Ready`), never of other settings. A stage that is undone after its completion
was saved keeps a true artifact under a status that is not `done`, which claims nothing. A kill leaves every part as it
is, since only `ManifestIsTrue` speaks of what stays; that is why the resume of what it left is right. Two hypotheses
are needed. `~Overlap`: with two at work the lock fails, as the run `lock` shows. `HashTellsUse`: settings with one hash are used alike;
with word timestamps `auto` they are not, as the run `words` shows, and otherwise they always are (`WhenHashTellsUse`). `services` checks both theorems under the same two, the second as an
assumption that TLC evaluates on the launches it is given.

**A question to a child.** The caller's two looks, at the events of the threads and at the process, are not atomic; what
makes them enough is `NothingLost`: while no failure is noted, what the child writes is still to come, in the pipe or
read, and a thread has finished only with its pipe empty and closed at the far end. A child that ended well has written everything
(`EndedWell`), so that all threads finished and a good exit code together mean that all was read (`CallerKnows`).

**The file of the store.** `FilesInv` has, besides the property, `BuiltInFull` (what is about to be published is a whole new
store) and, of each opener, `CopiedIn`: a file that was there stays, and who copied it has a copy with the tables it has now, or one
that the code before can open. The second case is needed because another opener may migrate between the copy and the open. That no write is lost
is a statement about each step.

**The wizard.** `DoneIsEarned` speaks of tasks that did their work, whatever page shows it and whenever it is recorded. The invariant
says that everything a task may still write is earned already (`TaskIsEarned`: its memo of the settings, its stage once it
records, the smoke test once it completes), for the profile of the settings or as a stray, and that a task under way has no unfinished one before it, which is why two children never run.

**Capability.** That the choice rests on its own, fresh evidence follows from the step alone: `Resolve` looks at the evidence
again. The comparison of times needs an invariant, `ChoiceInv`: an inventory has measured times only, and the candidates of
an answer accept the settings it was given for.

**Native builds.** `BuildInv` says of every tree that it is not of a release to come and not half-made, and that what the
manifest names was not built of an older source than the manifest is of (`BuildsAreNoOlder`). The second is what carries the theorem:
a kill between the replacement of a tree and the write of the manifest leaves a tree newer than the manifest says, never an older
one. A build under way still knows the manifest as it is (`BuildGoesOn`), and has answered for exactly the variants behind it.

**A batch.** `Counted` counts results, `Decided` fixes the device of the speakers from the decision on. That the
recogniser falls back once, from the first variant to the last, relates all results so far to the one that is loaded now: there are two
variants, the second after the first in the order of the code, such that every file was read with one of the two, and after
the second nothing was read with the first (`ReadWith`, `Recogniser`).

**The encoder.** A copy beside a quantisation may be stale for a while: between the conversion and the refresh, or when two commands
link side by side. `StaleIsCovered` says that then somebody is about to refresh every copy, is on the way to this one and will not give
up before it, or removes the encoder; when no command runs there is nobody, and nothing is stale. It rests on what a
command knows of its own step (`Relies`), on `BesideModels` and `WithEncoder` (copies are beside models, and only while there is an
encoder), and on `RemovesAlone`, which is the restriction of section 6. All of this (`ModelParts`) holds while nothing is `damaged`. A kill or
a failure outside the files of the encoder leaves it as it is (a download, say); amid them it may leave a pair of two conversions, a
name beside a model that is not of the pair, or a file cut short, and a removal that ends well clears all of it, whatever it
was, which is why the parts hold again from then on.

**Devices.** A detection whose machine did not change while it ran claims no more than there is (`Claims`), and what no probe that is
left will add is in its report already (`SaidBy`): when none is left, and none failed, the report is the truth without the
kinds of accelerator that are `hidden`. So a cache
with the fingerprint of the machine is just that (`Credible`), because only such a detection is saved under it and the machine never
returns to an earlier one; a fingerprint taken at the write would break this, and is the mutant. `ChoosesWhatIsThere` follows by
the monotonicity of the choice: what is usable of less is usable.

**Only model-checked.** `TranscriptIsWhole`: `TokenWords` and `Align` are recursive definitions over bytes, tokens and words,
and what they compute for every input needs induction over data, which no installed prover can do; they are compared with
reference definitions on the inputs listed in `MCEngine`. The liveness properties (`CancelIsAnswered`, `RecoveryFreesSlot`,
`CancelEndsRun`, `SetupCancelIsAnswered`, `Converges`) rest on fairness and `ENABLED`, which are out of the prover's reach as well.
Where a theorem has hypotheses (`SetupNoStrayChild`, the job directory), nothing is claimed of what they exclude.

## 6. Not modelled, and abstractions a reader should know

*Not modelled.* Parsing, sessions and reads of HTTP, and the handlers of the legacy API (their effect is a call of the store or of the
legacy queue, which the models take as arbitrary); probes of environment and hardware; data schemas; one-shot commands of the command line beyond
those of `JobDirectory`, `NativeBuild`, `ModelStore` and `Devices`; packaging; acceptance tools; the views of the frontend. Audio
extraction, voice activity detection, inference and compilers are external: what they return is a choice.

*Control store.* Timestamps and the advisory expiry of leases (no guard reads them), reason codes, the history.
*Recovery.* A wrong ALIVE or GONE is taken to be impossible; "cannot tell" is modelled. A launch that raises after the child
was spawned has its tree killed (processes.py:46-55); the model takes the child to be gone then, although the code does not wait for
its exit.
*Store files.* A store that is open is not checked again when a newer class migrates it (store.py:62-64): the model
lets it be. The unlink of the temporary file is one step with its publication.
*Job lock.* `--force-unlock` (the user vouches) is left out; so are a corrupt manifest and the listing of jobs.
*Native builds.* Two builds at once, and a downgrade after a crash. *Models.* Removal and preparation of an encoder are
taken not to run at once: no lock prevents it. A name beside a model is taken to be a copy where the code links if it can: a
copy goes stale, a link does not, so the model has the worse of the two. *Devices.* The machine never returns to an earlier
fingerprint; libraries, builds and selection are read as one step; a probe that hides the failure of one device of a kind is
taken to hide the whole kind. *Capability.* Evidence comes from arbitrary providers, as the
local one never makes a candidate ready. *Wizard.* Other views of the legacy page; the read and write
of `save_state` are one step.

## 7. Findings

Runs that TLC refutes, each against a statement of the repository:

1. **`stop()` can miss an attempt** (`stop_asks`). `run_once` looks at the stop event on entry and
   publishes `_active` only after `begin_attempt`. If `stop()` sets the event and reads `_active`
   in between, it cancels nothing; the worker is started and runs uncancelled until the
   timeout, while the documentation promises no new dispatch and a cooperative cancel.
2. **A restart does not lift every `recovery_required`** (`restart_lifts_recovery`). If the process died
   after `begin_attempt` and before the launch was journaled, each further activation finds
   `launch = intended`, keeps the slot, and no API releases it. The documentation's
   remedy (end the processes, activate again) holds only of journaled attempts, which
   is `RecoveryFreesSlot`.
3. **A resumed job may lack word times** (`words`). With word times `auto` the recogniser's options depend on
   whether speakers are separated, but the hash of its stage does not contain that (pipeline.py:583, jobs.py:772).
4. **Two processes may hold one job lock** (`lock`). The lock file is created empty; read before the pid is written it
   counts as stale (jobs.py:489-500).

Observations made while modelling, stated by no run. They are of the code as it is, each was read at the lines
named, and those marked * were also reproduced with the code.

*Two processes and a setup.* The second transaction of `recover()` takes a decision for an attempt by the pair of operation and token
alone (store.py:1521). If, after the first has read the journal, the owner of a setup starts a child and dies, it is found dead, and the attempt is
ended although the child runs, against the docstring (store.py:1471-1473). With two GUI processes on one store TLC finds it: `InterruptedMeansGone`
of `SetupExecutor` is violated with two members of `Guis`. With one at a time it cannot happen, which is `SetupNoStrayChild`.

*Commands.* The docstring of `revalidated` says it records the outcome of the check; a failure is written and then
rolled back by the exception that reports it (job_repository.py:685-722).

*Store and processes.* `_request_cancel` ignores a refused revision, so a launch record in between makes `stop()` leave the job
`running` and it ends `failed` (job_dispatcher.py:190). A worker that finished just before the cancel message is
written is reported as an unexpected end although it completed (worker_client.py:262, 327). A response that never
starts keeps its place among the subscribers until the restart (events_api.py:137). The queue's revision is not reset with
an epoch (a documented open question). Two threads may resolve the same inputs into two tokens. A commit that raises although it was
made releases its tokens (job_admission.py:800-802), so that under another key they make a second batch, while
docs/architecture/b7/admission-resolution.md:31-33 has them consumed when the commit succeeded.

*Setup.* Cancelling an interrupted setup leaves its step row `running`, masked only while the status is
`interrupted` (setup_repository.py:548); a waiting reason stays after a cancel. The final observation of an attempt may raise
and leave the lease with a live owner. A shutdown whose cancel loses the compare-and-set ends the setup as `failed`. A crash
during the build of a profile refuses a resume until the machine matches the plan again. After a crash recovery looks
at the direct child only (setup_executor.py:81).

*Hand-over.* A refused legacy job stays listed as "starting". A failed deactivate leaves the runtime active with its
dispatcher stopped. When the runner of a legacy job raises (a thread that cannot be started, say, jobs.py:155-164)
its item ends as failed (operation_queue.py:131-132), but its job stays as it was, running for good if it had
begun, and its child lives until the shutdown; a hand-over to v1 may succeed beside it. *Settings.* A crash between the creation of the empty file and its schema leaves a file that is refused
for ever, as documented (b5/storage.md:28-29).

*Job directory.* `jobs export` killed between the outputs and the manifest leaves outputs nobody knows of.
`JobStore.open` saves the manifest outside the lock (jobs.py:538); `clean` looks at the lock, then removes (jobs.py:650).
A stage saved as done is rewritten to failed or pending when a progress callback raises, or Ctrl-C comes, before
`_execute_stage` is left (pipeline.py:413-455), and is then computed again. The lock of a killed process keeps everybody out while
another program has its pid (jobs.py:491-497, 902-918).

*Pool.* "Return a loaded diarization backend matching the effective settings" (pipeline.py:95): when the load of B fails
(111) after A was unloaded (105), the key stays A's, and a third file with A reuses a backend that is not
loaded (101). *Calibration.* Its file is loaded, extended and rewritten through one temporary name without a lock.

*Words and speakers.* The comment at align.py:671-672 says that the fallback's boundary is kept;
`_absorb_unsupported_fragments` (721-767) does not keep it*. A tie between later speakers follows the order of a set. A token of spaces
only does not end a word (whisper_cpp_words.py:51-54). Words without duration are dropped from a segment that stays exact
(whisper_cpp.py:618), and where the segment is split by speakers its text is put together from the words that are left
(align.py:641-652): the dropped words, and the spaces between words of a language written with them, are missing from the
transcript. Segments without time are dropped or kept against the comment at
whisper_cpp.py:583-587 (571, 608-613). A named device is not kept by every path (whisper_cpp.py:67 and
docs/utteran_Phase3c_指示書.md:362).

*Devices, builds, models.* README.md:626-627 says that failures and timeouts of probes are not cached; those that fail inside the
child and are answered as "nothing there" are (_device_probe.py:60-89, native.py:203-221), until the machine changes or the user asks for a
new detection. A failed build does not keep the old one (AISTATE.md:571-573); a tree whose removal
failed stays listed. A model may count as installed though incomplete (models/manager.py:72, 334-378; AISTATE.md:3274); a kill, or a
move, link, copy or removal that fails (a file in use, say), amid the files of an encoder leaves a mixed pair or old names beside
the models that verification calls normal (openvino.py:76-77, 97-111, 153-159), until the encoder is removed to the end; a cancelled download is never probed
later (AISTATE.md:3866).

*Capability.* bridge.py:66 says more of the models in an answer than capability_inventory.py:145-158 checks.

*Wizard.* A job of the old profile that ends after the profile was changed adds its stage to the new one
(setup_wizard.py:617-624), although a change of the profile is to discard what was completed (AISTATE.md:2480, tests/test_setup_wizard.py:472). A crash between recording the smoke test and completing leaves a wizard that
cannot be completed after the restart (setup_wizard.py:261-271, 607-611). A cancel between hand-out and launch ends the job twice.
After an error the page can only retry, and its poller never rejects when the server is gone.

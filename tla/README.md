# A TLA+ model of the job runtime, its processes, database and chat

The repository is a network-forensics service: an API accepts packet captures
and telemetry, a Celery worker analyses each upload as a *job*, and a
supervisor process keeps jobs and workers honest; analysts then chat about a
job. This directory holds TLA+ modules that model the job runtime, what a run
does with its captures, how its processes are contained, how the database is
adopted and rolled back, and the turns of a chat; TLC configurations that
model-check them on small instances; and proofs that TLAPS checks for every
instance. Paths below are relative to `src/backend/app/` unless they start with
`src/` or `docs/`.

## 1. The system

### Parts, their state and how they interact

| Part | Code | State it keeps | Operations |
|---|---|---|---|
| Job row | `models/job.py`, `services/job_runtime.py`, `services/job_lifecycle.py` | one SQL row per job: status, delivery identity (task id, run token, attempt), executor identity, heartbeat, escalation lease, accepted manifest | conditional `UPDATE ... WHERE`; the row count says who won |
| Job API | `api/jobs.py`, `services/job_lifecycle.py` | none of its own | create, cancel, re-analyse, rerun, delete |
| Dispatch | `services/job_dispatch.py` | the progress of one call | assign a task id, publish, record success or failure |
| Broker | Celery and Redis (external) | messages not yet acknowledged | deliver at least once; acknowledge late; return the message of a lost worker |
| Worker | `worker.py` | the call stack of one `execute_job` | claim, prepare, register, analyse, finalize; resolve and clean up after an exception |
| Execution control, fence | `pipeline/runtime_control.py`, `database_v2.py` | cancel file, ownership-lost event, heartbeat thread | beat, checkpoint, stop; refuse commits of a worker that lost the row |
| Supervised processes | `pipeline/sensor_process.py`, `bluescrub/isolation/launch.py`, `bluescrub/isolation/runner.py` | sessions of child processes; one launch receipt per session in the run's `control/` | launch, publish an identity, drain a session, reap a run, stop an executor |
| Run directories | `pipeline/run_artifacts.py` | one private directory per run, the accepted manifest in the row | create, accept, clean up |
| Runtime supervisor | `runtime_supervisor.py` | two loops | escalate overdue cancellations; expire silent rows and reap expired runs |
| Pipeline | `pipeline/orchestrator.py`, `pipeline/outcomes.py`, `sensors/registry.py` | evidence tables, stage outcomes | stage, ingest, sensors, correlation, reports |
| Phase staging | `pipeline/job_dir.py` | staged captures | stage, find by label |
| Telemetry | `pipeline/telemetry_pipeline.py`, `pipeline/bundle_stager.py` | an error budget | normalise records, give up above the budget |
| Event stream | `services/job_service.py`, `events.py` | subscribers | publish progress, poll status, end the stream |
| Retention | `services/cleanup.py` | none | delete old rows, then their directories |
| Schema bootstrap | `schema_bootstrap.py`, `schema_cli.py` | the database file, `schema-backups/`, `schema-receipts/`, candidates beside the database, a lock file | adopt (back up, migrate a copy, replace), roll back, settle what an earlier operation left open |
| Chat | `api/chat.py`, `services/chat_comparisons.py`, `services/mnemos_evidence_receipts.py` | conversations, messages, branches; receipt files; generator tasks in memory | post a turn (plain or streamed), repeat it, end an expired one, branch, delete |

An API process (one event loop; handlers do not yield, but other processes act
between their queries), several worker processes (one call at a time each:
concurrency 1, prefetch 1, `task_acks_late`, `task_reject_on_worker_lost`) and
any number of supervisors share the row, the run directories and the processes
of the worker's container. They talk through the row only: no part holds a lock
across two steps, so every read may be out of date when its update is made, and
the `WHERE` clause of the update is what protects it.

### What is hard, and what makes each part correct

* **Identity.** At-least-once delivery, a publication that raises although the
  broker took the message, and re-analysis of the same row must never make one
  dispatch execute twice, nor let an old handle fit a new execution.
* **Who ends a job.** The worker, its error path, an escalation (with or
  without a registered executor), reconciliation and a late publisher all write
  terminal statuses. Exactly one must win, an ended job must not hide a process
  that still works, and a granted cancellation must not become a success.
* **Stopping the right process.** A supervisor reads an identity, then stops
  it; meanwhile the row may have a new owner.
* **Artifacts.** An interrupted worker and a reaper remove private directories;
  readers resolve accepted ones. A commit that raised may have been accepted.
* **Progress.** Crashes, failed stops and expired leases must leave the job
  claimable by somebody until it ends.
* **Captures and outcomes.** Captures are attached at any time, labelled late,
  share labels and are staged again by every run: none may be lost or mixed up.
  Stages fail and the run goes on: what depended on them must not run, and the
  outcome must say what is missing.
* **Containment.** Handlers fork, launch and exit while somebody lists them;
  a stop or a final reap must not report success while a process of the
  execution lives or can still come to live.
* **Replacing the database.** An adoption is ten file operations, any of which
  may fail or be the last before a crash; the next operation has only the files
  to tell what happened, and programs must not lose the file under their feet.
* **Chat turns.** A turn spans three awaits. Its client repeats it, its lease
  runs out, its conversation is deleted and created again under the same name,
  the commit of its answer raises with or without effect: still one question,
  one answer, the same for all who ask, and the dialogue sent to the model must
  alternate.
* **Sequential logic worth checking later.** The telemetry error budget.

Every hazard with its line and the properties that watch it is under `hazards`
in `PROJECT.json`.

## 2. Modules

| Module | What it is |
|---|---|
| `JobRow` | the row and each conditional update: `CanX` is the `WHERE` clause, `X` the row that `VALUES` leaves. Operators only, no variables. |
| `JobRuntime` | one job and everyone who acts on it: API calls, dispatch, broker, worker executions, supervisors, clock. One action per SQL transaction or external effect. |
| `JobLifecycle` | what the API promises of a row, without saying who writes it. `JobRuntime` implements it (`LifecycleSpec`). |
| `JobRuntime_proofs` | theorems about `JobRuntime`, checked by TLAPS: types and identities. |
| `JobRuntimeSafety_proofs` | theorems about `JobRuntime`, checked by TLAPS: what is stopped, what is accepted, and the refinement of `JobLifecycle`. |
| `MCJobRuntime` | constant values for TLC; the six `JobRuntime_*.cfg` are its instances. |
| `PhaseAnalysis` | `run_pipeline` over the captures of one job: attach, stage, select, run stages and sensors, derive the outcome; the first run and the labelled re-analyses after it. |
| `PhaseAnalysis_proofs` | theorems about `PhaseAnalysis`, checked by TLAPS. |
| `ProcessContainment` | the processes of one execution: launches with receipts, the drain as a loop of scans that processes may slip through, `reap_run_processes` and `stop_executor`. |
| `ContainmentPromise` | what the verdicts of the reap and of the stop mean for the sessions of an execution. `ProcessContainment` implements it (`ContainmentPromised`). |
| `ProcessContainment_proofs` | theorems about `ProcessContainment`, checked by TLAPS. |
| `MCProcessContainment` | who launches whom, for TLC; `ProcessContainment_containment.cfg` and `ProcessContainment_double_fork.cfg`. |
| `DatabaseContent` | what the bootstrap tells databases apart by. Operators only. |
| `SchemaBootstrap` | adoption and rollback step by step, recovery, the programs that hold the schema lock. |
| `DatabasePromise` | what the bootstrap promises of the one database. `SchemaBootstrap` implements it (`DatabasePromised`). |
| `SchemaBootstrap_proofs` | theorems about `SchemaBootstrap`, checked by TLAPS. |
| `MCSchemaBootstrap` | symmetry for TLC; `SchemaBootstrap_adoption.cfg`. |
| `ChatLog` | the messages of a conversation and the queries on them. Operators only. |
| `ChatTurn` | the POSTs, leases, failures, branches and deletions of one job's chat. |
| `ChatTurn_proofs` | theorems about `ChatTurn`, checked by TLAPS. |
| `MCChatTurn` | `ChatTurn_turns.cfg`. |
| `MCPhaseAnalysis` | its labels for TLC; `PhaseAnalysis_staging.cfg` and `PhaseAnalysis_phase_selection.cfg`. |

`PhaseAnalysis` looks inside what `JobRuntime` treats as one stretch of work
(`pc = "working"` up to `PipelineReturns` or `TaskRaises`): there, who may run and
whether the result is accepted; here, what the result is. Runs of one job follow
one another in `PhaseAnalysis`.

### How `JobRuntime` corresponds to the code

`map` in `PROJECT.json` gives the lines of every definition. The variables are

* `job` – the row; `disp` and `broker` – dispatch calls and unacknowledged messages;
* `pc`, `taskOf`, `attemptOf`, `local`, `flag` – one `execute_job` call per run:
  its next step, the handle it captured, its local variables, and the two flags
  its checkpoints look at;
* `child`, `files` – a supervised child process and the private directory;
* `spc`, `seen`, `reap` – per supervisor the escalation it is working on, the
  row it read for it, and the expired run it is reaping;
* `delSeen` – a delete request between its check and its write;
* `acked` – history: runs whose cancellation a user was granted.

`pc` follows `execute_job`: claimed → prepared → registered → working →
stopping → finalizing → ended; every exception leads to `interrupted`, then to
`resolve`, `resolving`, `reread` and `cleanup`. `spc` follows `cancel_once`:
idle → read → claimed → stop → stopped → complete, with `failed` beside it.

### How `PhaseAnalysis` corresponds to the code

* `rows` – the `JobPcap` rows in the order of their ordinals; `adding` – an
  `add_job_pcap` request between its status check and its insertion;
* `input`, `labels` – the job's `input/` directory and `pcaps.json` in it, which
  outlive a run; a name is the sanitised label (`Stem`) with the ordinal appended;
* `kind` – execution profile, and whether telemetry comes with the captures;
* `pc`, `run` – a run's progress and its locals: captures asked for and still to
  be linked, files selected, position in the plan of tools, result of each tool,
  required and optional failures, the outcome.

A tool completes or fails; a timeout is a failure. Its output directory exists
once it has run, however it ended. All later enrichment is one action
(`Enrich`) that may add failures of each kind the code records: correlation and
telemetry input are required, everything else optional. `Raises` is an
exception that leaves `run_pipeline` (a checkpoint, the database). A file stands
for the capture it was made from: a copy that is cut short, which the next run
takes for whole (`job_dir.py:91`), looks like any other. The suffix of
a capture and the `pcap.pcap` link, which no tool reads, are left out. Ordinals
count from one here.

### How `ProcessContainment` corresponds to the code

* `proc`, `session` – the state of each process in /proc and its session; a
  handler (or analyzer) leads a session of its own, a forked process stays in
  its parent's, whatever it does to its process group;
* `stage` – whether a launched process is still `launch.py`'s bootstrap or
  has been executed; `record` – its receipt: none, `launching`, or its identity;
* `launch` – the thread in `run_tracked_process` (for a handler) or the call of
  `run_analyzer` inside a handler (for an analyzer, which checks no cancellation and
  takes no lock); `tracked` – `_children`;
* `reap`, `stop` – `reap_run_processes` and `stop_executor`;
* `drain` – one `drain_processes` loop each for a launch, the reap and the
  stop: what the last listing of /proc held, the last set found all stopped,
  and whether the last scan was empty. `made` and `evaded` belong to no variable
  of the code: they tell which listed processes have forked or launched since, and how
  many scans of this drain, in a row, a process has slipped through (see the bound
  below).

A scan is two steps, listing and reading, because processes act in between;
reading and signalling what was read are one. `stop_executor` has one deadline for the whole stop,
`ProcessGroup.stop` one for each session: `GivesUp` may happen on any pass.
Left out: the TERM sent first and its grace period (it only lets processes exit,
which they may do anyway); a reused pid or a lost identity, which every reader
answers with a conflict that ends the drain like its deadline does; zombies.
The branch of `main` that waits for its own receipt finds it published,
since the bootstrap published it before the `exec`. A process that is stopped
ends only by a drain's KILL, not by itself.

In `ContainmentPromise` a session is new, live or over: it is live while a process of
it works, and a handler's is new until its bootstrap has executed the handler. The
two verdicts are `reap.pc = "done"` and `stop.pc = "proved"`.

### How `SchemaBootstrap` corresponds to the code

* `source`, `bytes` – the database file: its content, and whose candidate it is
  to the byte (what `_file_sha` compares; `_is_original_source` compares content);
* `backup`, `candidate`, `receipt` – the files of each operation; a receipt also
  remembers the content it replaces and the one it installs;
* `pc`, `target` – how far `adopt_legacy_database` (`target = None`) or
  `restore_database_backup` has come;
* `exclusive`, `serving` – the holders of the schema lock;
* `image` – the deployed image, which decides the Alembic head;
* `installed`, `disturbed` – history.

`Fail` is an exception and runs the `finally` clause, `Crash` is a killed process and
does not. A fresh database is one without tables. A `verify` only reads. What adoption checks about
its candidate (row counts, keys, foreign keys) is `Migrated` keeping the rows.
A worker whose lock times out is taken to end, as the API and the supervisor
do; the code raises in a Celery signal handler (`worker.py:27`), and whether
Celery then ends the process is outside this repository.

### How `ChatTurn` corresponds to the code

The API is one event loop in one process (`docker-compose.yml`), so the code
between two awaits is one step; `call` holds a POST's place among them.

* `open`, `log`, `origin` – `ChatConversation`, `ChatMessage`, the provenance of a branch;
* `receipts` – evidence receipt files; `expired` – leases that are over;
* `call` – handlers, and for streams the producer task, which outlives its client;
* `told`, `inherited`, `orphaned` – history.

`Begin` is everything up to the await of `prepare_chat_turn`; `Admit`,
`AdmitKnown` and `AdmitRefused` are `_admit_user_turn` after it; `Persist`,
`GenerationFails` and `CommitFails` what follows the model's answer. A repeated
request is answered in one step (`Poll`). A conversation without an identifier gets the
one computed from job and request, so roots are named by requests, and a
deleted root may come back under its old name. Numbers are positions: a
conversation is deleted as a whole, so its sequence numbers have no gaps. The answer's
text, citations and prompts are left out; a request that is repeated with
another text is refused and changes nothing.

### What is abstracted in `JobRuntime`

* One job: rows of different jobs share nothing. `rerun_job` makes a new job.
* The executor columns are written and cleared together, hence one field.
  `completed_with_errors` is `completed`: no update distinguishes them. A NULL
  and an empty manifest are both `{}`.
* Time is three booleans in the row (`aged`, `forceDue`, `leaseUp`), set by the
  clock at any moment and reset where the code writes the column behind them.
  The comparison of `escalation_started_at` in the lease update is covered by
  `escToken` and `leaseUp`.
* `claim_cancel_escalation` is two steps (read, then compare and swap) because
  that is where it can go wrong. `_resolve_interrupted` likewise. Where a
  first read has no effect that a later guard does not repeat (the
  scan before the escalation's read, `reap_stale_runs`' row list), it is merged
  into the later one; so is the final re-read with its own update.
* A dispatcher that dies, a message that is lost and a user who does nothing are
  actors that take no further step.
* Commits the fence lets through change evidence only and are no step; those it
  refuses are (`CommitRefused`).
* A flag set after the last place that looks at it is not kept (`Looking`).
* Containers are left out: no registered sensor runs in one. An exception inside
  `_resolve_interrupted` has the effects of `Crash` followed by the end of the
  call. Heartbeats that arrive while a call is stopping or resolving only
  refresh a column that nobody then reads in time to matter, and are left out:
  the row may age in those steps although the thread still beats, which allows
  more behaviours, not fewer.
* A supervised process is one flag per run: launched, exited, drained;
  `ProcessContainment` is what makes that flag true.

## 3. What is checked

Deadlock is not checked since a job that has ended and whose users are quiet is
simply finished.

| Run | Instance | Shows |
|---|---|---|
| `cancel` | 1 dispatch, 1 run, 2 supervisors, cancellation | `TypeOK`; `SettledMeansStopped`: whoever ends the job, the run it names neither works nor has a child alive; `CancelNeverAccepted`; `LifecycleSpec`, the refinement of `JobLifecycle`. Two supervisors are enough for a lease to be taken over while its first holder still acts. |
| `reanalysis` | 2 dispatches, 2 runs, 1 supervisor, re-analysis and deletion | `OneExecutionPerTask`, `AttemptsDistinct`, `AcceptedRunsKept`, `NoHealthyRunStopped`, and `LifecycleSpec` over re-analyses and deletions. The two dispatches are of different phases, so that a manifest has an entry to keep. Two generations of a run exist at once: the expired or finished first one and the re-analysis. |
| `liveness` | 1 dispatch, 1 run, 1 supervisor, cancellation | `ActiveEnds`, `UndispatchedEnds` under `FairSpec`. |
| `staging` | 3 captures, at most 2 per job, 3 labels of which two are spelled alike once sanitised, profiles `triage` and `standard` | `TypeOK`, `EveryCaptureStaged`, `CompletedIsComplete`, `NoSensorOnBrokenStage`. Two rows are enough for a shared label, a late label and a full job; `deep` has the tools of `standard`. |
| `containment` | executor, handler, analyzer, one forked process; no drain is evaded by two scans in a row | `TypeOK`, `Receipted`, `ReapProof`, `StopProof`, `DrainProves`, and `ContainmentPromised`, the refinement of `ContainmentPromise`. The shortest chain in which a boundary is published by a process that is itself being stopped. |
| `adoption` | 3 operations, 2 programs, 2 rows, 2 images | `TypeOK`, `OnePending`, `ReceiptsTruthful`, `RecoveryDecides`, and `DatabasePromised`, the refinement of `DatabasePromise`. Three operations: one that is adopted, one that takes it back, one that finds what they left. |
| `turns` | 2 requests, 2 branches, 2 POSTs at a time, at most 2 turns | `TypeOK`, `Alternating`, `OneTurnPerRequest`, `AgreedAnswer`, `ReceiptsBacked`, `ReceiptsTrue`, `BranchHistoryFixed`; `TurnsEnd` under `Fairness`. Two POSTs race for one request or for one conversation; two turns let a question follow an answer, be branched at and be deleted. |
| `delete`, `phases`, `orphans`, `phase_selection`, `double_fork` | as small as the counterexample allows | five disagreements, see below. |

`cancel`, `reanalysis`, `staging` and `containment` take one to three minutes each with two
workers (one to two million distinct states); runs are symmetric in `reanalysis`,
never where liveness is checked; the other runs take under a minute.
No instance both cancels and re-analyses (with a supervisor that is too large for TLC), and none
dispatches one phase twice; there the theorems of section 4 are what holds, which
know no such bounds (`OneRunPerPhase` is only proved).
Nothing else bounds the state of `JobRuntime`:
attempts are bounded by the number of dispatches, there is no counter.

A process slips through a scan (`Slips`) if it forks or launches after the scan has
listed it and is dead before it is read: the scan sees neither it nor its
child. `MaxEvasions` bounds, for each drain, how many of its scans in a row this
may happen to; between a scan that nobody slips through and the next there is no
limit. `drain_processes` asks for two empty scans in a row "to prove no live members
remain": that is enough if no two scans in a row are evaded, which is what the run
shows for this instance and the theorems for every one. The code does nothing to
enforce the bound; `double_fork` is what happens at two (see below).

Every property has a mutant, defined beside what it mutates: a plausible slip of
the code (a dropped guard, a missing reset, a swapped value) that violates it.

### Fairness

`FairSpec` assumes nothing of users, API processes, broker or workers, with one
exception: a pipeline in progress returns or raises (`WF` on
`PipelineReturns \/ TaskRaises`), which Celery's soft and hard time limits
enforce. Supervisor loops are weakly fair: `docker-compose.yml` restarts the
process (`restart: unless-stopped`) and each loop starts again after any
exception. A supervisor may die and its stops may fail any number of times but
not for ever: a persistent identity conflict is by design left to an operator,
and would keep a job in `canceling`. There is one supervisor, as in `docker-compose.yml`:
two of them could take a cancellation from each other for ever, if every lease runs
out before its holder acts, which no fairness of the clock excludes. (A lost claim returns the loop to where a
death would put it; such steps are the loop at work and are not limited.)
Reconciliation and the clock go on.

`ChatTurn` assumes that leases run out (`WF` on `Expire`: the clock) and that
somebody asks again for a turn it was told is pending (`WF` on `Poll`: the loop
in `frontend/src/components/ChatPanel.tsx:254`). It assumes nothing of handlers, producers and models, which may hang or
die at any await.

### Where the code and what it says disagree

1. **`delete`** – `api/jobs.py:366-374` refuses to delete an active job on a
   status it read before, and writes without the condition. A worker that claims
   the job in between has it deleted while it runs.
2. **`phases`** – `services/job_lifecycle.py:115` and the design document keep
   the manifest of earlier phases across a phase re-analysis;
   `finalize_owned_job` and `reconcile_stale_jobs` clear it for every outcome
   but success.
3. **`orphans`** – the design document's acceptance criteria say that a resumed
   old worker leaves no supervised child running; a re-analysis clears the run
   token by which the reaper would find the expired run.

4. **`phase_selection`** – `api/jobs.py:505` says a re-analysis runs on just the
   captures with its label. The phase run looks for files named exactly like
   the label (`orchestrator.py:545`) while staging names them
   `<label>-<ordinal>` (`job_dir.py:89`): it selects nothing (or the one file a
   job keeps from before there were ordinals), both stages fail for lack of a
   capture, and the run ends `completed_with_errors`, so that its empty results are
   accepted in place of the phase's earlier ones. The tests of the
   selection put files named by the bare label there by hand.
5. **`double_fork`** – `runner.py:348` says that a drain proves that no live members
   remain, and line 246 that session membership survives a double fork. A process
   forks after /proc was listed and exits before it is read, its child does the
   same during the next scan: both scans are empty, the drain returns, the
   grandchild lives. In the trace TLC finds this makes a supervisor's stop report
   success. The window is the milliseconds of two scans.

Smaller ones, noted and not run: a sensor whose input is another *sensor* runs
although that one failed (`capa` after `file_triage`, `orchestrator.py:694`: only
failed stages count as broken), where the design document (line 119) wants every
declared dependency to have succeeded; the design calls the error of an expired row
"interrupted by worker loss", the code "Worker heartbeat expired"; a message
that is published, recorded and then lost leaves its row queued for ever, since
reconciliation expires queued rows only while `dispatched_at` is NULL.

## 4. What is proved

`JobRuntime_proofs` holds for any sets of dispatches, runs and supervisors; its
only assumption is `ConstantsOK`.

* `TypeCorrect` – `Spec => []TypeOK`. Types alone are not inductive: a
  registration writes the handle's token into the executor column, which
  must not be NULL; a finalization writes the outcome a call holds, which must be
  one a row may have; a supervisor kills the run its reap names. `TypeInv`
  therefore adds `OwnerKnown`, `OutcomeKnown` and `ReapKnown`. The row's updates have a lemma
  each, the calls, supervisors and other actors one lemma per group that says
  which variables its actions leave alone.
* `ExecutedOnce` – `Spec => []OneExecutionPerTask` – and `AttemptsUnique` –
  `Spec => []AttemptsDistinct`. Both follow from one invariant, `IdentityInv`:
  a dispatch identity is spent from its assignment on (its call is no longer
  idle or merely called), every claimed run's task is spent, the row names its
  latest claimant as long as it carries that claimant's task, and no attempt
  exceeds the row's counter. Only assignment, re-analysis and claim touch these; a lemma for each, and
  one for all the others.

`JobRuntimeSafety_proofs` adds two invariants, on the same assumption.

* `NothingOutlivesItsJob` – `Spec => []SettledMeansStopped` – and
  `SupervisorsSpareTheHealthy` – `Spec => []NoHealthyRunStopped` – from `StopInv`.
  A run only moves on (`Ages`), so one that has halted stays halted unless it
  owns an active row (`HaltedStays`), and one that no longer owns a running job
  never does again (`NoRestart`: only a claim makes an owner, and it is a run's
  first step). `RowInv`: a queued row has no token, the executor is NULL or the
  token's own run, and a run that can work and owns an active row *is* its
  executor; so a row without executor may be ended without stopping anything.
  `SeenInv`: what a supervisor read is of a run that will not run again; from
  its claim on, as long as it holds the escalation, the executor it read is the
  row's; past the stop, that run is dead. `ReapInv` says the same of a reap.
* `AcceptedRunsStay` – `Spec => []AcceptedRunsKept` –, `CancellationsHold` –
  `Spec => []CancelNeverAccepted` – and `PhasesHaveOneRun` – `Spec => []OneRunPerPhase` –
  from `AcceptInv`: an active row's owner is not accepted yet, a run whose cancellation was granted does not run, and a
  call past its pipeline that still owns the running job holds a manifest of
  itself and of accepted runs of other phases. The manifest is built from an
  older read; it is still right because nothing is accepted in between.
* `RuntimeKeepsThePromise` – `Spec => LifecycleSpec`, with `StopInv`, `AcceptInv`
  and `IdentityInv`: `StepMaps` takes each update of the row to an action of
  `JobLifecycle`, everything else leaves the four abstract variables alone.

`PhaseAnalysis_proofs` holds for any captures, labels and profiles. It assumes
`LabelsOK` and `NamesOK`; the second says that no label is another label followed
by an ordinal, which matters to files staged before there were ordinals and
bounds what is claimed of such jobs.

* `RunTyped` – `Spec => []TypeOK`.
* `Staged` – `Spec => []EveryCaptureStaged`. `NamesInv`: a name with an ordinal
  holds the capture of that row, since appending is injective and rows keep the
  label they are staged under (`RowsKept`); `StagingInv`: each capture asked for is
  still to be linked or done; and what is done stays done (`DoneKept`).
* `DependencyRespected` – `Spec => []NoSensorOnBrokenStage`, from `ResultsKnown`:
  only tools the run has passed have a result, so a stage cannot fail after a
  sensor has run on it.
* `CompletedHidesNothing` – `Spec => []CompletedIsComplete`, from `CleanInv`: as long
  as no failure is recorded, every tool passed has completed on a selected
  capture. It needs `Staged`'s invariants for the captures of a first run, and
  that a skipped sensor implies an earlier failure (`NeedsEarlier`).

`SchemaBootstrap_proofs` holds for any operations, programs, rows and images. It
assumes `NoneAssumption` (`None` is no operation and no content) and
`ImageAssumption` (images are numbered from one).

* `BootstrapTyped`, `OneReceiptOpen`, `ReceiptsTell` and `CrashesAreDecided` –
  `[]TypeOK`, `[]OnePending`, `[]ReceiptsTruthful`, `[]RecoveryDecides`. `IInv` joins
  who holds the lock (`LockInv`), what a receipt says of the two databases it names,
  which differ in their schema, so that no write makes one look like the other
  (`ReceiptInv`), what the database file is while a receipt is open – the installed
  candidate or still the original (`FileInv`), and what each step of an operation has
  already checked and made (`StageInv`).
* `BootstrapKeepsItsPromise` – `Spec => DatabasePromised`. Only the replacement,
  the writes of a program that holds the lock, and opening and closing are seen in
  the abstract database.

`ChatTurn_proofs` holds for any requests, branches and POSTs. It assumes
`MaxTurnsAssumption` and `DistinctAssumption` (identifiers of roots, branches and
`None` differ).

* `ChatTyped` – `[]TypeOK`.
* `ConversationsAlternate`, `RequestsAskedOnce`, `AnswersAgreed`, `ReceiptsHaveFiles`,
  `ReceiptsAreEvidence` and `BranchesKeepTheirPrefix` for the six invariants of the
  run `turns`. Every step is quiet, asks, answers or deletes (`Effect`), and a message
  that fits the end of a log keeps the log in order (`JoinKeepsLog`); a question is
  admitted only if no other is open, an answer stored only over a pending one. On that
  rest what callers were told (`ToldInv`), which files exist (`FileInv`), who has
  asked (`RequestsSaid`) and what a branch took over (`BranchInv`).

`ProcessContainment_proofs` holds for any handlers, launched by the executor or by
one another in any way, and any forked processes. It assumes `LauncherAssumption`,
`BoundAssumption` and `DistinctAssumption` (the names of processes and drains differ).
`TypeInvariant` – `[]TypeOK` – needs no more. The others have the hypothesis
`MaxEvasions <= 1`, without which they are false (see the bound in section 3).

* `DrainInv` says why two empty scans suffice. While a scan is read, either all that
  lives in its scope was listed, or something that was listed has made another; in
  that case the reading finds the maker, unless it is dead and has slipped through.
  So after an empty scan that nobody slipped through nothing lives in its
  scope, and while nothing lives nothing is made; two empty scans in a row are not both
  evaded. The scope is one session for a launch and for the reap, the whole
  execution for the supervisor, which lists only sessions whose receipts it read.
* `DrainsProve` – `Spec => DrainProves`: only a return ends a drain that was reading
  (`DrainOver`), and a return is over a quiet scope.
* `ReceiptStays` – `[]Receipted`, from `ReceiptInv`. `RecordInv` says how receipt, launch
  and bootstrap go together – nothing runs before its launch called `Popen`, a
  living leader has a receipt, a published one was launched – and `TargetInv` that each
  drain belongs to the thread that runs it and drains a session that was launched.
  A receipt is removed only where a drain has returned, hence over a quiet
  session, and since every session is launched once it stays quiet. Conversely a supervisor that
  found no pending intent has read a published receipt for all that lives, so its
  listing is complete.
* `ReapProves` – `[]ReapProof` – from `ReapInv`: once the receipts
  are read, every session that works is among those still to be drained. None is added because `cancel.requested` is written first:
  a bootstrap reads it after it has published itself.
* `StopProofHolds` – `[]StopProof`.
* `ContainmentRefinement` – `Spec => ContainmentPromised`. `WorkInv` adds that nobody
  works in a session whose bootstrap has not executed, and `AtInv` that a session
  being drained by the reap is still among those to do; each step then begins a
  session, ends some, gives a verdict or stutters.

Model-checked only: liveness under fairness (`ActiveEnds`, `UndispatchedEnds`,
`TurnsEnd`; `ENABLED` is out of the prover's reach). Every invariant, action property
and refinement that a passing run checks is also a theorem. That `ProcessContainment`
justifies `JobRuntime`'s one `child` flag per run is an argument, not a theorem: a
worker that has drained and a supervisor whose stop succeeded set the flag to FALSE, which is
what `ReapProves` and `StopProofHolds` say of a finished reap and a proved stop.

## 5. Plan

The invariants and refinements of all five state machines
are proved. What would come next, in this order:

1. **`JobRuntime`'s `child` flag** as a formal abstraction of `ProcessContainment`, by one
   interface (root, child, verdict) that both are shown to keep to.
2. **`EventStream`** (subscribe, publish, poll, end) and **`TelemetryBudget`**.
3. Retention as an action of `JobRuntime`; the evidence tables behind the fence as
   state; the telemetry-only, binary and source branches of `run_pipeline`.

Not modelled: correlation, theories, ranking and reports (sequential text and number
processing inside one transaction); the knowledge base, retrieval, prompts and the
comparison with MNEMOS (external models and services) and chat requests without an
identifier, which nothing repeats; uploads beyond job creation; the parsers,
trainers and command-line tools around the service; and the frontend, which only
displays the status.

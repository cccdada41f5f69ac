# Verification of Otherlight

Otherlight simulates transits of exoplanets and moons. It has an interactive
education profile (browser, iPhone, Mac), and a scientific profile in which a
local Python service runs reproducible jobs and stores their artifacts. This
directory holds TLA+ modules for the parts of it that keep shared state under
concurrency, the TLC configurations that check them on small instances, and
TLAPS proofs for every instance.

Contents: 1 the system, 2 what is modelled, 3 the runs, 4 fairness,
5 what is proved, 6 findings and observations, 7 what is only checked and what
is not modelled, 8 the plan, 9 how to run it.

## 1. The system

Paths are relative to the repository; `S/` stands for
`services/science/science_backend/`, `B/` for `apps/browser/src/`, `A/` for
`apps/apple/`.

### Forward job service: `S/api_service.py`

- State: job records with status, result and two events (`jobs`), the futures,
  the outstanding counter, the list of settled records, the closed flag, all
  under one `RLock`; below it a `ThreadPoolExecutor` with its work queue.
- Operations: `submit`, `status`, `result`, `cancel`, `close` on HTTP threads;
  `_execute`, promotion and failure recording on a worker; `_future_done` on
  whichever thread finishes the future (worker, canceller or closer).
- Interacts with: the HTTP handlers, the executor (its own `_shutdown_lock`),
  the artifact writer and cache, the clients that poll it.
- Hard: two locks taken in both orders; the same job settled by several threads;
  slots and records accounted for across every failure; close against everything.
- Correct when: slots are exact and come back, a terminal state is final, an
  artifact exists exactly for a success, the retained records are the right ones,
  close returns and leaves nothing, and clients see the contract of `JobContract`.

### Artifact directory: `S/artifact_cache.py`, `S/api_artifacts.py`, `S/artifact_store.py`

- State: artifacts under content addresses, writer temporaries, a `flock` held by
  the service or by the cleanup command, the set of active writers.
- Operations: open, stream and publish (`write_arrow`, `publish`), the verified
  read, `remove_selected`, close; the process can be killed anywhere.
- Hard: files outlive the process that accounts for them; a writer is registered
  after its file exists; a reader holds a descriptor while names are replaced.
- Correct when: a published artifact is whole, the quota holds and refuses only
  what does not fit, no temporary is lost track of or removed under its writer.

### Dataset registry: `S/api_v2_dataset_registry.py`

- State: datasets, their total size and use counts under a lock; an import slot.
- Operations: `import_dataset` (two critical sections around a freeze), `get`,
  `using`, `delete`, `close`.
- Hard: less than it seems. The slot admits one import at a time, and no job of the
  service enters a `using` block yet.
- Correct when: counts, bytes and uses agree with the table, a duplicate import
  gives the same dataset, close waits for imports.

### Research store: `S/research_store.py`

- State: one SQLite database, shared by service processes.
- Operations: `put` inside `BEGIN IMMEDIATE`, reads and reference checks.
- Hard: several processes; a quota computed from a count.
- Correct when: the quota holds, references are pinned and resolvable.

### HTTP surface: `S/api_http.py`, `S/api_v2_http.py`, `S/api_v3_http.py`, `S/api.py`

Routes, origin and content checks, JSON bodies, and a lifespan that closes the
services. No state of its own beyond the components above.

### Browser science workspace: `B/presentation/science/scienceWorkspace.ts`, `sciencePolling.ts`, `B/infrastructure/science/client.ts`

- State: `capabilitiesReady`, `currentJobId`, `activeRequest`, three buttons.
- Operations: refresh, run (submit, poll within a budget, fetch), cancel; a change
  of profile (`shell/profileSwitch.ts`) refreshes or cancels whatever the buttons say.
- Hard: handlers interleave at every `await`; a newer one aborts an older one; a
  late answer or `finally` meets state that is no longer its own.
- Correct when: a job the page knows of stays cancellable, a superseded handler
  changes nothing, the result shown is the latest run's, the buttons tell the
  truth, the controls never stay busy.

### Browser dataset workspace: `B/presentation/science/scienceDatasetWorkspace.ts`

Import, list and delete against the registry; the same request pattern.

### Chromatic sampling: `B/application/runtime/chromaticSampler.ts`, `B/infrastructure/workers/chromaticWorkerAdapter.ts`, `B/composition/chromatic.worker.ts`, `B/presentation/playback/chromaticOverlay.ts`

- State: one active and one pending request, a generation, a rate-limit timer, a
  worker with its own generation; the overlay's series and its snapshot for "Undo".
- Operations: compose, clear, restore, suspend, dispose; the worker's messages, the
  timer, the continuation after the await.
- Hard: answers of an older generation, a worker that fails, a timer that delays
  another request than the one it was set for.
- Correct when: the overlay shows samples of its own runtime only, the worker works
  only for the active request, and the latest request is sampled in the end.

### Scenario authoring: `B/presentation/scenario/` (`scenarioFlow.ts`, `scenarioControls.ts`, `applyParams.ts`, `dirtyGuard.ts` and their neighbours)

- State: the mode and scenario controls, the form with its quick controls, the
  mark "Unapplied changes" and the confirmation it leads to, the session's
  parameters, runtime, defaults and labs, the offer to retry.
- Operations: context changes with the confirmation, edits, quick apply, submit,
  reset, retry; opening a workspace file and Back (next entry) go the same way.
- Hard: an apply may throw half way, handlers roll back, and the rollback is itself
  an apply that may throw.
- Correct when: the session is always one scenario's as a whole, a failed operation
  restores what played, and unapplied edits never lose their mark unnoticed.

### Workspace restore, persistence and startup: `B/presentation/workspace/`

- State: the saved document, the URL, the learner's responses and whether they are
  saved. Operations: open, save, autosave, Back, the first load.
- Hard: a restore changes controls before the apply that may fail.
- Correct when: a failed restore leaves the session as it was, and unsaved responses
  are only dropped with the learner's knowledge.

### Playback session: `B/presentation/playback/`, `B/presentation/render/lightCurve/lightCurve.ts`

- State: time, running, the requested animation frame, the live trace (a ring
  buffer with cached extremes and index arrays), the fixed preview with its cache
  key, the histories, comparisons, one level of "Undo clear".
- Operations: the frame, reset, seek, jump, switches of tracking and plot mode,
  visibility, a rebuild of the runtime, clear and undo, comparisons.
- Hard: each handler invalidates by hand what its change makes stale; a frame may
  throw; "Undo" brings back state of an earlier moment.
- Correct when: everything plotted is of the current runtime, trace and histories
  end together, a preview that is shown is the one its key describes, and a running
  visible page always has a frame to come.

### Page lifecycle and wiring: `B/composition/`

Builds these components, connects their callbacks and disposes of them.

### Apple runtime and education session: `A/App/Runtime/SimulationRuntime.swift`, `A/App/Models/EducationSession.swift`, `EducationSessionRuntime.swift`

- State: an actor with one pending request, a drain, a cached series and an activity
  revision; a main-actor session with generation, series and activity revisions, the
  frame, the histories, the playback task.
- Hard: messages to the actor overtake each other; a calculation outlives a pause or
  the scenario it was made for; a cancelled playback loop may have one more turn.
- Correct when: what is exported belongs together, and an active session gets the
  frame of its newest generation.

### Apple scientific coordinator: `A/MacApp/ScientificRunExecuting.swift`

One detached run with an identity test; a replaced run must not publish.

### The rest

Education physics (`B/domain/simulation`, `A/Packages/OtherlightCore`), scientific
propagation (`S/forward_dynamics.py`, `S/dop853_collision_audit.py`,
`A/Packages/OtherlightScience`), contracts and validation (`contracts/`,
`S/api_contract.py`, `S/research_validation.py`), rendering, build scripts and the
demo. See section 7.

How they interact: the browser reaches the service over loopback HTTP only; the
service's workers call the propagation and hand its batches to the artifact
writer; registry and research store are read by jobs while HTTP threads change
them. Inside the page, scenario authoring rebuilds the runtime, which resets the
playback session and the chromatic overlay; the frame loop drives the overlay. The
science workspace shares nothing with them but the profile switch. The Apple apps
share no state with the others.

## 2. What is modelled

| Module | Part | Kind |
|---|---|---|
| `JobContract` | what the job service promises a client | abstract specification |
| `ScienceJobs` | the job service, its executor and close | detailed specification, refines `JobContract` |
| `ArtifactCache` | artifact directory, writers, readers, cleanup, kills | specification |
| `ScienceWorkspace` | the browser's job client | composed with `JobContract` |
| `ChromaticSampling` | overlay, sampling queue, adapter and worker | specification with liveness |
| `LightCurveBuffer` | the ring buffer of the live trace, and the plain sequence it stands for | operators and their reference |
| `LightCurveSession` | frame loop, trace, preview, comparison, clear and undo | specification, uses `LightCurveBuffer` |
| `ScenarioSession` | controls, form, applies with their rollbacks, restore | specification |
| `EducationSession` | the Apple session and its actor | specification with liveness |
| `ScienceJobsProofs`, `ScienceContractProofs` | theorems about `ScienceJobs` | proofs |
| `ArtifactCacheProofs`, `ScienceWorkspaceProofs`, `ChromaticSamplingProofs`, `LightCurveSessionProofs`, `ScenarioSessionProofs`, `EducationSessionProofs` | theorems about the module each is named after | proofs |
| `MC...` | instances for TLC | |

Mutants: a definition that `PROJECT.json` lists as the `as` of a mutant is a
plausible bug in the definition it follows or is named after. It is part of no
specification; it is there to show that the property it is listed with can fail.

### ScienceJobs

One action is one critical section of the service's `RLock`, or one step a worker
takes outside it. The lock is a variable only where the code keeps it across
another lock or a loop: `submit` holds it while it calls `executor.submit`, `close`
while it marks jobs.

| Code | Model |
|---|---|
| `self.jobs` | `known`, `state`, `results`, `terminal`, `cancelRequested` |
| `self._terminal_job_ids` | `terminalIds` |
| `self._futures`, `self._outstanding_jobs` | `futures`, `outstanding` |
| `self._closed` and how far `close` is | `closing` |
| executor: futures, queue, threads | `futureState`, `workQueue`, `workerAt`, `workerJob` |
| artifacts moved into place by a job | `published` |
| `submit` | `SubmitAdmit`, then `SubmitHandOver` or `SubmitRollback` |
| `cancel` with `Future.cancel` and its callback | `Cancel` |
| `_execute` | `ExecuteBegin`, `RunnerReturns`, `ExecuteRaises`, `ExecuteDies` |
| `_promote_artifact` | `Promote`, `PromoteRefused` |
| `_record_execution_failure` | `RecordFailure` |
| `_future_done` | `FutureDone`, and inside `Cancel` and `ShutdownDrains` |
| `close` | `CloseBegin`, `CloseCancels`, `CloseMarked`, `ShutdownBegin`, `ShutdownDrains`, `ShutdownDrained`, `CacheClose` |

What a run computes, the payload, time stamps and the text of errors are left out.
A run ends well, raises, or dies of something `_execute` does not catch; deadline,
budgets and quota are reasons to raise. The executor is modelled from how the
service uses it and is marked external in the map. Its one failure below that
interface, a worker thread that cannot be started, is left out (see the hazards).

### ArtifactCache

The directory is a function from artifacts to their size and one from temporary
names to theirs; `owner` is the holder of the `flock`. A writer creates, registers,
writes, publishes, unregisters and unlinks in separate steps, since each is a
separate system call or critical section and other threads run in between. A size
counts batches. `ServiceKilled` drops every thread and the lock at any moment and
leaves the files. Path checks, symbolic links and permissions are left out, and one
call of `remove_selected` is a sequence of unlinks that may end anywhere.

### ScienceWorkspace

A call is one run of an asynchronous handler and an action takes it from one await
to the next. `at` says which await, and with it which request is in flight; `reply`
is the answer on its way. The page is single threaded, but it rejects aborted awaits
in microtasks before it handles a click or an answer: `Quiet` says that none is
left, and user actions and answers wait for it. The page's `startRequest`,
`finishRequest`, `setBusy` and `abortActiveRequest` are operators of those names.
The service is `JobContract`, driven by the page's requests, by other clients, by
its own progress, by its close and by restarts that forget every job. A request
can fail before it is served or after (a lost answer). The clock is left out: the
budget may run out after any answer that is not terminal.

### ChromaticSampling

Queue and adapter call each other synchronously and form one record, `queue`; their
methods (`Sample`, `Drain`, `QueueRequest`, `QueueConfigure`, `QueueStop`,
`SamplerStop`) are operators from record to record, with the settled calls of
`sample()` beside it. Actions are what really interleaves: the page's calls
(`Compose`, `Clear`, `Restore`, `Suspend`, `Dispose`), the timer, the worker and its
messages (`WorkerHandles`, `WorkerAnswers`, `WorkerFails`), and `Resume`, the
continuation of `execute` after its await. The 100 ms between two starts are one
bit, `hot`. A series is the runtime and the times it was sampled for; values and
bands beyond on or off are left out. Posting to the worker works or throws.

### LightCurveBuffer and LightCurveSession

`LightCurveBuffer` follows the array code of the trace: samples with a start
offset, compaction, the cached earliest and latest index, truncation. Beside it
stand the sequence it means (`AbstractPush`, `Truncated`), which the session keeps
as `loop.history`, so the run compares the two after every step.

`LightCurveSession` has one action per event of the page (`Frame`, `ToggleRunning`,
`VisibilityChange`, the two selects, `ResetClicked`, `Jump`, rebuilds, clear, undo,
comparisons); the frame-loop controller's methods (`Reset`, `Seek`, `SetRunning`,
`RebuildFixedPlot`, `RecordSample`, `ShouldRebuild`, `ShouldSample`, ...) are
operators on the record `loop`. A sample is its time, runtime, plot mode and whether
its flux in that mode is finite: the trace and the preview take finite samples only
(`pushFinitePlotSample`), the histories take every one. The histories that are always
pushed together are one, the physical one. The settings inside the preview's key
follow from runtime and mode, so the key has those two and the generation.

What goes wrong with a runtime is in its `faults`: the times at which a step throws
(`bad`), those at which the measured flux is not a number because they lie in a data
gap (`gaps`), and those whose exposure reaches a time that throws, so that the measured
flux cannot be computed (`smeared`). Who meets a fault decides what becomes of it. A
frame falls back to the physical flux, a preview fails with a warning, a reset falls
back in a gap, and a reset or a seek at a smeared time throws out of the handler
(`SamplingThrows`): a seek leaves the trace as it was and the histories truncated, an
apply is rolled back with the new runtime in place, as in `ScenarioSession`.
`loop.overrun` records that a seek has gone back into a gap; it is kept for
`TraceEndsHistories` and decides nothing. Drawing, readouts, the noise itself and
annotations are left out.

### ScenarioSession

A handler is one action. It awaits only promises that are already settled, since
the runtime's `prepare()` awaits nothing, so no other event can come in between (and
the queue of `withScenarioApplyGuard` never has a waiter). `ends` says how the rebuild
ends: it works, it throws before `setSimulation` (early), or it throws in the reset
after it (late), which only a scenario in `Fragile` does, one whose exposure at time 0
cannot be computed. What a handler restores then depends on how far its nested applies
had come (`ApplyScenarioParams`, `ApplySource`, `ApplyBinaryLab`), and no rollback
restores the runtime (`RolledBack`): `session.torn` records for the properties that the
runtime is that of a failed apply. `controls` are the select elements,
`form` the parameter form, `session` what the apply replaces, `guard` the
confirmation. Parameters are the scenario they come from and an edit: its own, a
changed value, a turned observer; a form may also hold an edit that does not
validate. `RequestContextChange`, `Discard` and `KeepEditing` are the dirty guard;
`Submit`, `QuickApply`, `ResetParams`, `RetryClick` the form;
`RestoreBrowserHistory` and `RestoreWorkspace` come from the workspace;
`WriteResponse`, `SetHypothesis` and `RevealSky` are the learner's work in a lab.

### EducationSession

A main-actor method of the session is one action. It reaches the actor only through
unstructured tasks, so what is on its way is a set, `mail`: two tasks arrive in
either order. The actor's `drain` gives the actor up while the detached calculation
runs and while the outcome is delivered, hence the stages `draining`, `calculating`,
`delivering`. A scenario stands for the accepted scenario with runtime mode and
substeps; a history is the set of scenarios its samples came from. A scenario is
accepted in two ways: `SelectScenario` (`selectScenario`, `restore`) resets the draft
first, which shows `empty` or `ready` until a request says otherwise, and
`ChangeScenario` (`setRuntimeMode`, `applyDraft`) leaves draft and display alone;
`ResetDraft` is the Revert button. `late` is a
cancelled playback loop that had already woken from its sleep; several at once are
left out. `answered` and `stopped` are kept for the properties and decide nothing.

## 3. The runs

| Run | Instance | Shows |
|---|---|---|
| `science_jobs` | 3 jobs, 2 workers, 2 slots, 1 retained record | accounting, records, artifacts, deadlock freedom, end of close, refinement of `JobContract` |
| `science_jobs_queue` | the same | finding: the executor's queue exceeds the limit |
| `artifact_cache` | artifacts of 1, 2 and 3 batches, quota 2, writer limit 2, 2 writers, 1 reader, 3 temporary names | whole artifacts, quota, temporaries |
| `artifact_cache_quota` | the same | finding: abandoned temporaries exceed the quota |
| `artifact_cache_reader` | the same | finding: a present artifact answers 404 |
| `science_workspace` | 2 jobs, 2 slots, 2 handlers at once | the client's safety, and the turn always ends |
| `chromatic_sampling` | 2 runtimes, 2 sets of times besides the empty one, 4 calls of the page | the overlay shows its own runtime, the worker serves the active request, the last request is sampled |
| `light_curve_session` | a trace of 2 samples, times 0 and 1, 2 runtimes, the second with faults, 3 preview generations | ring buffer against its reference, trace, histories and preview belong together, frames keep coming |
| `scenario_session` | 1 preset, 1 catalog entry whose reset can throw, the binary lab, 2 contexts for Back, 2 files | failures restore, the session is one scenario's, unapplied edits keep their mark |
| `scenario_retry` | the same | finding: a late failure does not preserve the runtime that played |
| `scenario_open` | the same | finding: opening a file drops responses that should stay |
| `education_session` | 2 scenarios, 2 generations by operations and ticks, 2 series, 2 changes of activity | exports belong together, an active session gets its newest frame |

Why the bounds are enough to be interesting. Job service: three jobs exceed the two
slots and the one retained record, so capacity refusal, eviction of a record whose
worker still runs, and a job that waits in the queue behind both workers all occur;
two workers allow two settlements at once, and close can meet any mix of queued,
running and finishing jobs. Artifact directory: the quota fits one artifact of two
batches or two of one, the third artifact exceeds the writer's limit, and both
writers may produce the same artifact; three temporary names allow one abandoned
file beside two live ones. Workspace: two handlers
allow a run whose late cancellation is under way beside a newer run with another job,
or a refresh that takes the turn of a run; numbers of finished handlers are used again,
so the history is unbounded. A third handler would be one more that has lost its turn
or one more cancellation, and a third job one more that nobody holds; the five safety
properties are theorems for any number of both. Safety and liveness are checked in one
run, so without symmetry.

Chromatic sampling: two runtimes make a late answer of a replaced one possible, and
four calls one active, one pending and one superseding request with a clear, a
restore or a suspension between. Light curve: the ring buffer's cases (append,
append out of order, trim at the capacity, the compaction that the trim leads to,
truncation) need no more than two samples kept and one more; two runtimes, so that
something stale can exist; the first is without faults, and the second has a time that
throws, one whose exposure reaches it and one free of both, or lies in a gap throughout
and is without faults in the physical mode. From generation 3 on
only a frame that stays in it, the clearing of a comparison and what does not invalidate
still happen; a comparison invalidates twice, so after a rebuild its end leads beyond,
and "Undo" can meet a key two generations old. Its state is otherwise unbounded in time, and `MaxTime`
is where the clock stops. Scenarios: the state is finite without a bound on the number
of steps; a preset, a catalog entry and the binary lab are three scenarios, enough to
roll back to one other than the one that failed, or to the same with another edit; only
the catalog entry throws late, so that every one can be rolled back to. Education: a suspension and the resumption after it can
overtake each other, with requests of two generations before, between and after;
requests made by resumptions come on top of `MaxGen`.

Symmetry is declared for writers and temporary names in `artifact_cache`; nothing in
the module tells them apart.

Deadlock is checked in every run but `chromatic_sampling` and `education_session`,
which come to rest when the bounded number of calls is used up and everything is
answered, as the page and the app do when nobody touches them. In `ScienceJobs` the only state without another
step is the closed service (`Rest`), so any other stop is a deadlock; in
`ArtifactCache` somebody can always open the directory, and in `ScienceWorkspace`
the service can always be restarted, so there the check says little and
`RequestEnds` says what matters.

The properties are stated, with the code they are about, at the end of each module.

## 4. Fairness

- `ScienceJobs`: threads run. `submit`, once it holds the lock, returns (WF). A
  worker's steps have strong fairness, because its critical sections wait for an
  `RLock` that promises no order but is free again and again. `close`, once begun,
  goes on (WF). Nobody has to submit, cancel or close. A run is finite since the
  runner and the writer poll a wall-time deadline.
- `ScienceWorkspace`: a request is answered or fails (WF: loopback HTTP; `fetch` has
  no timeout of its own, so a service that accepts and never answers would hold the
  turn), the page handles what arrives (WF), and a poll that is repeated for ever
  ends (SF: every poll takes time and the budget is finite). The user and the
  service's progress are not fair: the turn must end even if the job never does.
- `ChromaticSampling`: a timer that is set fires, the 100 ms pass, the worker handles
  and answers what was posted to it, and a settled promise is continued (WF each):
  the event loop, and a sampling of finitely many times. Neither the page's calls nor
  failures are fair; `RequestServed` asks for the samples of what was asked last, as
  long as the bands are on and the overlay is not suspended, disposed of or failed.
- `EducationSession`: every task arrives, a calculation ends, and what waits for the
  main actor gets its turn (WF each): tasks and actors are scheduled, a series has
  finitely many samples. Nothing is assumed of the user, of the host's reports or of
  the playback clock.
- `ArtifactCache`, `LightCurveSession`, `ScenarioSession` and the safety theorems
  assume no fairness. Their handlers end by themselves; that a frame is always
  requested is the invariant `FrameRequested`.

## 5. What is proved

Every theorem is about the specification the runs check, for every value of the
constants, from the named assumptions of the module and nothing else. The pattern is
the same everywhere: an invariant of a run is seldom inductive alone, so `IndInv`
adds what the steps need; TLC checks `IndInv` on the run's instance first; then one
lemma per action (or per group of actions with the same effect) shows that the action
keeps it, and the theorems follow from it.

### ScienceJobs

`ScienceJobsProofs` and `ScienceContractProofs` prove, for every set of jobs, pool
of workers and limits that the constructor accepts (`ConfigAssumption`, the only
assumption), that `Safety` implies

- `TypeCorrect`, `SlotsAreExact`, `ArtifactsOfSuccessOnly`, `LocksNeverCross`,
  `RecordsAreRetained`, `CloseLeavesNothing`: the invariants that the run checks;
- `TerminalStays`: the action property `TerminalIsFinal`;
- `ContractSafety`: `Contract!Safety`, the safety half of `ImplementsContract`.

None of the invariants is inductive alone. That `outstanding` counts the futures
needs to know that a callback runs once for each future, which needs the state of
the future and the place of its worker, which needs to know that no two workers
hold the same job, and so on. `IndInv` collects what is needed:

- `LockInv`: who can hold the lock in which phase of `close`, and with which job;
- `EventInv`: the events and the result follow the job's state;
- `WorkerInv`: a busy worker has a job, and no two have the same;
- `FutureInv`: the future's state, the work queue, the worker's place and the
  registration in `futures` determine each other;
- `SlotInv`: the counter, from the registered futures and the admission under way;
- `RecordInv`: the records, the list of settled ones and their limit;
- `CloseInv`: what each phase of `close` has already achieved.

There is one lemma per part (`TypeStep`, `LockStep`, ..., `CloseStep`) with one step
per action, so each part assumes the whole of `IndInv` and proves itself. The parts
of a step that several actions share are lemmas about the helpers
(`RecordTerminalHistory`, `JobEffect`, `SlotStep`, `QueuedAfterPop`). `Inductive`
puts them together. TLC confirmed `IndInv` on the run's instance first.

For the refinement, `RunInv` adds that a job whose worker has taken it is running or
terminal; then each step maps to `Admit`, `Start`, `Settle`, `Stop` or a stutter of
`JobContract` (`AdmitMaps`, `StartMaps`, `SettleMaps`, `ClosedStep`).

### ArtifactCache

`ArtifactCacheProofs` assumes `CacheAssumption`: limits are positive, artifacts have a
size and are finitely many (their names are SHA-256 digests). Writers, readers and
temporary names may be any sets. Proved are all six invariants of the run:
`TypeCorrect`, `NoTemporaryLost` (`TempsAccountedFor`), `ArtifactsAreWhole`
(`StoredIsComplete`), `QuotaHolds` (`StoredWithinQuota`), `RepublicationFits`
(`KnownArtifactFits`) and `RefusalsAreJustified` (`RefusalIsJustified`).

- `WriterInv`: without an owning service every writer is idle, and two writers never
  hold the same temporary. Everything a kill breaks is mended by it.
- `ActiveInv`: a temporary is registered exactly while a writer is between the two
  ends of `active_writer`.
- `TempInv`: what is abandoned is no writer's, so neither a cleanup nor a later
  owner's open takes a file from under its writer; and temporaries are finitely many.

The quota is a sum over the files. The first part of the module proves what sums over
finite sets do when one summand changes (`SumUpdate`, `StoredChange`). An induction
over sets is needed once, for the existence of the fold (`SumExists`); as a theorem
with an operator parameter cannot be instantiated, `SubsetInduction` states it with a
set, from the well-foundedness of strict inclusion.

### ScienceWorkspace

`ScienceWorkspaceProofs` assumes `WorkspaceAssumption` (a natural number of calls,
`NoJob` is no job); jobs may be any set. Proved are all five invariants: `TypeCorrect`,
`JobsAreTracked` (`KnownJobTracked`), `TurnsAreExclusive` (`RequestsExclusive`),
`ResultIsLatest` (`ShownIsLatest`) and `ButtonsTellTheState` (`ButtonsAtRest`).

- `JobInv`: which job a call at each await knows of. The id in the answer to a POST
  belongs to nobody else until the page has read it.
- `ReplyInv`: what an answer on its way still says when it arrives, though the
  service has moved on: a terminal state is final, a success has its artifact.
- `CancelInv`: the service cancels a job once, so two deletions that were carried out
  are of different jobs. Without it a late answer could clear a newer `currentJobId`.
- `TurnInv`: who has the turn, and what the buttons say meanwhile.
- `CurrentInv`: a call that may still change the page works on the job of the page.

The service moves between any two steps of the page. `Evolves` says what the page may
rely on whatever the service did; the transitions of `JobContract` and a restart are
each shown to be such an evolution, so the lemmas about the page's handlers never look
into the service.

### ChromaticSampling

`ChromaticSamplingProofs` assumes `ChromaticAssumption` (at least one runtime, a
natural number of calls); sample times may be any set. Proved are all three
invariants: `TypeCorrect`, `WorkerIsExclusive` (`WorkerServesActive`) and
`OverlayIsOfTheScenario` (`ShownMatchesScenario`).

The invariant is a predicate of a queue and its calls, as the queue's methods are
operators on that pair. Each method has a lemma that says what it keeps and leaves
behind, and an action composes two or three of them.

- `IdsInv`: a request id is given once, so an answer names one request.
- `ActiveInv`: the active request is of the adapter's generation, has a call that
  will end it, and the timer is off meanwhile.
- `WorkerInv`: the worker holds the active request, alone or behind the configuration
  it needs, or the answer to it, or nothing.
- `AnswerInv`: once an answer has settled the active call, nothing of it is under way.
- `OverlayInv`, `ClearedInv`: what is shown, and what "Undo" would show, is of the
  runtime the overlay is configured for; what is still under way will be of it too,
  or is dropped by the generation.

It follows that the test for an answer in the queue's continuation always succeeds for
the active request: the early return is for the others only.

### LightCurveBuffer and LightCurveSession

`LightCurveSessionProofs` assumes `CapacityAssumption` (the trace keeps at least one
sample) and `SessionAssumption` (the two trackings and the physical plot mode exist,
a preview's times are integers in order and no more than the trace keeps, faults are
sets of times, the bounds are natural numbers). Proved are all six invariants, `TypeCorrect`,
`BufferIsReference` (`BufferMatchesReference`), `TraceIsOfRuntime` (`TraceOfRuntime`),
`TraceIsTheirEnd` (`TraceEndsHistories`), `KeyIsHonest` (`KeyDescribesPlot`),
`FrameIsRequested` (`FrameRequested`), and the action property `PreviewIsKept`
(`UnchangedFramesKeepPreview`).

The proof has three layers.

- Folds. `Restore` pushes samples one by one and `Truncated` keeps some of a sequence
  one by one; both are `FoldLeft`. `FoldExists` shows that a fold is the last of a row
  of intermediate results (`RestoreSteps`, `TruncatedSteps`), about which induction
  over the row speaks. Like `SubsetInduction` above, the induction rule
  (`Induction`) is stated with a set.
- The ring buffer, for any capacity. `Cached` says what its fields mean: the samples
  from the offset on are in order of time, `count` is their number, and each cached
  index is absent or resolves to an extreme. `PushIs` and `TruncateAfterIs` show that
  the array code, with its in-place compaction, trim and rebuilt indices, computes
  `AbstractPush` and `Truncated`; `CachesRight` that the extremes it answers
  are those of the samples it holds.
- The session. An event calls several methods of the controller, and between two of
  them less holds than between two events; hence `Loose` and `Shown`. Every method
  has a lemma, from `RequestFrameIs` to `FrameShown`, and every action one that
  composes them.

`IndInv` adds to the invariants of the run:

- samples, histories, key, preview and range are of the current runtime, and the range
  is of the mode it is kept for (`OfSim`), whether or not a key exists;
- a key exists only in fixed tracking, beside the preview, the samples and the range it
  was made for (`KeyRight`): no way out of fixed tracking leaves it behind;
- nothing in the trace is later than the loop's time unless a seek has gone back into a
  gap (`TraceRight`). With it, a sample of the present is pushed at the end and leaves
  the trace the end of the finite samples of the histories. `Matches` says how far the
  two agree: a gap fills the histories with samples that the trace does not have;
- a frame is requested if the page runs and is visible, and none is if it is hidden
  (`Sched`);
- what "Undo clear" would bring back satisfies the same for the present runtime,
  generation and time (`Kept`), or has expired: `AgedRight` shows that every later
  event either leaves it so or makes the snapshot expire.

### ScenarioSession

`ScenarioSessionProofs` assumes `SessionAssumption` (there is a preset, and addresses
and files have the shape that the code reads them into). Proved are both invariants,
`TypeCorrect` and `SessionStaysConsistent` (`SessionIsConsistent`), and both action
properties, `FailuresRollBack` (`RollbackRestores`) and `MarkIsHonest`
(`UnappliedIsMarked`).

`SessionIsConsistent` is inductive with the types. The argument is about the nested
applies: `ApplySourceLoads`, `ApplyBinaryLabLoads` and `ApplyActiveLoads` show that an
apply ends with the whole session loaded from one scenario, or throws with the session
as it was before but for the runtime, and with that too if it throws early, also when it
throws inside another. `RollbackRestores` follows. `UnappliedIsMarked`
speaks of a step, and is proved beside the induction, handler by handler.

### EducationSession

`EducationSessionProofs` assumes `EducationAssumption` (a default scenario, natural
bounds). Proved are both invariants: `QueueIsTended` (`TypeOK`, which says also that
what is on display fits the frame, and that a waiting request has a drain to take it)
and `ExportIsOfTheScenario` (`ExportIsCurrent`). The part of it that is about
`canExport` speaks of the macOS menu, which is disabled without it
(`OtherlightWorkspaceToolbar.swift:153`); the iOS menu (`:110-115`) is not, and
exports whatever frame and histories there are. The part about the histories holds
for both.

- `SeriesInv`, `ResumptionInv`: the activity reports on their way are not newer than
  the activity, and a resumption is on its way to the actor or back, never both.
- `GenerationInv`: so every activity revision makes at most one generation of its own.
  This is what bounds the generations when suspensions and resumptions overtake
  each other.
- `RuntimeInv`: a waiting request is tended, and a calculation has a request.

## 6. Findings and observations

The five violation runs are disagreements between a document and the code; the
text in `PROJECT.json` quotes the lines.

- The docstring speaks of a bounded queue. The limit bounds unfinished jobs; the
  executor's queue also holds cancelled ones and grows while every worker is busy.
- The service's README limits artifacts and abandoned temporaries together to the
  quota. Nothing is compared when a killed service's temporaries become abandoned.
- The README says when a download answers 404. It also does when another job
  publishes the same artifact between the reader's open and its `fstat`.
- A comment says that a workspace file without Guided Lab state leaves the learner's
  responses in memory. The apply that opening goes through replaces the didactics
  runtime, and with it the responses, before the early return the comment is about.
- The status of a failed apply says that the last valid simulation is preserved
  (`applyParams.ts:118`). The reset belongs to the apply and runs after the new runtime
  was installed and the old one disposed of; in measured mode it computes the exposure
  at time 0, and what that throws (`frameLoopResetSeek.ts:177`) is caught by the
  rollback of `scenarioFlow.ts:380`, which restores the parameters and all that goes
  with them but not the runtime. Retrying fails again while measured mode stays on; the
  next apply that works puts things right.

Observed while modelling the workspace, without a document that says otherwise: a
poll that fails, or is aborted by a refresh, leaves `currentJobId` set, which is right
while the job lives (`KnownJobTracked`); only a successful DELETE clears it, so once
the job has ended or is forgotten (409, 404) the run button stays disabled until the
page is loaded again. `ButtonsAtRest` holds: the button follows the state. And a job
whose submission is cancelled in flight runs on, as the page never learnt its id.

The other sessions showed the following, on which the documents are silent or vague.
The models do what the code does, and the properties are stated so that they allow it.

- Chromatic sampling: restore (`chromaticOverlay.ts:91`) and suspend (105) ask again
  for the last times even if there are none, so an empty series can replace the last
  one that was shown.
- Light curve: a comment (`frameLoopResetSeek.ts:258`) says that the histories must
  match the trace after a backward seek. A seek to a time at which the runtime throws
  sets the time and leaves before they are truncated; when playback goes on from there,
  the next sample truncates the trace alone and the histories keep the later points.
  A seek to a time whose exposure throws leaves after the histories are truncated and
  before the trace is. Hence the first conjunct of `TraceEndsHistories`: without it TLC
  finds counterexamples: with a runtime whose exposure at 0 throws and that has no other
  fault, or with `MaxTime = 3`, `MaxGen = 5` and one that throws at 1.
  A seek back into a data gap truncates the histories and pushes nothing to the trace,
  which would truncate itself on the push (the comment expects one), so the trace shows
  points later than the time until a sample outside the gap comes; `overrun` excludes
  it. In fixed tracking the
  plot is the preview, and a jump leaves the histories of the dynamic samples before
  it alone (the property excludes fixed tracking). Reset and an apply
  of a paused session draw nothing, because `setRunning(false)` cancels the frame just
  requested. After a fixed preview that failed, going back to dynamic while paused
  leaves the plot empty. A lab's comparison that replaces a radius comparison does not
  invalidate the preview, hence `\E focused` in `KeyDescribesPlot`.
- Scenarios: every apply starts the labs anew, so a quick apply, a submit and a reset
  also drop unsaved responses. Back and opening a file do not ask about unapplied
  edits. Discarding for a change of profile or to Advanced mode puts the mark out but
  leaves the edits in the form (`UnappliedIsMarked` names the exception). A failed
  apply loads the form anew, so the edits are gone while the mark stays. After a
  failed switch or restore the controls, and for a switch the address, name the
  scenario that failed while the old one plays. The offer to retry stays after a later
  success by another way. A restore does not set the scenario's defaults. A failed
  switch to Essential mode leaves the observer turned in place
  (`scenarioControls.ts:98`; `RollbackRestores` allows `Core`).
- Apple: stopping playback makes a new generation without a request, so a
  recalculation or an accepted scenario in flight is discarded, and the old frame
  stays until the next request (`FrameFollows` excludes that generation). During
  playback each turn makes a new generation and only the newest is accepted, so
  calculations slower than a turn are all discarded: `FrameFollows` promises an
  answer or a successor. The call of `startIfNeeded` at the end of `drain` never
  finds anything to start.

## 7. Only model-checked, and not modelled

Only model-checked:

- Liveness (`SlotsDrain`, `CloseReturns`, `RequestEnds`, `RequestServed`,
  `FrameFollows`, the fairness half of `ImplementsContract`): outside what the prover
  supports.
- The violation runs: a counterexample is all there is to show.

Not modelled, with the reason:

- Physics, photometry and propagation (`B/domain/simulation`, `OtherlightCore`,
  `OtherlightScience`, `S/forward_dynamics.py` and its neighbours), the largest part
  of the source: floating-point numerics in pure functions, whose correctness is
  approximation error. A run appears as ending well or raising, a frame as computed
  or failed.
- Contracts, schemas, validation, the catalogs of presets and lessons, the HTTP layer:
  stateless checks, tables and documents.
- Rendering, templates, styles, build scripts and the demo: no protocol state. Since
  the modules model control only, the share of the source they map is small.
- Dataset registry: imports are serialised by the slot, and `using` has no caller in
  the service, so nothing competes for a use count yet. Research store: what could go
  wrong is left to SQLite's transactions, which are not part of this source. Browser
  dataset workspace: one handler at a time, the pattern of `ScienceWorkspace` in
  small. Apple scientific coordinator: one detached run with an identity test.
- Science workspace: status texts, the request form, restored requests.
- Scenario authoring: the `window.confirm` used where there is no dialog, what the
  select elements remember while they have the focus, restoring a profile, writing the
  address, saving and the saved mark. The Escape key closes the dialog without
  telling the guard; its next request replaces the pending one.
- Playback: drawing, readouts, noise, annotations and their failures, switching the
  runtime mode (to the session it is a rebuild), disposal.
- Apple session: draft texts, guided labs, workspace documents (the acceptance of a
  scenario stands for them), disposal.

## 8. The plan

Done: `JobContract`, `ScienceJobs` and their proofs, `ArtifactCache`,
`ScienceWorkspace`, `ChromaticSampling`, `LightCurveBuffer`, `LightCurveSession`,
`ScenarioSession`, `EducationSession`.

Proved: the safety of `ScienceJobs` with its refinement, of `ArtifactCache`,
`ScienceWorkspace`, `ChromaticSampling`, `LightCurveBuffer` with `LightCurveSession`,
`ScenarioSession` and `EducationSession`.

All invariants and action properties that a passing run checks are proved, and so is the
safety half of the refinement. What is left for the proofs is to make the long ones
easier to read, and to state as lemmas what the observations of section 6 need: which
handlers keep unsaved responses, and what a failed seek leaves of the histories.

Modules that could follow if the code grows towards them: `DatasetRegistry`, once jobs
enter `using`; `ResearchStore`, if a check leaves its transaction. No module that is to
be proved about declares a RECURSIVE operator.

## 9. Running it

    tlc -config MCScienceJobs.cfg MCScienceJobs
    tlc -config MCArtifactCache.cfg MCArtifactCache
    tlc -config MCScienceWorkspace.cfg MCScienceWorkspace
    tlc -config MCChromaticSampling.cfg MCChromaticSampling
    tlc -config MCLightCurveSession.cfg MCLightCurveSession
    tlc -config MCScenarioSession.cfg MCScenarioSession
    tlc -config MCEducationSession.cfg MCEducationSession
    tlapm ScienceJobsProofs.tla
    tlapm ScienceContractProofs.tla
    tlapm ArtifactCacheProofs.tla
    tlapm ScienceWorkspaceProofs.tla
    tlapm ChromaticSamplingProofs.tla
    tlapm LightCurveSessionProofs.tla
    tlapm ScenarioSessionProofs.tla
    tlapm EducationSessionProofs.tla

The findings are shown by `MCScienceJobsQueue.cfg`, `MCArtifactCacheQuota.cfg`,
`MCArtifactCacheReader.cfg`, `MCScenarioSessionOpen.cfg` and
`MCScenarioSessionRetry.cfg`, each of which ends in a
counterexample.

`PROJECT.json` lists the components, the runs with their properties, the mutants,
the hazards with the properties that cover them, the theorems, and for every
definition the source lines it models.

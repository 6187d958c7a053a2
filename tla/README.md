# Verification of transcoderd

transcoderd re-encodes a media library. A server keeps the jobs in PostgreSQL and serves an HTTP API;
workers ask it for jobs, download the source, encode it with ffmpeg, upload the output and report every phase.
This directory holds TLA+ models of the parts of it that are hard to test, the TLC configurations that check
them on small instances, and theorems that TLAPS proves for every value of the constants. Paths below are
relative to the repository.

## 1. Inventory

| Component | Source | State | Operations | Status |
|---|---|---|---|---|
| Event log of a job | `model/model.go`, `server/repository/repository.go`, the SQL resources | rows of `job_events` (primary key job and event id), the `job_status` row a trigger overwrites | append after an id check, next id, listings by status and by timeout | modelled (`EventLog`, `JobEvents`) |
| Dispatch, worker events, cancellation | `server/scheduler/scheduler.go`, `server/web/web.go` | three mutexes, one goroutine for maintenance | `RequestJob`, `HandleWorkerEvent`, `CancelJob` | modelled (`JobEvents`); pings and progress left out |
| Intake and maintenance | `scheduler.go`, `media.go`, `error.go` | reads of the pass in hand | `scheduleJobRequest`, `QueueMediaFile`, the three stages of `jobMaintenance` | modelled (`JobEvents`, the row it writes back in `Publication`); the directory walk left out |
| Output publication | `outputNaming.go`, `streams.go`, `completeJob`, `web.upload`, `uploadStep.go` | attempt files, staged file, names in the library, the recorded target | upload and commit, probe, link, update with rollback, cleanup | modelled (`Publication`); uploads staged by older versions left out |
| Job reports of a worker | `worker/worker/executor.go`, `worker/job/job.go`, `worker/serverclient` | job contexts in memory and in a file per job, a mutex around a report | `publishTaskEvent` with retries, `resumeJobs`, giving up a reservation | modelled (`JobEvents`) |
| Request loop of a worker | `coordinator.go` | free slots | ask, start the job | the asking modelled; controls, schedule and update left out |
| Worker capacity and encode pools | `encodeConcurrency.go`, `executor.go`, `schedule.go`, `sampler.go` | limits per class, pinned classes, reservations, accepted jobs, drain modes, RAM hold | admit, pin, drain, resize, start, resume | modelled (`Capacity`, `EncodeQueue`); schedule and sampler only as a hold and a pause |
| Process pause controller | `helper/command/pause.go` | a general hold, a hold per process | start, hold, rollback, exit | modelled (`EncodeQueue`); how a system suspends a process left out |
| Remote worker control | `scheduler/workerControls.go`, `repository/workerControls.go`, `remoteControl.go`, `coordinator.go` | desired settings, latest command, what a worker last said; the id it applied last | save, poll, execute, acknowledge, converge | modelled (`RemoteControl`); presence left out |
| Managed Windows update | `update/managed` | journal, state file, installation, copy, task, admission block | check, drain, stage, prepare, replace, verify, restore | modelled (`ManagedUpdate` against `AtomicUpdate`); signatures and paths left out |
| Windows service and desktop control | `cmd/windows-service`, `worker/control`, `worker/desktop` | desktop settings, two workers, the stages of the loop, an armed shutdown, holds of Setup and update | configure, limit, pause, stop after current, Setup, supervise | modelled (`Supervisor`); tray, status snapshot, hold of one job left out |
| Media library | `server/library`, `web/media.go`, `scheduler/media.go` | operations, probe slots, metadata cache | scan, batch, probe, cancel, expire, queue a reviewed file | modelled (`MediaLibrary`); browsing, labels and previews left out |
| Source downloads, self update of a plain binary | `streams.go`, `downloadStep.go`, `web.go`, `update/update.go` | open streams, map of checksums, routine of the scheduler, binary, cached release check | stream, hash, store, compare, retry; supervise, replace, exit | modelled (`Downloads`, `SelfUpdate`) |
| Other worker phases | `worker/step` | none of their own | ffmpeg called in a row | order, start and outcome in `JobEvents` |
| Progress and console, operations dashboard and its authentication, configuration, build and delivery | see `PROJECT.json` | none that several actors decide by | | not modelled: read-only views, best-effort telemetry, wiring |

How they meet: a worker talks to the server by HTTP only. Intake and maintenance queue jobs in the log, dispatch
assigns them, the worker's reports carry event ids that the log accepts only if they are the next ones, and a
`Job/completed` runs the publication before it is appended. Everything a worker may do to a job hangs on the log:
the upload checks its latest row, the completion its next id.

A worker polls the server for settings and commands too, and takes over what it finds (`RemoteControl`); on Windows a
service supervises a CPU and a GPU worker and is itself replaced by its updater (`Supervisor`, `ManagedUpdate`). All
of them act on one worker's capacity (`Capacity`), which its own goroutines share (`EncodeQueue`).

What is hard here:

* Handlers under *different* mutexes (or none) read the log, decide, and append later; the id check is their only
  synchronisation. Replies get lost and the clients repeat without end; a worker comes back from a context file
  older than the log; a pass of maintenance works through lists read long ago; a completion changes the library in
  several steps before its id is checked at all.
* Four goroutines of a worker keep four counts under two locks, while five kinds of commands come at any moment and
  wakeups are merged.
* A command is answered over a connection that loses requests and replies, and executes some of them late.
* An update is carried by three processes (service, helper, Setup) and a journal, any of which may stop.
* Setup, an update, new settings and a shutdown all wait for the same idle moment of two workers.
* A file is probed, reviewed and queued while others write to it; a stream that was cut still hands over a checksum.

`PROJECT.json` lists each such hazard with its line.

What makes the components correct:

* log: no gap, no duplicate id; a job is assigned once per queueing; whoever lost a job appends nothing;
* worker: its context never runs ahead of the log; it keeps asking while it may hold more;
* dispatch and maintenance: oldest first; an expired assignment is taken back;
* publication: no file of the library is overwritten or lost; a source goes only after output and record; a
  completed job has its output;
* capacity: counts and holds are those of the jobs there are; waiting encodes start, a drain ends;
* remote control: a command is executed once and truthfully answered, the limits converge;
* managed update: after a stop anywhere either the old or the new installation is complete, no work is taken in
  between, and a good release is installed in the end;
* Windows service: workers are replaced and the machine stopped only when idle; what was saved comes in force;
* media library: the cache describes the file it is kept for; what is queued is what was reviewed, and not too much;
* downloads: a source that is accepted is whole, and whoever keeps the job gets it; the server gets its update.

## 2. Modules

| Module | What it is |
|---|---|
| `EventLog` | The rows of one job and the questions asked of them: `NextId` (`AddEvent`), `HasId` (primary key), `JobRow` (`GetLatestPerNotificationType`), `HasStatus` (the trigger's row), `Failures`. |
| `JobEvents` | The core: log, handlers, maintenance, workers, network; 12 disturbances, each switched by a constant. |
| `JobLease` | What a log promises: one holder at a time, who alone reports and ends the job. |
| `Publication` | Uploads and completions of jobs as operations on inodes and names; the log appears as `JobLease`. |
| `Capacity` | Pure operators: the pool of encode slots, the admission of the executor and the hold of its processes, and what each operation makes of them. |
| `EncodeQueue` | The jobs of one worker and the encoders they share; uses `Capacity`. |
| `RemoteControl` | Settings and commands of the dashboard, and the worker that polls for them; uses `Capacity`. |
| `Supervisor` | The Windows service with its two workers; each worker's capacity is `Capacity`. |
| `ManagedUpdate`, `AtomicUpdate` | The journalled update, and what it promises. |
| `MediaLibrary` | Scans, batches, probes and the cache. |
| `SelfUpdate`, `Downloads` | The update of a plain binary; the downloads of a server that ends for it. |
| `MCJobEvents`, `MCPublication`, `MCEncodeQueue`, `MCRemoteControl`, `MCMediaLibrary` | Instances for TLC; the other modules need none beyond a `.cfg`. |
| `JobEventsProofs`, `PublicationProofs`, `EncodeQueueProofs`, `RemoteControlProofs`, `ManagedUpdateProofs`, `SupervisorProofs`, `MediaLibraryProofs`, `DownloadsProofs` | Theorems about the module of that name. |

Composition: `JobEvents` refines `JobLease`, and `Publication` stands on it; `EncodeQueue`, `RemoteControl` and
`Supervisor` share `Capacity`; `ManagedUpdate` refines `AtomicUpdate`; `Downloads` extends `SelfUpdate`.

### JobEvents and the code

A handler between a read and a write is an element of a set (`request`, `handling`, `cancels`, `intake`, `pass`);
the set holds one element when a mutex or a single goroutine allows no more: `jobRequestMu`, `handleEventMu`,
`jobIntakeMu`, the maintenance goroutine. `CancelJob` takes no mutex, so `cancels` may hold any number.

* `RequestSelect`, `RequestRead`, `RequestInsert`/`RequestFail`, `RequestNone`: the two queries of `QueuedJob`,
  then the append. The status row is not looked at again, as in the code.
* `EventCheck`, `CompleteJob`, `EventCheckFinalized`, `EventInsert`/`EventFail`, `RemoveSource(Fails)`,
  `EventAnswer`: `processEvent` in its order. `completeJob` comes before the check of the id.
* `UserSchedules`, `IntakeCommit`/`IntakeAbort`: one transaction of one or two rows.
* `PassStart` to `PassNext`: `jobMaintenance`; listing, reading and writing are steps of their own, and an error
  ends the pass as it does in the code.
* `Ask`, `Publish`, `Advance` (with the write of the context file), `Refuse` (a 4xx answer, after which the worker
  goes on), `GiveUp`, `Crash` with `Resumed`.

A report stands in `publishing` while the worker waits under its mutex and in `net` while a copy is under way.
The check of an id and the insert are two queries in the code; since rows are only added, checking at the time of
the read and meeting the primary key at the insert succeeds and fails in the same cases. The contents of phases,
messages, names and times are abstracted: `retry` stands for a failure message that recommends a retry, `expired`
for a latest row older than `jobTimeout`, `older` for the order of the status rows by time.

### Publication and the code

A file is an inode with contents; `staged`, `library` and `target` are what `os.Link`, `os.SameFile` and
`os.Remove` act on. `UploadBegin` is `GetUploadJobWriter` with its check of the latest row (worker and `started`,
not the assignment), `UploadAccepted`/`UploadRefused` is `Commit`, `UploadFails` every early return of
`web.upload`. `CompleteProbe`, `CompleteLink`, `CompleteUpdate`, `CompleteClean` and `CompleteRecord`/`Repeated`/
`Rejected` are `completeJob` and what `processEvent` does next, with a failure at each (`CompleteFails`,
`CompleteUpdateFails`) and a `Restart` between any two. `ReviewRead` and `ReviewCommit` are the intake of a
reviewed file, which writes the job's whole row back under another mutex. The composition with `JobLease` is
justified by the theorem `LogImplementsLease`: each change of the log is an action of the lease, and `turn` counts
assignments where the code compares event ids. Not in the model: migration of uploads staged by older versions,
the removal of empty staging directories, the attempt files a stopped server leaves behind.

### Capacity and EncodeQueue and the code

A capacity is a record of the pool (`encodeConcurrency`: limits, active encodes and pause of each class, the target
that a single limit sets), the executor's admission state (`JobExecutor` under `admissionMu`) and the general hold
(`PauseController`). Each operator is one method: `SetTarget`, `SetLimits`, `StartKind` and `Tried` (`tryStart`),
`Finished` (`finish`), `ApplyLimit`, `AdmissionLimit`, `SetPauseMode`, `SetRAMPaused`, `DrainAcceptedJobs`, ...
Sums of limits saturate at `MaxInt`, as `safeSum` does.

`EncodeQueue` has a place for each goroutine: `loop` is the coordinator's (reserve, ask, accept, enqueue), `scan` that of
`runEncoderQueue` (`TryStart`, `Wait`, `Take` and `Wake` with the channel of one as `token`), `phase[j]` that of a job
(`Pin`, `StartProcess`, `Exit`, `Unregister`, `FreeSlot`, `EndJob`); `procs` are the registered processes. Commands are
actions of their own and change the whole capacity in one step, since all of each runs under `admissionMu`. A signal that
fails is rolled back, and a rollback may fail too (`skewed`). `Restart` is a crash or a restart of the worker:
what was accepted is `saved` and comes back by `Resume`. The queue between two goroutines takes `QueueLimit` jobs,
and no more are saved: with more, `resumeJobs` would not return before its consumers run, which is listed as a hazard.

### RemoteControl and the code

`settings`, `positive` and `control` are the server's rows, `runtime` what the worker last said of itself. The
dashboard reads and writes them in two steps (`ControlReads`, `ControlWrites`); the worker polls in the order of
`syncWorkerSettings` under `settingsMu` (`turn`): read, execute, write the queue's settings, converge, ping, acknowledge.
Each request may be lost before or after it was executed, and a write may come after its sender gave up (`late`). A
process of the worker remembers the id it applied last; after a restart it does not, so that `executed` counts
per process.

### ManagedUpdate and the code

`tree` is the installation, `backup` the copy of it in the stage of a release, `journal` and `state` the two files
under `updates/`. `step` is the place of `Manager.Step` with its copy of the state, `helper` that of `RunHelper` with
its copy of the journal; each write to disk is a step. `Entry` says where a helper that finds a journal begins,
`Fails`, `UndoFails`, `BeforeFails` and `SaveFails` are the error paths, `Reboot`, `ServiceRestarts` and `HelperDies` stop
what they say between any two steps. Setup removes the tree, writes the new one and starts its service.
`Prompt` says that what takes a moment is done before what takes seconds: with it, a completed journal's helper
finishes its two writes before the new service's second step of two seconds, and a task that cannot be registered
does not meet a helper that already replaces files. Without it (`Prompt = FALSE`) a helper that clears late forgets a
release that was found meanwhile; the window is tiny, and it is named in the constant so that the theorems show where
they need it.

### Supervisor and the code

`loop` is the stage of an iteration of `supervisor.run` (update hold, limits, settings, start, shutdown), with the
two polls of a shutdown as separate steps; a request of the desktop excludes an iteration (`supervisor.mu`), but the
workers go on meanwhile. Requests are `Configure`, `SetMaxJobs`, `PauseEncodes`, `StopAfterCurrent`, `SetupHolds`/
`PrepareUpgrade`/`SetupReplaces`, and the updater's `UpdateFound` to `UpdateClears`; each may fail for one of the workers or
at its save. A worker (`child`) has a capacity, is starting, running, stopping or exited, accepts and finishes work and
takes over the server's limit. Settings are an identity with a limit of 0 or 1 per profile. Left out: orphaned workers of a
service that was killed (they stop with it here), the hold of a single job, the tray's snapshot and its poll of the queue.

### MediaLibrary and the code

Versions stand for size and time of a file, and for what ffprobe says of it; `disk`, `cache`, `jobs` and `probes` are the
file system, the metadata cache, the job states that the library reads and the analyses under way. `Walk`, `Examined`,
`Looks`, `Asks`, `Analyses`, `Stores` and `ScanEnds` are a scan with its workers and its probe slots; `StartBatch` to
`BatchEnds` a batch that compares, rechecks and submits each file; `Registers` forgets the oldest ended operation;
`Submit` is `QueueMediaFile`, which looks at file and job once more. Order by size, filters, result labels and
previews are left out: nothing is queued by them.

### Downloads, SelfUpdate and the code

A handler (`streams`) opens the file, hashes what it reads and on closing hands the checksum to the scheduler's routine
over an unbuffered channel (`Hands`), which the routine only reads when it is not in maintenance. The map of checksums
has one entry per path, so a stream that was cut stores that of a part under the same key. The worker asks, receives,
compares and starts over; attempts that fail because nobody answers count as one. The data race of the map is
the disturbance `race`: the runtime ends the server while a checksum is stored and another is asked for. The server
exits for an update when it counted no request, also while one that came since is served.

## 3. Runs

| Run | Instance | Shows |
|---|---|---|
| `job_races` | 1 job, 2 workers, logs of 5 rows; every force flag, cancel, timeout, maintenance | `TypeOK`; `NoDoubleAssignment`; `LeaseSpec`: the log implements the lease |
| `job_faults` | 1 job, 2 workers, 5 rows; cancel, crash | `Fenced`: between a worker's assignment and its reports only its own rows stand; `ContextsRecorded`: a context, in memory or on disk, stands at a row of the worker |
| `job_completion` | 1 job, 1 worker, 9 rows; lost, late and refused notifications, failing inserts and removals, restarts, missing sources, forced requeue | `Gapless`; `SourceSafe` |
| `job_queue` | 2 jobs, 1 worker, 5 rows; maintenance, timeouts, lost replies, failing workspaces; fairness | `OldestFirst`; `ExpiredRecovered`, a liveness property |
| `publication` | 1 job, 2 workers, 2 assignments, 2 encodings, 3 inodes, 3 names; everything may fail | `TypeOK`; `LibraryKept`: the server overwrites nothing and removes a name only while the file has another; `CompletedNotLost`: the output of a completed job is at the recorded target, or an upload is staged |
| `encode_queue` | 2 jobs, a slot of each class, 2 commands of 8 kinds, a restart, failing signals | `TypeOK`; `Accounted`; `HoldsAgree`; `WaitingStarts` and `DrainCompletes`, liveness |
| `remote_control` | 2 commands of 5 kinds, 1 other change or loss, limits of one and of two classes | `TypeOK`; `ExecutedOnce`; `AppliedIsTrue`; `Converges`, liveness |
| `managed_update` | 4 releases, the third unhealthy, 3 faults of 9 kinds | `TypeOK`; `Recoverable`; `BarrierKept`; `AtomicSpec`, the refinement; `Resolves`, liveness |
| `supervisor` | 2 workers, 2 requests of 7 kinds, 1 fault of 7 kinds | `TypeOK`; `ShutdownCancelled`; `ReplacedWhenIdle`; `ShutdownSafe`; `Settles`, liveness |
| `media_library` | 2 files, one of which may be the other's output, 2 versions, 3 operations in 2 places, 1 probe slot, 1 fault of 9 kinds | `TypeOK`; `CacheTrue`; `QueuedAsReviewed`; `TargetKept`; `OperationsEnd`, liveness |
| `downloads` | 2 workers, 3 streams, 2 pieces, 2 versions, 2 releases, 8 attempts, 2 faults of 9 kinds | `TypeOK`; `Intact`; `Downloaded` and `UpToDate`, liveness |
| `upload_finalized` | as `publication`, with timeouts only | a counterexample, section 6 |

Every property has a mutant in `PROJECT.json`: a wrong variant of one definition (named `Faulty...` in the
module) under which the same run finds the property violated.

**Bounds.** `MaxEvents` bounds a log; an insert beyond it fails as it does when the database fails, which every
handler has to survive anyway, so the bound adds no behaviour. The logs are long enough for two assignments with
something between them (4 or 5 rows), and in `job_completion` for a completion, a forced requeue and a second
completion (9 rows with the phases). Two workers are enough for one to lose the job to the other; two jobs for one
to overtake. `FailureBudget` is 1, so that the tired job is reached. In `Publication`, `MaxTurns` = 2 gives a former
and a present worker, three names let an output be displaced twice, and an operation that needs an inode or a name
beyond the bound waits. Crashes of a worker are explored in `job_faults` only: they multiply the states of the other
runs beyond what can be waited for. In `EncodeQueue` two jobs meet at one slot of each class, and two commands are
enough for the second to come between any two steps that the first one causes. In `RemoteControl` the second
command overtakes the first. Three faults in `ManagedUpdate` are a failing Setup, a stop during the restoration and one
more after it; four releases let one be found while another is pending, and a good one follow a bad one. Two requests
to the `Supervisor` are a shutdown or Setup and what comes in between; three exceed five minutes. `MaxAttempts` of
`Downloads` stands for 180 in the code and has to be large enough that faults alone do not use it up: a stream that is
cut costs up to three.
`CHECK_DEADLOCK FALSE` stands where a system may be at rest: `publication` (all turns are used up), `encode_queue` (no
job is left and none is asked for) and `media_library` (no operation runs and no more are asked for).
Workers (and inodes and encodings) are symmetric: no definition orders them. No symmetry is used in the liveness
runs.

**Fairness.** `JobEvents!Fairness` (for `job_queue`): a handler that runs goes on (weak
fairness of its steps): its goroutine is scheduled and database calls return. A handler that waits for a mutex gets
it (strong fairness: others may take the mutex in between, and Go's mutexes starve nobody). The maintenance ticker
fires again. A worker keeps asking and publishing. The other modules assume the same of what they name:

* `EncodeQueue`: the goroutines of a worker go on and encodes end, but for those that are held. Commands need not come.
* `RemoteControl`: the worker polls again and its requests end, with or without an answer.
* `ManagedUpdate`: the manager's ticker of two seconds, the task of five minutes and the helper go on, accepted work ends.
  `StepChecks` is strongly fair: a check is due every hour, and one of the steps that could make it does.
* `Supervisor`: its loop and its workers go on; the loop notices an exited worker (`Reap`) and a drain for an update
  between its other stages (strong fairness: both take `supervisor.mu`, which others may take in between).
* `MediaLibrary`: the goroutines of operations and analyses go on; ffprobe ends, by its own timeout at the latest.
* `Downloads`: workers, handlers, the routine and the updater go on.

Nothing obliges users, crashes, timeouts, lost replies or failures to occur or to stop; bounds on faults make them stop
in the instances, so that a liveness property says that the system recovers from any such number.

## 4. Proofs

Every invariant and every safety action property that a passing run checks is a theorem as well, and so are the two
refinements. All theorems hold for every value of the constants that the named assumptions of the modules allow, which
TLC evaluates in the runs; the hypotheses some of them have besides, `NoRefusal`, `Prompt` and `NoLostUpdate`,
are explained with them. Those about `JobEvents` hold for any sets of jobs and workers, any pipeline, any flags, any
disturbances and any bound, from `ServerAssumption` (the empty worker name of the server's rows is no
worker's), `StepsAssumption`, `PipelineAssumption` and `ParameterAssumption` (types of the constants).

* `LogInvariant`, `TypeCorrect`, `LogsHaveNoGaps` (`Spec => []Gapless`). Gaplessness is not inductive: a handler
  appends an id computed from an earlier read. The invariant `LogInv` adds `InFlightBounded`, that no handler in
  flight carries an id beyond the end of the log; then the primary key leaves only the next one (`FreeIdIsNext`).
* `NeverAssignedTwice` (`Spec => []NoDoubleAssignment`). The property is of rows; what keeps it is of the request
  in flight (`RequestInv`): there is one (`jobRequestMu`), and the job it selected has not been assigned since it
  was last queued, whoever has written to its log in the meantime. This needs that cancellations, expiries and
  listings are of jobs that exist (`KnownJobs`), since the first row of a job queues it.
* `LogFences`, `ContextsBehindLog` (`Fenced`, `ContextsRecorded`), under `NoRefusal`. The invariant `FenceInv` says
  of every context, message and handled message that it stands at a row of that worker that ends nothing
  (`OwnRow`); a report that is the next row therefore follows a row of its own worker. `NoRefusal` excludes 4xx
  answers to notifications: after one the client goes on as if its event was recorded, the next id is then off the
  log, and the properties need not hold.
* `LogImplementsLease` (`Spec => LeaseSpec`), under `NoRefusal`: initial states map to initial states, and each
  step of `JobEvents` to a lease step or a stutter; appending by dispatch is `Grant`, by a worker `Report` or
  `Finish`, by the server `Take`. It needs in addition that a request in flight is of a job nobody holds: the
  server queued it, and only the server has written since (`RequestFree`).
* `LeaseNeverHandedOver`, under `NoRefusal`: of the log, through the refinement. A job changes hands only through nobody.
  It is shown of the lease and carried over to the log by `LogImplementsLease`.
* `SourcesKept` (`Spec => []SourceSafe`), without `NoRefusal`. The source goes in a later step than the completion is
  recorded, and a server may restart between them, so the invariant says what a handler knows (`KnowsCompletion`):
  one that comes to the insert of a completion has published, one that comes to the removal has recorded it as well.
  Both facts are of the log and the library and are never undone (`RecordedStays`).
* `OldestAssignedFirst` (`Spec => OldestFirst`), an action property of two steps that lie apart. `OrderInv` says of the
  request in flight that, as long as the log of its job ends where it was read, no job was queued before it that is
  queued still: what others append meanwhile is newer, and a job leaves the queue but never gets older in it.

* `EncodeQueueProofs` (`TypeSafe`, `AlwaysAccounted`, `HoldsAlwaysAgree`), from `QueueAssumption`, for any jobs, limits,
  commands and failures. The counts are changed by different goroutines, so each of them is only right together with
  where the goroutines are: the invariant `QueueInv` couples phase and slot of a job (a slot is held only from the
  moment it was given until it is freed), says that a job which is queued or pending is so once and in one place,
  and that a job the loop has in hand has no phase yet. The lemmas about
  the pure operators of `Capacity` say that each of them keeps limits, target and holds in agreement (`Sound`) and
  leaves what runs as it is.
* `RemoteControlProofs` (`TypeSafe`, `OnceAlways`, `AppliedIsAlwaysTrue`), from the like about `Capacity`: the
  commands and settings a worker takes over keep its capacity sound, and the sum of both limits within what the machine
  counts. What keeps a command from
  being executed twice is its id alone: ids of drafts are fresh and unique, and a command that the worker has in hand
  but the server has overwritten has a successor that was never executed.
* `MediaLibraryProofs` (`TypeSafe`, `CacheAlwaysTrue`, `AlwaysQueuedAsReviewed`, `AlwaysTargetKept`), from `LibraryAssumption`. An
  analysis looks at the file before and after ffprobe and may meet newer versions each time, never older ones (`ProbeInv`):
  when first and last are the same, so is what ffprobe saw. Whatever a batch has in hand was reviewed (`Reviewed`),
  and while it has something in hand there is room in its target.
* `ManagedUpdateProofs` (`TypeSafe`, `AlwaysRecoverable`, `BarrierAlwaysKept`, `UpdateIsAtomic`), from `UpdateAssumption` and
  `Prompt`, for any number of releases, whichever are bad, and any faults. None of the properties is inductive, since the
  journal is written by one process and acted on by others. `UpdateInv` says for each phase of the journal what tree, copy and
  state are (`JournalInv`), for each place of the helper which phase the journal has and what was done already
  (`HelperInv`), and for each place of the manager that no journal is active which it did not write, and that the state
  it read is not that of a former update (`StepInv`). The refinement maps the installation to the copy that the journal names
  while it is being replaced: of all steps only `Complete` changes it, to a newer release and while no work is accepted.

* `PublicationProofs` (`TypeSafe`, `LibraryFilesKept`), from `OutputAssumption` and `FileAssumption`, for any jobs, workers, names and faults.
  `FileInv` follows the completion in hand (`handleEventMu` admits one) between its calls: before the link the staged
  file, or at the probed target a video, is still there (`Probed`), and a link that may yet be undone has another name
  (`Linked`). So the rollback after a failing `UpdateJob` never takes the last name of a file.
* `CompletionRecordsOutput` (`Spec => RecordsOutput`), without a hypothesis: at the moment a completion comes into
  the log, the row has the name under which this very completion found or linked the output, and the output still
  stands there (unless it was a video that others had put there and could remove). Reviews write rows under another
  mutex than the one the completion holds, so the target alone proves nothing. `Recorded` couples it to the lease:
  the row keeps the name as long as the log would accept the completion, for a review finds the job failed or
  canceled, which takes it from its worker, and an assignment has a turn of its own (`CopiesKnown`), after which the
  old message never holds it again.
* `OutputsKept` (`Spec /\ NoLostUpdate => []CompletedNotLost`), for any names, shared by jobs or not, and whatever
  others put into the library. `NoLostUpdate` says that no review writes back a target that a completion has changed
  since the review read it. The code does not see to it (`scheduler.go:513`), and without it the property does not
  hold in general: TLC finds 31 steps if others may bring videos (section 6, 1) and 42 if jobs share names
  (`MCPubShared.cfg`, section 6, 8). The theorem says that this is the only cause: every violation contains such a
  write-back; nothing else that fails, is repeated, comes late or collides can do it. `OutputInv` follows the file
  rather than the worker: once an upload was accepted, the job has it staged, or its target is an output (`Kept`);
  and although names are shared, no file is ever the upload or the output of two jobs (`Apart`), since a new file has
  an inode of its own and a link is made only where nothing or this file is. So a rollback that takes away a link
  (`UndoesOwn`) takes nobody else's output, and its own only where it is staged.
* `SupervisorProofs` (`TypeSafe`, `ArmedWithBothWorkers`, `WorkBeforeReplacement`, `FinishedBeforePowerOff`), from
  `SupervisorAssumption`. None is inductive: each follows from an answer that a worker gave some steps ago. `Quiet`
  says that whoever replaces the workers found each of them absent or with admission held, and that no operation on a
  capacity in between ends such a drain (`Later`); `Unconfigured` that a service without settings has no worker and so
  no work; `PollKnows` that the answer of the CPU profile still holds when the GPU profile is asked, since a profile
  that finishes takes nothing and a request that would change it excludes the loop. `FinishedBeforePowerOff` is about
  the step that stops the machine.
* `DownloadsProofs` (`TypeSafe`, `AlwaysIntact`), from `DownloadsAssumption` and `ReleaseAssumption`. How much a worker has is
  counted by the handler that reads for it, so types alone are not inductive: `Together` says that at most one
  handler reads for a worker, only while it receives, and that both have the same; `Attempting` that attempts are left
  before the last has failed. `Complete` is `Intact` one step earlier: whatever is compared is whole, so that the
  checksum of a part, kept under the same path, cannot match.

Model-checked only: the liveness properties `ExpiredRecovered`, `WaitingStarts`, `DrainCompletes`, `Converges`, `Resolves`,
`Settles`, `OperationsEnd`, `Downloaded` and `UpToDate` (fairness and ENABLED are beyond the prover), and the counterexample
to `UploadFinalized`.

## 5. What is not modelled

* Progress, console, statistics, the operations dashboard, authentication, configuration and the build: read-only views,
  telemetry that may be lost, wiring. Nothing in the protocols decides by them.
* The worker's phases other than download and upload: ffmpeg and its tools called in a row, with arguments computed from
  a probe. `JobEvents` keeps their order and outcome, `EncodeQueue` the process of an encode.
* The directory walk and the file names of intake; the file system of a working directory that two attempts at one job share.
* Signatures, manifests and paths of releases; how Windows suspends a process; the schedule of a worker.
* ffprobe after a download, a worker's shutdown during one, the worker's use of the plain binary's supervisor.

## 6. Where the code and its documents differ

One has a run, whose counterexample shows it:

1. `upload_finalized`, against `openspec/specs/events-and-progress/spec.md:43`. A worker that lost its job after its upload
   repeats `Job/completed` for ever. Each repetition removes what is at the staging path when it ends, also an
   upload of the present worker that was committed, and answered with 201, in the meantime. The present worker's
   completion then probes the recorded target and is recorded with the former worker's output. Together with the
   intake that writes a stale row back (`ReviewCommit`) the recorded target may be the provisional one, and a file
   of somebody else under that name is then taken for the output, after which `deleteOnComplete` removes the
   source. In `publication` the files of others are therefore no videos (`Videos`), which keeps this case out of
   `CompletedNotLost`. By theorem `OutputsKept` the write-back is the only cause.

Others have a configuration that shows the counterexample when it is run by hand, as in
`tlc -config MCSettingsWait.cfg Supervisor`:

2. `MCKeepsAsking.cfg` (`MCJobEvents`), against `job-dispatch/spec.md:32`. The reply to a recorded notification is lost;
   the client repeats an id that is no longer the next one and gets 500 for ever, holding the worker's mutex.
   Only a repeated `Job/completed` is recognised.
3. `MCAssignsQueued.cfg` (`MCJobEvents`), against `job-dispatch/spec.md:10`. `RequestJob` assigns a job that maintenance has
   failed between its two queries.
4. `MCPubRefused.cfg` (`MCPublication`), against `media-transfer/spec.md:54`. The staged upload of a worker that lost the
   job stays; the valid upload of the next worker is refused with 500 until the former worker's notification
   finalizes it.
5. `MCSettingsWait.cfg` (`Supervisor`), against `docs/windows-desktop.md:46` and `windows-desktop-worker/spec.md:87`. After a
   restart of the service or a crash of a worker, settings that wait for accepted work are applied at once, although
   the work is still on disk (`main_windows.go:670-716` only asks workers that run).
6. `MCPauseSurvives.cfg` (`Supervisor`), against the same page and `windows-desktop-worker/spec.md:229-236`. After a shutdown
   after current, a restart opens the queue again: the worker takes over the limit that the server has saved
   (`coordinator.go:145-185`), while `Paused` is still saved.
7. `MCUpdateOrphaned.cfg` (`ManagedUpdate`), against `self-update/spec.md:125`. A service that stops between the write of
   the journal and the registration of the task leaves a journal that nobody takes up: the next service leaves it
   to the helper, whose task does not exist (`native_windows.go:268`). Admission stays blocked.

8. `MCPubShared.cfg` (`MCPublication`), against `events-and-progress/spec.md:43`: the destination is non-conflicting. Two
   jobs want the same names. The server restarts after it has linked the output of the first and before it has
   recorded it. The second, without a staged file and with its provisional target after a review (as in 1), takes the
   link for its own output and is recorded as completed. When the completion of the first is repeated and `UpdateJob`
   fails, the rollback removes the link: the second job has no output (42 steps). No file is lost, since the first still has
   its staged one.

Seen while modelling, without a configuration:

* After a failed cleanup, or a stop before it, a repeated completion reuses the published link, and a failing
  `UpdateJob` removes it: the recorded output of a completed job is gone although `job-intake/spec.md:92` says that
  a cleanup failure shall not undo a published output. Only the staged name is left, hence the second half of
  `CompletedNotLost`.
* `CancelJob` records the cancellation and then returns an error, so the API answers 500.
* A user's `forceAssigned` requeues an assigned job, `job-intake/spec.md:105` names only the finished states.
* `forceCanceled` is dropped by the directory walk.
* `queuedJobMaintenance` may fail a job that was assigned since the listing when a source is missing.
* A listed timeout that was answered in the meantime ends the whole pass with an error.
* The reply to a worker's PUT of a queue control is lost: the command is shown as failed although it takes effect.
  A `resume-queue` that was read before newer limits were saved writes the older ones back. A worker that was restarted
  after a lost acknowledgement executes the command again.
* An output that is published and not yet recorded as completed may be queued as a source by a batch that annotated it before.
* A worker whose release cannot be installed exits again at each poll (`coordinator.go:85`) and never asks for a job.

## 7. Plan

Done: all modules of section 2. What remains, in this order:

1. The schedule of a worker and the RAM sampler as processes of `EncodeQueue`; workers that outlive their service
   in `Supervisor`.

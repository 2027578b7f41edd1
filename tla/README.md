# Caddy build server: formal model

TLA+ specifications of the build server, the TLC instances that check them, and
TLAPS proofs about them. Source references are to the repository (`pkg/...`,
`cmd/...`, `migrations/...`).

## The system

Three programs share a PostgreSQL database and a file store, and never talk to
each other directly.

| Component | State it keeps | Operations | Talks to |
|---|---|---|---|
| Build queue, `pkg/db`, `migrations` | tables `build_jobs` (one row per build key) and `build_attempts` (one row per claim) | CreateBuild, GetBuildByKey, ClaimNextBuild, UpdateBuildStatus, UpdateHeartbeat, ReleaseJob, RescueStuckBuilds, RetryFailedBuilds, ResetBuildAttempts | called by all the others |
| Worker, `pkg/worker`, `cmd/worker` | semaphore, map of active jobs, `shuttingDown`, one goroutine per job with a heartbeat goroutine | claim, build, heartbeat, write the verdict; drain on stop; release all jobs on preemption | queue, builder, preemption detector |
| Janitor, `pkg/janitor`, `cmd/janitor` | none but its schedule | rescue cycle and retry cycle, every 10 s | queue |
| API, `pkg/api`, `cmd/api` | one handler per request | request a build (with force), wait for a build (compat), status, download | queue, store, version resolver |
| Builder and storage, `pkg/builder`, `pkg/storage` | temporary directory, the files `builds/xx/<key>` and `builds/xx/<key>.asc` | compile, sign, upload signature, upload binary; serve | store, build environment |
| Build environment, `pkg/xcaddy` | a directory, a Docker client, a context per phase | `go mod init`, `edit`, `get`, `tidy`, `go build`, one after the other | sandbox |
| Sandbox, `pkg/sandbox` | one container per command, a goroutine that copies its output | create, attach, start, wait, remove | Docker |
| Preemption detectors, `pkg/preemption` | a channel of capacity one | report an event, acknowledge it (Azure); turn a signal into an event | worker, metadata service |
| Version resolver, `pkg/modversion` | one goroutine per plugin | look up versions, proxy by proxy | module proxies, API |
| Build key, `pkg/db/buildkey.go` | none | sort and hash a configuration | API, worker |
| Configuration, logger, migrations runner | none that changes | start-up | |

What makes the system hard to get right:

* **Nothing but rows coordinates the workers.** A worker owns a job because a row
  says so; the row is changed by the janitor, by another worker or by a forced
  rebuild while the first worker goes on building.
* **Functions of two statements.** UpdateBuildStatus, ReleaseJob and
  RescueStuckBuilds each change the two tables in two transactions. Anything may
  happen, and the process may die, between them.
* **Unfenced writes.** UpdateBuildStatus and ResetBuildAttempts select by build key
  alone: a worker that has lost a job still writes its verdict.
* **Time.** A worker is alive as long as its heartbeat is younger than a limit that
  a cycle computed when it began, from another clock.
* **Shutdown.** Preemption, stop and drain meet claims in flight, in a protocol of
  one semaphore, one locked map and one flag.
* **Reads before writes.** Handlers read a job, then act on it or on its files.
* **Contexts.** A command runs, is waited for and is cleaned up under one context, which a
  cancellation, a time limit or neither ends, and one phase of a build swaps it for another.
* **One key, many orders.** A job is shared by all requests of one sorted configuration, and
  built from the unsorted one of whoever came first, whose order a Go map decided, one
  `go get` after the other.

The hazards, each at its line and with the properties that would show it going
wrong, are listed in `PROJECT.json`.

### What makes each component correct

* *Queue*: owner, heartbeat, status, history and completion of a row agree; history
  is only appended to; a job changes hands only through a claim.
* *Worker*: the semaphore counts exactly what is running; the map of active jobs names
  running goroutines; a drain means idle, and ends; a preemption releases every job
  once.
* *Janitor*: a rescue leaves no open attempt; it never takes a job from a healthy
  worker.
* *API*: a handler that waits for a build ends with it; a job has all that its clients
  asked for.
* *Whole server*: one builder per job, at most `max_attempts` attempts, up to what
  failures add; every build settles; a job ends once, done or failed, unless disturbed.
* *Build environment, sandbox*: one container of a build at a time; success means that every
  command exited with 0 and no container is left behind; a cancelled build stops; every build
  comes to its end or its upload; what is built has the versions each of its clients came to.
* *Detectors*: the machine is not given up before the worker has the notice; a notice ends
  the worker.
* *Artifacts*: what is served is whole, and the signature belongs to the binary.

## Modules

```
                      Faults                          the common count of failures
         ______________|__________________
        |                   |             |
   BuildQueue            Sandbox      Preemption      components
   |    |    \              |             |
 Worker Janitor Api    BuildPipeline      |
   |  \____|____/           |             |
   |       |                |             |
   |   BuildServer ---------------------------------> refines QueueSpec, BuildLifecycle
   |       |      \
   |   Artifacts  DocumentedClaims                    DocumentedClaims: what does not hold
   |
   |____________ Machine _____________________      Worker + BuildPipeline + Preemption,
                                                     refines Worker's steps
 BuildRequest                              from a request to the row of its job
   |
 ModuleSelection                           from the row to the versions a worker builds
 BuildQueueProofs WorkerProofs BuildServerProofs ArtifactsProofs BuildPipelineProofs
 MachineProofs BuildRequestProofs          theorems, about the module of that name,
                                           BuildRequestProofs about ModuleSelection too
 DisturbanceProofs                         theorems about BuildServer that count disturbances
 MCBuildQueue MCWorker MCBuildServer MCArtifacts
 MCModuleSelection                         instances for TLC
```

`BuildPipeline` and `Machine` need no MC module: model values and numbers in their `.cfg`
are enough.

### BuildQueue: `pkg/db/db.go` and the schema

`jobs[k]` is the row of build key `k`, `attempts[k]` the sequence of its attempts
(position = `attempt_number`, which the UNIQUE constraint and MAX + 1 make
consecutive). There is one action per SQL statement; a function of two statements is
two actions (UpdateAttempt/UpdateJob, ReleaseAttempt/ReleaseRow,
RescueAttempts/RescueJobs). A statement is atomic: each runs in its own transaction,
as every caller passes the connection pool. `QueueSpec`, any statement by anybody at
any time, is the **abstract specification** of what the tables promise no matter how
the programs behave; the composed server is checked to implement it.

Time is counted in heartbeat intervals (30 s). A row keeps the *age* of its heartbeat,
-1 for NULL; a cutoff is an age too, so `heartbeat_at < cutoff` is `heartbeat > cutoff`.
Ages saturate above every cutoff. Left out: `locked_at` and `updated_at` (written
together with other columns, read by nobody), `has_signature` (see Artifacts),
and the build's parameters.
`SKIP LOCKED` lets a claim pass over up to `MaxLocked` rows that other sessions hold.

### Worker: `pkg/worker/worker.go`, hooks of `cmd/worker/main.go`

| TLA+ | code |
|---|---|
| `loop`, `inHand` | where `Start` and `tryClaimJob` are, and the job just claimed |
| `sem`, `filled` | tokens in `jobTracker.inProgress`, those of waitForJobsToComplete among them |
| `active` | `jobTracker.active`; a slot number stands for a cancel function |
| `run[w][s]` | goroutine of a job: `building` (Builder.Build), `attempt` and `job` (before the two statements of UpdateBuildStatus), `remove` and `release` (the deferred calls), and its heartbeat |
| `watch` | `watchPreemption` and the loop of `cancelAllActiveJobs`; while it is in the loop the map is locked for reading, and Register and RemoveActive wait |
| `shuttingDown`, `stopRequested` | the flag; `done` closed and the context cancelled |

The check of `shuttingDown` (TryClaim) and the claim (ClaimOne) are separate actions,
as in the code. A claim that fails may have been committed or not (ClaimFails). After a
stop the loop's context is cancelled: a claim that begins then fails before it
reaches the database, so TryClaim is disabled. A failing heartbeat ends the heartbeat
for good. `waitForJobsToComplete` has an active count, a polling loop and a five minute
limit after the semaphore is full. Then the count is zero, which `SemCountsJobs` (no token
left for a job) and `ActiveIsRunning` (an entry of the map is a running job, and its token
goes back after it is removed) imply: StartReturns needs no more. A process that ends forgets everything and never
comes back under its id. A stopped process may end at any time (stop timeout).

`WorkersSpec` runs the workers against an arbitrary queue (any rescue, retry or reset at
any time), which is more than the real janitor and API do.

### Janitor: `pkg/janitor/janitor.go`

`Cycles` are rescue cycles that may overlap: gocron is not asked to wait for a
running task, and nothing prevents two janitors. A cycle fixes its cutoff
(RescueBegins) and issues two statements; `elapsed` is how late the cutoff has become.
There are two clocks: the cutoff comes from the janitor's `time.Now()` (`db.go:295`), the
heartbeats from the database's `NOW()`. A cutoff starts out early by up to `MaxAhead` ticks,
if the janitor's clock is ahead, or late by up to `MaxElapsed`, if it is behind. How far
ahead it may be is an assumption (`ThresholdAssumption`, `StuckThreshold > MaxAhead`): by less
than the 30 s that the limit of 60 s leaves beyond an interval, or the janitor takes jobs
from workers that are alive. The retry cycle is one statement.

### Api: the writing handlers of `pkg/api/api.go`

A request is a record of where its handler is: `read` before the SELECT of CreateBuild,
`reset` and `reread` around ResetBuildAttempts, `poll` in the compat loop, and `late` there
too, but after the 15 s within which the server can write to the connection (WriteDeadline,
`cmd/api/main.go:109`): the handler does not learn of it, and its reply is `unsent`. Validation
and the resolution of plugin versions come before the first action. Replies are the
classes of response. GiveUp is the client's disconnect or the 30 minutes. The field `reset`
remembers that a request has reset its job.

### BuildServer: the composition

`Next` interleaves the components' actions; `TimePasses` advances every clock at once.
`Disturbances(k)` counts what may excuse a broken promise about job `k`: failures of the
environment, workers preempted or stopped (times their slots), requests that have reset
`k` (a forced request that was answered without a reset disturbs nothing).
The properties say what holds of an *undisturbed* job and how far each disturbance can
push the system. Late heartbeats, and a job claimed and not yet started when time
passes, count as failures (`Late` in Worker): the code gives a worker 60 s for what it
does in milliseconds.

### Artifacts: `pkg/builder`, `pkg/storage`, download handlers

Refines the worker's `building` phase into stages: compile, create and write the
signature, create and write the binary. Build returns success exactly when both are
stored. `Storage.Put` truncates and then writes, ignores its context (a cancelled build
goes on uploading) and the error of Close (CloseFails). A download reads the job, opens
the two files and copies them, in separate steps. Files carry the attempt that wrote
them, so two builds of one job are told apart. The store is a directory; with an object
store a file changes at once, which allows less. `Signing` is one setting for all
workers, which is why the column `has_signature` is not modelled.

### BuildLifecycle: what a client sees of a job

An **abstract specification** without workers, attempts or tables: a job that was asked for
waits, ends once as `done` or `failed`, and that is final, until the first disturbance of the
job (`Disturbances` above). BuildServer implements it (`ImplementsLifecycle`) under a
mapping of its rows to what the status answer says: pending, building, and failed with a
retry left, are `waiting`; failed without one is `failed`; completed is `done`. The
mapping is where retries, rescues of dead workers and the two statements of every verdict
disappear. That a disturbance ends the promise is not a weakness of the mapping:
the late verdict of a worker that lost the job does turn a completed build into a failed one.

### Sandbox: `pkg/sandbox/docker.go`

`call[c]` is where `RunCommandWithNetwork` is for command `c`, one stage per request to the
daemon (`create`, `attach`, `start`, `wait`, `waiting`), `drain` for `<-outputErr`, and
`failing`/`finishing` before the deferred removal. `container[c]` and `exit[c]` belong to the
daemon, `copier[c]` is the goroutine that copies the output. The daemon is external, and what
the code uses of it is modelled: a container that exits is removed by itself
(AutoRemove), one that was never started is not; a request whose context is done fails, and
may have been acted on. `done` is a parameter, since the build environment decides which
context a command runs under.

### BuildPipeline: `pkg/builder/builder.go`, `pkg/xcaddy`

One call of `Builder.Build`: temporary directory, `newEnvironment`, the commands by number,
storage. `ended` is what has ended the contexts so far: the job's cancellation, TimeoutBuild
or TimeoutGet. `Done(c)` is the code's choice of context: the go get commands look at a context
made from `context.Background()` with a limit of its own, all others at the job's. The context
is looked at after the go get of each plugin. The client of the daemon is closed by a
deferred call that exists only after newEnvironment has returned. The removal of the directory
may fail, which nobody learns of. `Store` stands for the two uploads, which no context and no
limit ends: a build is shown to come to its upload, and nothing is assumed of the upload's end
but where it is said (*Fairness*). Left out: flags and
environment of the commands, what main.go and go.mod say, which of its errors a build
returns (`classifyBuildError` chooses a wording).

### Preemption and Machine: `pkg/preemption`, `cmd/worker`

`Preemption` is the goroutine of `Watch` for either detector: `Poll`/`Acknowledge` of
`checkScheduledEvents` (an acknowledgement may be lost; the event is then listed and sent
again), and `Signalled` for SIGUSR1, which sends once and ends. The metadata service is
external.

`Machine` puts Worker, BuildPipeline and Preemption together. `FinishBuild` takes the place
of BuildReturns: a build's outcome is what the pipeline came to; a `CancelJob` of the
worker ends the context of the pipeline; `Preempt` needs an event in the channel. `MachineTaken`
is Azure taking the machine, at any time after the notice. `WorkerOnMachine` is a
**refinement**: with the detailed builder and detector the worker takes steps that Worker
allows and no other but the loss of its machine (`MachineTaken`, an end of the process), so that what the server runs assume of a worker's builds is true of
these. It maps states to themselves; steps of pipeline and detector are stutters.

### BuildRequest: `resolvePlugins`, `pkg/modversion`, `pkg/db/buildkey.go`

From a request's plugins to the row of its job. `lookup[r][m]` is the goroutine
of the resolver for module `m`: a full version is taken, a missing or `latest` one is asked of
the proxies in order. `Resolved` takes the plugins in any order (the iteration order of a Go
map). `BuildKey` is the sorted configuration: the hash is taken to be injective. `Sort` is what
sort.Strings promises, a rearrangement in order, and not how it comes by it. `jobs` are rows
with the configuration of whoever came first. Module paths are a base and a major version,
versions a major and a number.

### ModuleSelection: `parsePlugins`, `versionedModulePath`, the go gets of `newEnvironment`

What a worker makes of such a row: one `GoGet` per plugin, *in the order of the row*, each
of which may move what the ones before it have pinned. `env` is the environment of one build
at a time, with its go.mod. What a `go get` does is not code of this repository; `GoGot` is
minimal version selection: the module asked for gets the version asked for, what needs a newer
one of it is lowered until it does not, and what is needed is raised. `Needs` says what a
release needs, by itself or through others, of any other module. So the order matters, and the
property has to say when it does not: `JobBuildsRequest` is about plugins that are
`Compatible`, each released and none in need of a newer version of another one than that has.
For them every order ends with the versions the client came to: a `go get` on the way may bring
in another plugin in an older version, or find it there and raise it. For all others the order
may decide, and the key knows nothing of it. Left out:
Caddy itself, which every `go get` names once more, replacements, and the final `go mod tidy`.

### DocumentedClaims

A statement of the README that the code violates, in a run of its own (see *Findings*).

## Runs

`MC*.cfg` gives the constants.

| Run | Checks | Shows |
|---|---|---|
| `queue` | QueueTypeOK, LockIffBuilding, CompletedIsServable, OwnerIsNewestAttempt, VerdictsAreFinal, LockPassesThroughPending | table invariants under any statements: 2 jobs, 2 workers, a row locked by others, rescues at any moment, 2 attempts per job |
| `worker` | ReleaseCoversActive, SemCountsJobs | tokens and release of a worker with 2 slots and 2 jobs, with preemption, stop, crash, one database failure, and an arbitrary queue |
| `server_faults` | OneBuilderPerDisturbance, RetryBudget, HistoryExplainsJob, HealthyWorkerKeepsJob, ImplementsLifecycle | 2 workers, a janitor with its own clock, a client, 2 failures of any kind: one builder and one attempt per disturbance, history agrees with job, healthy workers keep their jobs, clients see a job's lifecycle |
| `server_preempt` | ServerTypeOK, RetryBudget, QueueSpec, RescueLeavesNoOpenAttempt | one of 2 workers is preempted or stopped, 2 rescue cycles overlap, a compat client waits; the server implements `QueueSpec` |
| `server_force` | OneBuilderPerDisturbance, ActiveIsRunning | 2 racing forced rebuilds, a worker with 4 slots that gets the job again while it builds it: with 2 resets no more than 3 of them may build it |
| `live_faults` | BuildsSettle, CompatHandlerEnds | every build settles, retries included, with one failure anywhere (a crash of the first worker included); the compat handler that waits for it races the retry and does not poll past the last verdict |
| `live_preempt` | BuildsSettle, DrainEnds | every build settles although its worker is preempted; that worker ends |
| `artifacts` | ArtifactsMatch, DownloadIsGenuine, CompletedHasFiles | files of an undisturbed job belong together, downloads too; a completed job has files |
| `pipeline` | OneContainer, SuccessIsClean, ZeroExitCounts, LeakExplained, CancelStopsBuild, BuildEnds | one build of 8 commands, with cancellation, both time limits and 2 failures of the daemon at any point |
| `machine` | MachineTypeOK, AckAfterNotice, NoticeHandled, WorkerOnMachine | a notice reaches the worker before Azure may act and ends it, whatever its build is doing; the worker with a real builder is Worker |
| `request` | SameJobForSameConfig, AllOfTheRequest, JobBuildsRequest, RequestEnds | 2 requests with parallel lookups at 2 proxies that fail and lag, then go gets in the row's order; all seven requests below, in every pair |
| `doc_preemption` | PreemptionStopsAllJobs | finds a behaviour that violates a documented claim |

Every property of a passing run has a *mutant*: a definition (marked `Mutant:` in the
modules) changed the way a plausible bug would change the code, under which the same run
finds the property violated.

### Bounds, and why they are enough

* *One job* in the server runs: jobs interact only through the order of claims and the
  slots of a worker, which `queue` and `worker` check with two. *Two workers*: an
  old and a new owner. *Two slots* where the semaphore and the map matter; four in
  `server_force`, one more than the builders its bound allows.
* `MaxAttempts` 2 (schema: 3): one retry and one terminal failure; the proofs about the
  tables hold for every value. It is 1 in the runs about preemption, where any attempt
  beyond the first is one that the budget does not know of.
* `StuckThreshold` 2 ticks as in the code (60 s against 30 s), 1 in `artifacts` and the
  liveness runs, 0 in the runs that leave rescues unconstrained. `MaxAhead` is 1 in
  `server_faults`, where the properties are about healthy workers, and 0 elsewhere.
* `MaxElapsed` 1: a cycle may take one tick, and its cutoff grows older while it runs.
  The clock waits for a cycle at its bound; fairness of the cycles lets it go on. It is 0
  in `queue` (a rescue may come at any moment there), `worker` and `artifacts`.
  `server_force` has no rescue cycle: its resets and retries give a worker its job again.
* `MaxFaults` 2 or 1. The bounds of OneBuilderPerDisturbance and RetryBudget are stated
  per disturbance.
* `AttemptBound` 7 in the server runs is never reached (`RetryBudget` implies it). In
  `artifacts` it is 2: an old builder, dead or late, and a new one. In the unconstrained
  runs (2 in `queue`, 1 in `worker`) it is what ends them.
* `MaxLocked` 0 in all runs but `queue`: rows skipped for a moment are checked there.
* `pipeline`: 2 plugins and a replacement give every kind of command, a go get that is
  followed by a look at its context (those of the plugins) and go gets that are not (the
  first and the last). 2 failures: the one that ends a command and the one that keeps its
  container from being removed.
* `machine`: no plugin, no replacement (5 commands), one slot, one attempt: the part of
  a worker that meets the build and the detector. No failure but the lost acknowledgement and
  the time limits: the failures of daemon and database are those of `pipeline` and `worker`,
  and NoticeHandled is about what happens without one (a release that fails
  is `ReleaseFails` in `worker`). Rescues and heartbeats are left to the server runs.
* `request`: a module with two versions and its second major version, a module of its own, which
  needs the newer of them and is needed by it; asked for together, in versions that are compatible
  and that are not, one module twice, under one name or two, versions that do not fit their
  module's path, and two replacements in either order: with two requests, every pair that the
  key must or must not tell apart, and go gets that raise or lower what an earlier one pinned.
  Without its exception for plugins that are not compatible, JobBuildsRequest fails in this run.
  2 proxies: one to fall back to.
* `live_faults`: 2 attempts, so that a poll of the compat handler can fall before or after the
  retry of a failed one.

Deadlock is checked in the queue, worker, server and artifacts runs, where time can always
pass. `pipeline` and `machine` follow one build and one machine to their end and `request`
answers a fixed set of requests: they stop, and say `CHECK_DEADLOCK FALSE`.

### Fairness

`FairSpec` assumes weak fairness of each claim loop, of each job goroutine, of each
heartbeat goroutine, of the preemption goroutine once an event has come, of each rescue
cycle, of the retry cycle and of each handler, and strong fairness of time: in the model time
waits for a cycle at its bound, in reality it does not, and the ticker starts no infinite number of
cycles in a tick. These are goroutines the Go
runtime schedules, driven by tickers and a scheduler that keep firing; a database
statement ends, with or without an error. It includes that Build returns, and that a cancelled one
does; that is not an assumption of the project: `BuildEnds` and `NoticeHandled` check it with
commands that never end, from weak fairness of the goroutines, of the daemon's answers
and of the timers TimeoutBuild and TimeoutGet (`BuildFairness`, `MachineFairness`). Uploads are
the exception: `Storage.Put` ignores its context and has no limit. `BuildEnds` is content with
the beginning of the upload, `NoticeHandled` needs that the store answers at last
(`StorageAnswers`, an assumption of its own), and so do the liveness properties of the server.
`RequestEnds` assumes that each HTTP request to a proxy ends: the resolver's client has a
limit of 30 s. Nobody is assumed to request a build,
preempt, stop or kill a process or give up waiting. `BuildsSettle` is checked with a
worker that survives, as nobody settles a build without one. `DrainEnds` is about
preemption; the drain of a worker that is told to stop is checked for safety only
(`SemCountsJobs` in `worker`).

## Proofs (`*Proofs`)

TLAPS proves these for any number of jobs, workers, slots, rescue cycles, clients and
plugins, any number of failures, and any values of the bounds, from nothing but the named
assumptions of the modules (the sets the modules need finite are finite, the sentinels are
no members of them, the bounds are natural numbers; `Machine` is about one worker with one
slot; a job counts as stuck only after more time than the janitor's clock is ahead,
`ThresholdAssumption`: the janitor waits 60 s, a worker beats every 30 s). Every module proves one inductive invariant and derives its
theorems from it; `DisturbanceProofs` proves three on top of each other.

| Module | Theorem | States |
|---|---|---|
| `BuildQueueProofs` | `QueueTypeCorrect` | `QueueSpec => []QueueTypeOK` |
| | `LockIffBuildingHolds` | `QueueSpec => []LockIffBuilding` |
| | `CompletedIsServableHolds` | `QueueSpec => []CompletedIsServable` |
| | `OwnerIsNewestAttemptHolds` | `QueueSpec => []OwnerIsNewestAttempt` |
| | `VerdictsAreFinalHolds` | `QueueSpec => VerdictsAreFinal` |
| | `LockPassesThroughPendingHolds` | `QueueSpec => LockPassesThroughPending` |
| `WorkerProofs` | `SemCountsJobsHolds` | `WorkersSpec => []SemCountsJobs` |
| | `ActiveIsRunningHolds` | `WorkersSpec => []ActiveIsRunning` |
| | `ReleaseCoversActiveHolds` | `WorkersSpec => []ReleaseCoversActive` |
| `BuildServerProofs` | `ServerTypeCorrect` | `Spec => []ServerTypeOK` |
| | `ServerImplementsQueue` | `Spec => QueueSpec` |
| | `ServerLocksBuilding` | `Spec => []LockIffBuilding` |
| | `ServerActiveIsRunning` | `Spec => []ActiveIsRunning` |
| | `RescueLeavesNoOpenAttemptHolds` | `Spec => RescueLeavesNoOpenAttempt` |
| `DisturbanceProofs` | `OneBuilderPerDisturbanceHolds` | `Spec => []OneBuilderPerDisturbance` |
| | `RetryBudgetHolds` | `Spec => []RetryBudget` |
| | `HistoryExplainsJobHolds` | `Spec => []HistoryExplainsJob` |
| | `HealthyWorkerKeepsJobHolds` | `Spec => HealthyWorkerKeepsJob` |
| | `ServerImplementsLifecycle` | `Spec => ImplementsLifecycle` |
| `ArtifactsProofs` | `CompletedHasFilesHolds` | `ArtifactsSpec => []CompletedHasFiles` |
| | `ArtifactsMatchHolds` | `ArtifactsSpec => []ArtifactsMatch` |
| | `DownloadIsGenuineHolds` | `ArtifactsSpec => []DownloadIsGenuine` |
| `BuildPipelineProofs` | `PipelineTypeCorrect` | `PipelineSpec => []PipelineTypeOK` |
| | `OneContainerHolds` | `PipelineSpec => []OneContainer` |
| | `SuccessIsCleanHolds` | `PipelineSpec => []SuccessIsClean` |
| | `ZeroExitCountsHolds` | `PipelineSpec => ZeroExitCounts` |
| | `LeakExplainedHolds` | `PipelineSpec => LeakExplained` |
| | `CancelStopsBuildHolds` | `PipelineSpec => CancelStopsBuild` |
| `BuildRequestProofs` | `AllOfTheRequestHolds` | `RequestSpec => []AllOfTheRequest` |
| | `SameJobForSameConfigHolds` | `RequestSpec => []SameJobForSameConfig` |
| | `JobBuildsRequestHolds` | `SelectionSpec => []JobBuildsRequest` |
| `MachineProofs` | `MachineTypeCorrect` | `MachineSpec => []MachineTypeOK` |
| | `AckAfterNoticeHolds` | `MachineSpec => []AckAfterNotice` |
| | `WorkerOnMachineHolds` | `MachineSpec => WorkerOnMachine` |

**The tables.** Typing is inductive by itself, with one lemma per kind of write (`Closed`
keeps a history well typed and of the same length, `Unlocked` keeps a row well typed).
`QueueInv` is typing and the three row invariants; they are proved per job (a
statement that leaves a row and its history alone keeps them, and a claim of a job is a
step from pending to building that appends the attempt of the new owner).
`OwnerIsNewestAttempt` needs `LockIffBuilding` with it: a row that is not building has no
owner to compare. The action properties follow from the typing invariant, one step per
action of `QueueNext`.

**The worker.** `WorkerInv` is typing, the three properties and `GoroutinesAgree`: a
goroutine at work has a key, one with statements to run has a verdict, nothing is cancelled
before the release begins, and the key in the release's hand is one it still has to do.
The properties need each other: what `CancelJob` cancels is the goroutine the map names
(`ActiveIsRunning`), and a token is given back by a goroutine that the map no longer names.
`SemCountsJobs` counts with cardinalities: each step of a goroutine leaves the set of busy
slots alone or adds or removes one. The invariant is kept by every step of one worker
whatever the tables hold, so that it serves BuildServer and Machine as well
(`StepKeeps`, `WorkerStutter`, `EndKeeps`).

**The server.** `ServerImplementsQueue` is the refinement: the initial state of the server is
one of QueueSpec, and each action of a worker, a rescue cycle or a handler is, for the
tables, a statement of `QueueNext` or a stutter; time is the tables' time. So every theorem
of BuildQueueProofs is one about the server; `ServerLocksBuilding` spells that out for the
lock. `ServerInv` is the typing of all parts, `WorkerInv`, and `StuckAreClosed`: between
the two statements of a rescue cycle, what its second statement will reach has no open
attempt. That is what `RescueLeavesNoOpenAttempt` needs, and it is inductive because a claim
and a heartbeat make a row younger than any cutoff already drawn, and time moves row and
cutoff alike.

**The disturbances.** These theorems follow one job k. `JobStep(k)` lists the fourteen things
a step of the server can do to it (it is claimed, handed to a goroutine, a verdict is recorded
and finished, it is requeued by a rescue, a retry, a reset or a release, ...) in terms of four
things alone: its row, its history, `Holders(k)` (the goroutines and claim loops that work on
it) and `Tended(k)` (its owner keeps its row young). The first half of the module proves that
every action does one of them (`StepDoes`), from `JobInv`: `ServerInv`, who resets, what is
cancelled has no heartbeat, a job never inserted has no history. The second half never looks
at an action again.

* *Tended* is what makes the rest inductive. A row that is tended is younger than any
  cutoff: its heartbeat is at most one tick old, and a cutoff at least `StuckThreshold` less
  `MaxAhead`, so at least one. So a
  rescue needs a job that is not tended, and a job stops being tended only by a verdict, a
  fault, a forced reset, a release or the end of its process.
* `HoldersInv`: a job has at most one holder if it is tended, and one more for each fault,
  each reset and each worker that has given up releasing it (`Spent`). A rescue adds no
  holder, it makes room for the next claim, which is why the bound must count the tended job
  and not the built one. `OneBuilderPerDisturbance` is the bound with `Spent` within the
  workers taken down.
* `AttemptsInv`: the attempts, and one more if the job waits or is not tended (`Adrift`: it
  may be claimed again before anything counts its attempts), are at most max_attempts, and one
  for each fault, each reset and each grip on the job that is given up. A worker that is taken
  down can lose the job once for each slot: each time, the job that it tends and the claim it
  has begun count against its slots (`GripFits`: both together need two tokens), so
  that MaxConcurrent per worker in `Disturbances` is enough.
* `StoryInv`: of a job without a disturbance, row and history agree, also between the two
  statements of a verdict: the newest attempt has the status its one holder has left it in.
  It rests on `HoldersInv`, by which that holder is the only one.
* `HealthyWorkerKeepsJobHolds` and `ServerImplementsLifecycle` are read off `JobStep` and the
  two invariants: of an undisturbed job, `Concluded` is the only step that ends a lock, and each
  of the fourteen is a step of BuildLifecycle or a stutter (`LifecycleStep`).

That the set of workers taken down, and the set of resets, is finite is part of the invariants:
the sets of workers and of requests need not be. The bounds were checked with TLC on the
configurations of `server_faults`, `server_force`, `server_preempt` and `artifacts` before they
were proved.

**The files.** `FilesInv` adds to `ServerInv`: a goroutine past a stage of the upload has the
files of the stages before it, a verdict on its way to the tables has its files, and so has a
completed row. The third needs the second, the second the first.

For an undisturbed job there is more to say, on top of `HoldersInv` and `StoryInv`, which hold
of the server with uploads too: an upload that fails is a step of `JobStep`, the others are
stutters. `MatchInv`: the files of such a job are what its builder's upload has got to, under the
number of its newest attempt, and those of a verdict on its way or of a completed job are whole.
It is inductive because the builder is the only holder of the job (`HolderOwns`): nobody else
writes under its key, and only its verdict completes the job. A goroutine that begins to build
takes the job from the claim loop that owns it, so that the attempt it looks up is the newest
(`BuilderBegins`, `OwnersAttempt`). `ClientsInv`: a handler that has passed the look at the job
has a completed job before it, whose files change no more.

**The build.** `PipelineInv` is typing; for each command, what its place in
RunCommandWithNetwork says of its container, its exit code and its copier (`CallAgrees`); the
commands run one after the other (`InOrder`); what is stored is the work of them all
(`AllDone`). `OneContainer` and `SuccessIsClean` are read off it; the action properties
follow step by step.

**The machine.** `MachineInv` is `WorkerInv`, `PipelineInv` and `DetectorInv`: an event
between its sending and its acknowledgement, or acknowledged, is in the channel or known to
the worker, and no event is in the channel when none was announced or the signal is yet to
be taken. `WorkerOnMachineHolds` is the second refinement: what the pipeline makes a build
return is what `BuildReturns` allows, all other steps of builder, daemon and detector are
stutters for the worker.

**The request.** Two halves. The first is about `Sort` and the key, with no state at all:
`KeyTells`, two configurations have the same key exactly if they have the same plugins and the
same replacements, each as often. It needs that a rearrangement in order exists and that it is
the only one, which one would show by induction on the sequence, out of reach here. Instead,
the place of an element is the number of elements before it, those at an earlier place counted
among its equals (`ArrangementExists`: as a function of places it is injective, hence onto,
hence has an inverse); and where two ordered sequences disagree for the first time, the smaller
of the two elements is missing from the other one, which has it less often (`OrderedOnce`,
`Missing`). Least places come from the well-foundedness of < (`LeastNumber`). That the order
is total is `TuplesOrdered`. `SameCompatible` adds that configurations with the same plugins
are compatible together or not at all.

The second half is `RequestInv`: typing; every goroutine's result `Fits` what was asked, and
goes on fitting as versions are published (`PublishedStays`); a configuration has as many
plugins as modules were asked for and each of them in a version that fits; a job has the key
of its configuration, no two have the same, and who is answered has one. `Resolved` is the step
that needs an argument: the plugins found are as many as the modules, since a plugin names its
module whatever its version (`OnePluginEach`), and any order of them has each exactly once
(`OrdersOfSet`). The invariant was checked with TLC on the instance of `request`. Assumed of the
constants: there is a proxy, and module paths, versions and requests have the shape the model
gives them (`RequestAssumption`).

**The versions.** `JobBuildsRequest` follows the go gets of a row by `Settles`: every plugin that
a `go get` has named so far is in its version, whatever is in go.mod is there because of one of
them, in the version it has or needs, and nothing needs more than there is. The next `go get` of
compatible plugins keeps that (`GoGotKeeps`): it lowers nothing, as what is there is needed by, or
is, a plugin that needs no newer version of the one it names, and it raises only what that plugin
needs, which is never one already named. After the last one every plugin has been named. The
invariant is about the row's own order; that the client's plugins are those of the row is
`KeyTells`. Assumed of the constants, beside what the requests assume, is that what releases need
is released, is transitive and is no newer release of itself (`NeedsAssumption`).

**Model-checked only**: all liveness (`BuildsSettle`, `DrainEnds`, `CompatHandlerEnds`, `BuildEnds`,
`NoticeHandled`, `RequestEnds`), which is out of this prover's reach (fairness and ENABLED).
Every invariant and every action property of a passing run is stated by a theorem.

## Findings

| Run | Documented | The code |
|---|---|---|
| `doc_preemption` | README, preemption: "it will stop processing jobs, and mark all its jobs as failed" | a job claimed while the event is handled is neither released nor cancelled, and goes on building |

Divergences that can be read off the models and have no run of their own:

* A late verdict (`db.go:217`) turns a completed build into a failed one; README 5 has the
  client poll "until the build is done, and then hit the artifact download". BuildLifecycle
  says so: the promise ends with a disturbance.
* README 5b: "use the compat endpoint which hangs the get request until the build is done and
  returns it". The server's write timeout of 15 s (`cmd/api/main.go:109`) ends the connection of a
  request that waits longer; the handler polls on and answers nobody: `WriteDeadline` and the
  reply `unsent` in Api.
* `worker.go:364`: "hash uniquely identifies the build". The go gets run in the order of the first
  request (`environment.go:305`), and a later one may raise what an earlier one pinned, or lower it:
  plugins that need newer versions of each other give different builds under one key
  (`Compatible` in ModuleSelection, without which JobBuildsRequest fails).
* The compat handler gives up on the first failed attempt (`api.go:590`), though a retry
  follows; README 5b again. `Poll` in Api.
* ResetBuildAttempts keeps the attempts (`db.go:360-385`, commented "back to pending with 0
  attempts"), so that a forced job has what is left of them. It does not ask for a failed
  job either: a request that read a failed job can take it from a worker that has started
  the retry (`server_force` counts the second builder).
* `api.go:193` says that force resets "failed or completed builds"; a completed build is
  answered before force is looked at (`api.go:181`).
* "Ensure container is removed if we exit early" (`docker.go:243`): the removal uses the
  context of the command, so that a cancelled command's container stays. `LeakExplained`
  says exactly when.
* A command that exits before the wait is registered may be gone by then, and counts as
  failed (`WaitTooLate`; `ZeroExitCounts` has it as its exception).
* The Docker client is not closed when newEnvironment fails (`environment.go:247`):
  `CommandFailed` and `PullFails` in BuildPipeline.
* Two configurations that sort alike and name a module twice (with its major version in
  its path and without), or replace one path twice, share a key, and the order of the first
  decides what is built. The first is one of the exceptions of `Compatible`; replacements are
  not followed beyond the key.
* The version `latest` of Caddy is not resolved by the API (`api.go:390`), but is part of the
  key as it is. `+incompatible` versions get a `/vN` path, and a version like `v2` is an error
  though `utils.go:17` says the input is returned. These concern formats that BuildRequest
  abstracts.

## Not modelled, and why

* **Configuration, logger, migrations, process wiring** (`cmd/api`, `cmd/janitor`, fx): start-up
  only. The stop hook's limit is `Exit` at any time.
* **HTTP connections** but for the write timeout (the other timeouts of the server, a panic in
  a handler), status and health: GiveUp lets a client go at any time, ApiFails lets a
  request fail at any statement.
* **Inside of a command**: flags, environment, mounts, resource limits, network; what `go`
  makes of them; the wording of errors (`classifyBuildError`), which nothing reads back.
* **S3**: its consistency is the library's and the service's.
* **Exists, Delete, RunCommand**: no callers.
* **Several events in one answer of the metadata service**, and events of other machines: one
  stands for all, as the first fills the channel and every one is acknowledged alike.

## Plan

Done: the queue, the worker, the janitor, the handlers and their composition; artifacts; the
build down to its containers; detectors and machine; requests and keys. Proofs of every safety
property of all of these, with the three refinements. Left: from requests to the whole server,
jobs created by BuildRequest under its keys and worked on as in BuildServer, so that
`AllOfTheRequest` and `ArtifactsMatch` together say what a client downloads.

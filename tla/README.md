# A TLA+ model of smarttest-platform

The platform turns test plans into batches of runs, executes each run in a
Runner (a container or a host process), keeps runs, attempts, events and
artifacts in a database and shows them on a page; beside that it load-tests
HTTP services, runs data factory workflows, delivers secrets, imports sources
and supervises its own processes. This directory models the parts in which
processes, threads, transactions, messages, timeouts and crashes meet. TLC
checks them on small instances; TLAPS proves, for every value of their
constants, the safety of all of them: both deployments, the event pipeline,
plans and their batches, load tests, secrets, outbound calls, workflows, the
source store, the API server's sessions, rows and event stream, and the
platform's own operations; and that the SQL repositories of plans and load
tests implement repositories with one lock.

## 1. Inventory

| Component | State | Operations | Talks to |
|---|---|---|---|
| State machines (`services/api/domain.py`) | none | `with_state`, `with_heartbeat`, `with_result` | everything that writes a run or an attempt |
| Run repository (`sql_repository.py`) | runs, attempts with leases, events, artifacts | one transaction each: `create_or_get`, `transition`, `cancel`, `begin_attempt`, `complete_attempt`, `renew_attempt_lease`, `expire_attempt_leases`, `append_event`, `create_artifact` | database |
| Batch coordinator (`execution_coordinator.py`) | the batch's rows | `dispatch_available`, `on_run_finished` | repository, dispatcher |
| Runner Manager (`runner_manager.py`) | the execution in progress | `execute`, `persist_event` | repository, executor, retry scheduler, coordinator |
| Local runner (`local_runner_service.py`) | `_submitted`, pool, one lock per host project | `start`, `stop`, `poll_once`, `_execute_run` | repository, manager |
| Celery (`workers/`) | messages | `prepare_run`, `retry_run`, `recover_lost_attempts` | repository, broker |
| Runner agent, adapters, entrypoint (`runner/`) | sequence number, emit lock, threads; the steps of an HTTP task | `run`, `_emit`, `HTTPAdapter.execute` | its sink |
| Docker and host executors | docker process, reader threads | `execute` | agent, manager, secret broker |
| Event stream and page (`routes.py`, `ExecutionCenter.vue`) | cursor, events shown | `_event_stream`, history, reconnect | repository |
| Secrets (`secret_broker.py`, grants, `secret_files.py`, environments) | encrypted revisions, one-time grants, staged files | edit, rotate, issue, redeem, revoke, stage, clean | executor, repository |
| Load tests (`load_test_*.py`) | definitions, runs, responses, cancellation events, threads | start, cancel, snapshot, flush, recover, shutdown | repository, outbound HTTP |
| Outbound HTTP (`load_test_executor.py`, `connector_client.py`, `data_factory_executor.py`) | pinned addresses, open answer, MCP session | validate, connect, read, close | other servers |
| Data factory (`data_factory_*.py`) | graph, waves, results | validate, execute, debug, save, delete | threads |
| Service control, supervisor, version control | control files, heartbeat, children; index, branch, origin | request, claim, restart; stage, check, commit, push, pull | file system, git |
| Source store (`source_store.py`) | files by digest, git slots, workspaces | `put`, `put_archive`, `import_git`, `validate_reference`, `materialize` | git, disk |
| Test plans (`test_plan_*.py`) | plans, revisions, batches | create, revise, archive, execute | run repository |
| Sessions (`auth_*.py`), parameters, connectors, cases, scripts | rows with versions and foreign keys | setup, login, logout; edits that relate two rows | request threads |
| Projects, AI cases, schemas, web workbench, migrations | rows, pages | see section 6 | API |

What makes them hard: every operation of a repository is a transaction of its
own, so a caller that needs two can be overtaken or die in between; the same
row is looked at by pollers, workers, requests, users and a reaper in another
process; Celery delivers tasks again; leases expire while results are on their
way; events come from four threads through a pipe that closes; name servers
change their answers, git hangs, disks fail, supervisors are killed.
`PROJECT.json` lists each hazard at its line with the properties that would
catch it.

What makes each part correct is stated as the properties of section 3.

## 2. Modules

```
RunDomain            states and transition tables
  RunRepository      rows and transactions; lease clock
    BatchCoordinator claim, dispatch loop, failure of a dispatch
      RunnerManager  RunnerManager.execute, one transaction per step
        LocalRunner          poller, pool, host lock, stop, crash, reaper, cancels
          LocalRunnerProofs
        CeleryOrchestration  broker, Celery workers, managers on nodes, Beat
          CeleryOrchestrationProofs
RunnerAgent          threads of the agent and _emit
  EventPipeline      container and pipe, or host process; persist_event; reaper
    EventPipelineProofs
HttpAdapter          the steps of an HTTP task
  OutboundHttp       every client of another server
SourceStore          uploads, git imports, archives, workspaces
  OutboundHttpProofs   of these two: what reaches the platform from outside
LoadTestRepository   what the load test tables promise (one lock)
LoadTest             service, executor, request threads; implements it
  LoadTestProofs
SecretDelivery       environments, grants, files, containers
  SecretDeliveryProofs
TestPlanRepository   what plans, batches and runs promise (one lock)
PlanExecution        routes over InnoDB transactions; implements it
  PlanExecutionProofs
RequestThreads       server threads and their requests
  AssetCatalog       enums, parameters, connectors, links
  Sessions           setup, login, logout, throttle
  EventStream        events, cursors, SSE, page
    ApiServer        the three behind the authentication middleware
DataFactoryWorkflow  validation, waves, storing of workflow runs
PlatformOperations   restart requests, supervisor, services, git
  ApiServerProofs      of ApiServer and these two, which its routes call
```

`SourceStore`, `DataFactoryWorkflow` and `PlatformOperations` name their
specifications `StoreSpec`, `WorkflowSpec` and `OperationsSpec`, so that their
proofs can stand beside those of another module.

`MC*` modules give the constants of the specification of the same name.

**RunRepository.** An attempt is a pair of run and number. `lease` is the time
left until `lease_expires_at`, so time needs no bound. Every operator is one
transaction. `ExpireAttemptLeases(S)` takes any set of expired rows, because
the reaper skips rows that are locked.

**BatchCoordinator.** `pc`, `todo` and `refill` say where each process is in
`dispatch_available`: claiming under the batch's row lock (one step), then one
dispatch per claimed run, then, if a dispatch failed, another round.

**RunnerManager.** The labels of `pc` are the points between the transactions
of `execute`. The executor is a choice among `ExecutorResults`, one of which is
the identity error that `execute` keeps and raises at its end.

**LocalRunner.** `snapshot` is what `poll_once` has listed and not yet looked
at, `submitted` is `_submitted`, `queue` the part no thread has taken. A crash
forgets everything but the rows. The `except` around `pool.submit`, which makes
a run an infrastructure error when a thread cannot be started, is left out: a
pool that is shut down cannot be met there, because `stop` joins the poller
first.

**CeleryOrchestration.** `broker` holds messages that were not acknowledged. A
handler's return removes its message or, up to `Redeliveries` times, leaves it
there; a send may raise after the broker has accepted it. `retry_run` is two
steps with a possible crash in between. How a `DISPATCHING` run reaches a
Runner Manager is not in the repository, so any idle manager may pick it up,
also two at once.

**RunnerAgent, EventPipeline.** `EmitBegin` takes the emit lock and numbers
the event, `Emitted` is the sink returning, or raising into the thread that
emits. `pipe` is everything between the agent's `write` and the reader's
`readline`. `reader` walks through `persist_event`: store the file, insert the
row, renew the lease, append the event. On a host there is no pipe:
`persist_event` is the agent's sink. Closing a stream another thread reads
makes its next read raise `ValueError` outside the reader's `try`.

**HttpAdapter, OutboundHttp.** A call walks through `resolve`, `render`,
`connect`, `read`, `answer`. `pinned` is the answer the client validated,
`todo` the addresses not yet tried. An address is of one of the kinds the
clients tell apart, 6to4 and Teredo tunnels among them, which the connector's
list of blocked networks names and the load test's does not. The name server
may rebind the name between any two steps; a server may send, and page,
without end. An HTTP task runs before steps, main request and after steps over
the names earlier steps extracted. `asking` says that a step's request is out
(`SendRequest`), which then fails, is answered, or never is. `StepRaises` is an
exception that no handler of `_execute` names, and that the agent makes an
`INFRA_ERROR`.

**LoadTest.** `exec[r]` is the place in `_execute` between two transactions,
`thread[t]` the place and locals of a request thread. Every transaction may
raise instead. Requests are numbered by `metrics.add`; a snapshot carries the
count its thread saw. `LoadTestRepository` is `load_test_repository.py`, whose
operations hold one lock; the refinement is the identity on `plan`, `row` and
`responses`.

**DataFactoryWorkflow.** A graph is any member of `Graphs`, invalid ones
included. A wave's nodes finish in any order; their results are applied in the
order the code applies them. `ReadyNodes`, `Skipped` and `Visited` are the code's
sets, compared with reference definitions over the graph. The loop ends in
`save` when nothing is pending at its head, and in `stuck`, the error "could not
make progress", when a pass over pending nodes finds none ready, also because
it has skipped all of them.

**PlatformOperations.** Restart requests go through two control files. The
supervisor is one loop with six places and may be killed between any two, its
children living on; `born` says after which request a process was started.
What became of a request is kept in `replaced` (a later one took its place
before it was claimed) and `dropped` (its claimed file could not be read, and
was removed as garbage is). A publish is one git command per step; people edit
the tree in between, but only publish stages and commits: what is committed or
staged by hand, which publish pushes too (`README.md:72`), is outside
`PublishIsSound`.

**SourceStore.** A source is a text, an archive or a host directory. Up to
three threads store it at the same time, by upload or by git, whose process,
pipe, reader thread and time limits are separate steps. `held` says that a
child of git has the pipe as well; it may write, and outlive the git that was
killed. `stdout.close()` (`CloseStdout`) waits as long as the reader is in
`stdout.read`, whose lock it needs.

**SecretDelivery.** Revisions of one environment are edited from pages that
may be stale, encrypted under keys that rotate. An attempt's capability is
issued, redeemed, resolved, staged and revoked, while leases and grants
expire, calls fail and the executor dies.

**TestPlanRepository, PlanExecution.** The abstract module does each operation
in one step, answer included. `PlanExecution` does what the routes and SQL
repositories do: locks on plan rows, plain reads, inserts that wait for another
transaction's key, savepoints, commits, lost answers and retries. Its mapping
hides transactions: an uncommitted row is not there, and an operation happens
at its commit.

**RequestThreads, AssetCatalog, Sessions, EventStream, ApiServer.** A request
is taken by an idle thread, authenticated, and served in the steps of its
handler. Row locks are variables; the foreign key check of an insert locks in
shared mode. An event's cursor is handed out when it is flushed and seen when
it is committed. The page fetches history, subscribes, reconnects with the
last cursor and changes its selection while answers are under way.

Definitions whose comment begins with "Mutant" are changed versions of a
definition below them, used to show that a property can fail; no specification
uses them.

## 3. Runs

A property named below in parentheses is a part of the property before them.

**`local`**: two runs in a batch with `max_parallel` 1, two threads sharing a
host lock, success, infrastructure and identity errors, a cancel, the reaper, a
stop and a crash. `TypeOK`; `LeaseHasLiveRun` (nobody ends a run under a live
attempt); `VerdictIsBacked` (a run's verdict is its last attempt's);
`BoundedParallelism`; `NoDoubleExecution`; `TerminalIsFinal`; `RunsConverge`
(`LeasesEnd`, `RunningConvergesUnlessCrashed`, `UndisturbedBatchDrains`).

**`celery`**: one run with up to three attempts, two managers, a Celery worker,
a redelivery, sends that raise although accepted, a cancel, one crash of each
kind. `AttemptsAreSound` (`TypeOK`, `OneLiveAttempt`, `AttemptsBounded`,
`VerdictIsBacked`), `TerminalIsFinal`, `RetriesResume`.

**`event_pipeline`**: four emitting threads in a container behind a pipe of two
lines, or in the manager's process with a sink that raises; failing
persistence, a dying container, a deadline, the reaper. `RecordIsConsistent`
(`TypeOK`, `EventsInOrder`, `ArtifactsAreBacked`), `ReportedResultIsComplete`,
`NoEventAfterReport`, `ExecutorReturns`.

**`load_test`**: two request threads, a scenario in count mode or single
requests in duration mode, batches, snapshots, cancel, shutdown, a failing
transaction, a crash. `RecordIsFaithful` (`TypeOK`, `SuccessIsComplete`,
`RunOnlyAdvances`), `RunsAreEnded` (`RunningIsReachable`, `RunsEnd`),
`RepositorySpec` (the refinement).

**`outbound`**: each client against a name server that changes its mind and
servers that do not stop; 17 HTTP tasks. `ConnectionsArePermitted`,
`AnswersAreUsedWhole` (`TypeOK`, `BodyIsBounded`, `ExtractedFromWhole`,
`DiscoveryIsComplete`), `TaskRunsToItsEnd` (`AfterStepsRun`,
`OutcomeIsFirstFailure`), `CallsEndClosed` (`AnswersAreClosed`, `CallEnds`).

**`workflow`**: graphs of three nodes with up to three edges, every outcome of
every node, every order in a wave. `ValidationDecides` (`ValidationIsExact`,
`NothingStaysPending`), `WavesAreDeterministic` (`WorkflowTypeOK`,
`WaveIsBounded`, `UpstreamIsSeen`, `FinishOrderIsInvisible`), `ExecutionIsComplete`
(`ExecutedIfReached`, `RunsHaveWorkflow`, `ExecutionEnds`).

**`operations`**: two requests (one beside git), two paths of which one is
sensitive, one fault at any step. `RequestsSurvive` (`OperationsTypeOK`,
`RequestIsNeverLost`, `ClaimedIsNotReplaced`), `PublishIsSound` (`NothingSensitivePublished`,
`PublishedIsPushed`), `SupervisorDelivers` (`RestartHappens`,
`ServicesComeBack`).

**`source_store`**: every archive of up to two entries over four names (two
that differ in case, one inside another, one unsafe), archives at the limits,
texts, a host directory; three importers, one git slot, a pipe of one chunk,
a child of git or none; one fault.
`AcceptedCanRun` (`StoreTypeOK`, `AcceptedExtracts`, `WorkspaceIsExact`,
`VersionCanRun`), `OnlyWholeContents` (`BeginningIsRefused`, `StoredIsWhole`),
`ImportsFinish` (`SlotsAreReturned`, `ImportEnds`).

**`secrets`**: two secrets, three revisions, a key rotation, two attempts, one
fault. `SecretsAreExact` (`NoLostUpdate`, `SecretsStayReadable`,
`ContainerSeesPinned`), `CapabilitiesAreSpent` (`TypeOK`, `NothingLeftBehind`,
`ConsumedOrRevoked`), `DeliveryEnds`.

**`plans`**: two plans, one key, two threads, three requests, a lost answer or
a failed dispatch. `RequestsAreIdempotent` (`TypeOK`, `OneRowPerKey`,
`DispatchedOnce`), `BatchRunsItsPins` (`BatchIsPinned`, `TargetWasFit`,
`PlansStayRunnable`), `RepositoryIsImplemented` (`RepositorySpec`, the
refinement, and `RequestsEnd`).

**`api_server`**: three threads and three requests of each of five workloads,
three events. `SessionsAreSound` (`OneAdmin`, `FailuresBounded`,
`SlotsAreReturned`, `LoggedOutStaysOut`), `PageIsFaithful` (`ShownIsSelected`,
`NothingPassedOver`), `RowsStayConsistent` (versions, defaults, links and
connector tests across two rows), `EverybodyIsServed` (`RequestsEnd`,
`EventsArrive`).

**`local_cancel_stuck`** (expects a violation of `CancelConverges`): a run
cancelled before a worker has it stays `CANCELLING` and keeps its slot of
`max_parallel`, although `docs/platform-design.md:450` promises that queued
runs can be cancelled and converge.

**Bounds.** `AttemptBound` is larger than the policy's `MaxAttempts` wherever
`AttemptsBounded` is checked, so that one attempt too many would be seen.
`LeaseSeconds` is 1: a lease is alive or expired, and a heartbeat makes it
alive again. Two runs with one slot are enough for a refill that races with a
finishing run; more runs and slots are covered by the proof. Stops, crashes,
redeliveries and faults are bounded by one each, which lets the failure hit
every point; two failures in the same behaviour are out of reach except where
a proof covers them. `MaxOutput` 3 lets logs, artifacts and heartbeats appear
at every place among the agent's events. In `outbound`, four pages of two
tools go past `MaxTools` 5, and `BodyLimit` 2 lets a body end before, at and
after the limit. In `load_test`, `MaxTotal` 2 is both targets of a scenario or
two requests of two threads, and `BatchSize` 2 leaves batches full and partly
full; one run is enough because the service runs one at a time (the proof
covers more). In `secrets`, a stale page sent again stands for a second
editor. A workload of `api_server` holds the operations that share rows;
operations of different workloads share none but the session.
In `source_store` one slot lets an import from git run beside uploads of the
same content and others be refused; that two are counted right is proved.
`MaxRequestsWithGit` keeps the two halves of `operations` from multiplying.
No run uses symmetry, because every run has a liveness property.
`CHECK_DEADLOCK FALSE` is set where everything may come to an end: `celery`,
which has no poller, `event_pipeline`, which is one execution, and
`source_store`, `plans` and `api_server`, whose requests are bounded.

**Fairness.** Threads of a process that is up take their steps: executors have
deadlines, requests time out, poll loops wake, a wait for a row ends with the
transaction that holds it, and a stopped or crashed service is started again
by its supervisor. Celery delivers what it holds and Beat runs the reaper.
Time passes. No user has to do anything, nothing has to fail, and a message may
be redelivered but need not be. In `event_pipeline` only the executor's own
thread is fair: container, reader and reaper owe nothing. In `source_store`
the threads of the API are fair, the one that reads git's output too, and git
and its children owe nothing: `ImportEnds` speaks of behaviours in which no
child keeps the pipe for ever. In `outbound` the API's clients limit each
answer and each read, so that their steps are fair; the adapter's are fair
except while a request is out, because `session.request` limits only the time
between two reads, so that `CallEnds` leaves out a request that is never
answered to its end. In `operations` nobody has to
start the supervisor: `RestartHappens` speaks of behaviours in which it is up
again and again.

## 4. Proofs

| Theorem | States | Module |
|---|---|---|
| `TypeCorrect` | `Spec => []TypeOK` | `LocalRunnerProofs` |
| `InvariantHolds` | `Spec => []LocalInv` | |
| `LeasesAreLive`, `VerdictsAreBacked`, `ExecutedOnce` | its conjuncts `LeaseHasLiveRun`, `VerdictIsBacked`, `NoDoubleExecution` | |
| `TerminalStatesAreFinal` | `Spec => TerminalIsFinal` | |
| `ParallelismIsBounded` | `Spec => []BoundedParallelism` | |
| `AttemptsStaySound` | `Spec => []AttemptsAreSound` | `CeleryOrchestrationProofs` |
| `TerminalStatesStay` | `Spec => TerminalIsFinal` | |
| `RecordStaysConsistent` | `Spec => []RecordIsConsistent` | `EventPipelineProofs` |
| `ReportsAreComplete` | `Spec => []ReportedResultIsComplete` | |
| `ReportsAreFinal` | `Spec => NoEventAfterReport` | |
| `ImplementsRepository` | `Spec => RepositorySpec` | `LoadTestProofs` |
| `RecordStaysFaithful` | `Spec => RecordIsFaithful` | |
| `RunsStayReachable` | `Spec => []RunningIsReachable` | |
| `OnlyPermittedConnections` | `Spec => []ConnectionsArePermitted` | `OutboundHttpProofs` |
| `WholeAnswersAreUsed` | `Spec => []AnswersAreUsedWhole` | |
| `TasksRunToTheirEnd` | `Spec => []TaskRunsToItsEnd` | |
| `AnswersStayClosed` | `Spec => AnswersAreClosed` | |
| `ContentsStayWhole` | `StoreSpec => OnlyWholeContents` | |
| `AcceptedVersionsRun` | `StoreSpec => []AcceptedCanRun` | |
| `SlotsStayReturned` | `StoreSpec => []SlotsAreReturned` | |
| `SecretsStayExact` | `Spec => []SecretsAreExact` | `SecretDeliveryProofs` |
| `CapabilitiesStaySpent` | `Spec => []CapabilitiesAreSpent` | |
| `RequestsStayIdempotent` | `Spec => []RequestsAreIdempotent` | `PlanExecutionProofs` |
| `BatchesRunTheirPins` | `Spec => []BatchRunsItsPins` | |
| `ImplementsRepository` | `Spec => RepositorySpec` | |
| `SessionsStaySound` | `Spec => []SessionsAreSound` | `ApiServerProofs` |
| `PageStaysFaithful` | `Spec => []PageIsFaithful` | |
| `RowsAreConsistent` | `Spec => RowsStayConsistent` | |
| `ValidationIsDecisive` | `WorkflowSpec => []ValidationDecides` | |
| `WavesStayDeterministic` | `WorkflowSpec => []WavesAreDeterministic` | |
| `ReachedIsExecuted` | `WorkflowSpec => [](ExecutedIfReached /\ RunsHaveWorkflow)` | |
| `RequestsAreKept` | `OperationsSpec => []RequestsSurvive` | |
| `PublishingIsSound` | `OperationsSpec => PublishIsSound` | |

They hold for all values of the constants that satisfy the assumptions named
in the modules: bounds are natural numbers, limits are not zero, model values
such as `NoKey`, `NoLine` and `Nobody` lie outside the sets they are added to.
Four say more. `LoadTestAssumption`: a load test has at least one and finitely
many request threads. `PlansAssumption`: a task of the HTTP adapter has before
steps, one main request and after steps, in that order, as `http.py` builds
it. `BoundsAssumption` of `PlanExecution` leaves room for the three revisions
the initial state's script already has. `SecretAssumption` wants room for at
least one revision and one attempt. TLC evaluates all of them in the runs.

Each proof starts from an inductive invariant, which TLC first checked on the
run's own instance.

**LocalRunner.** `VerdictIsBacked` is not inductive: a worker that is about to
settle a run writes its verdict without looking at the attempt again. What
makes that right is that nobody else can have touched the run: `WorkerInv`
says, for every label of `execute`, which states the worker's own attempt may
be in and that the run has no other live attempt; `PoolInv` that a run is with
at most one of the claimers, the poller and queue, and a worker; `TodoInv` the
same of the claimers; `LeaseIsLast` that only a run's last attempt can be
leased. `TerminalIsFinal` follows because every write goes through the
transition tables (`Moves`). `BoundedParallelism` is a cardinality argument:
only a claim adds an occupied run, and at most what is available.

**CeleryOrchestration.** Here any number of managers may have picked up the
same run. `OneHolder` says that at most one of them is past `begin_attempt`:
beginning an attempt takes the run out of `AwaitsAttempt`, and only the
holder's own retry takes it back. `Holder` then ties the manager to the run's
last attempt and, once that has a verdict, to the verdict; `Row` says that a
run which awaits an attempt has one left, that only its last attempt is
leased, and that its verdict is backed. `LeaseHasLiveRun` is not claimed, see
section 5. Messages need no invariant but their type: a duplicate, late or
lost one only decides who asks.

**EventPipeline.** `PipeInv` is the queue argument: what is persisted, the
line in the reader's hands and the lines in the pipe are one consecutive
sequence that ends at the agent's counter, with at most one result line in
it; what lies before that line is a whole record, and no error comes after it
(only a heartbeat can). `Emission` says which types `run()` has emitted at
each of its phases. On the host there is no pipe: `HostInv` allows the number
of an event whose row was committed although the call failed to be used once
more. `ReaderInv` makes `persist_event`'s order (store, row, event) into
`ArtifactsAreBacked`.

**LoadTest.** That a step is an operation of the repository depends on who may
write: `AddRunResponses` needs a row that is there, `UpdateRun` a run that is
`RUNNING`, and the row is deleted by another request. `HandsInv` says that a
run which is executed, or created and not yet submitted, is `RUNNING`, that
nothing is executed while the service is down (so that recovery takes a run
from nobody), and that a final status is one the repository knows. With
`TablesInv` (one `RUNNING` run at a time, no rows without a test) this makes
`DeleteLoadTest` wait for all of them. `ThreadInv` and `CountsInv` bound what
threads write. One lemma per group of actions gives both the invariant and the
repository's step.

`RecordIsFaithful` takes `RecordInv` on top of it. Totals: what `_execute` has
last seen of the row is what the row says, and no thread has seen more than
was counted, so a snapshot that overtakes another cannot take the row back.
Responses: every request made is stored, kept back or in the hands of the
thread that made it, unless a thread raised, and then the run goes to the
handler. Requests: in COUNT mode the answered requests or scenarios and the
claims in flight (`Flying`, counted with the cardinality lemmas of
`FiniteSetTheorems`) add up to the shared sequence, as long as the run is not
cancelled; a thread ends its loop only when the sequence is used up, and there
is at least one thread (`LoadTestAssumption`; without it the property is
false).

`RunningIsReachable` takes `ReachInv`: besides the property itself, a run whose
`_execute` is at its `finally` is not `RUNNING` any more, so that removing it
from `_cancellations` takes it from nobody. Every path that breaks this has
counted a raised transaction.

**OutboundHttp.** `PinnedInv`: what is pinned was permitted when it was
validated, permissions do not change during a call, and what is tried or open
is taken from what is pinned, never from a second look-up. `UseInv` counts:
requests and pages left, chunks held, and that the tools read so far are those
before the cursor, as long as answers belong to their requests. `TaskInv`
follows an HTTP task step by step: up to the main request nothing has failed,
behind it the result is that of the first failure that counts and every after
step passed has an outcome (`TaskAt`); or a step has raised, the task is over
and the after steps before that step have theirs (`TaskRaised`). `ClosedInv`: an answer is open only between
`connect` and the step that uses or drops it.

**SourceStore.** `JobOK` says who can hold what: only an import from git has a
reader and may hold the beginning of an archive, and what is about to replace
a stored file was accepted whole. `SlotsOK` counts the slots against the set
of git imports with the cardinality lemmas. `StoredOK` carries what was checked
at the upload to the versions that refer to it, and `WorkspaceOK` to the
unpacking: `ExtractOK` says that the files before the next entry are there,
and that the size so far is a running total of the archive's sizes.
`NextFileFits` is the heart of it: totals only grow (`TotalsGrow`), directories
add nothing (`TotalsFlat`), so a file fits because the whole archive did when
`put_archive` read it; its name is free because `NoDuplicates` and
`NoFileIsParent` compared all names folded. That the recursive sum has running
totals at all is `AddedUpTotals`.

**SecretDelivery.** `Faithful` ties a revision to the one before it and its
sealed values to what was saved; revisions are only appended, so a pinned one
stays what it is whatever editors and rotations do. `Having` says what an
executor at each place has of its capability, the opened values and the files;
`Clean` the same where nothing has failed. An executor touches only its own
attempt (`OthersKeep`).

**PlanExecution.** Tables only grow (`TablesInv`, `RefsGrow`): what a thread
has read of a revision stays true. What it will write must still be current:
`Writer` says that a thread which has read the plan's last revision and is
going to write holds the plan's row, `Owner` that nobody else does. `Inserter`
and `PendingInv` say that a key has one uncommitted row, of a thread that will
commit or roll back, and none while a committed one exists; `Dispatcher` that
a committed row is in the hands of at most one thread until it is dispatched.
`Budget` bounds rows by requests. The refinement takes the same invariant:
each commit is the abstract operation with its answer, every other step leaves
`TestPlanRepository` alone. The run's `RepositoryIsImplemented` adds
`RequestsEnd`, which is liveness and only model-checked.

**ApiServer.** Three invariants, one for each part behind the middleware.
`SessionInv` says where a thread can be with each kind of request and that one
sent after its session's logout has not got past the middleware; one
administrator follows because the bootstrap row is held from the check to the
commit. `StreamInv`: a cursor is handed out once and below the counter; an
answered fetch and a listing `Covers` the committed events of their run from
their cursor on, except those that were overtaken, and the page has shown all
the stream has `Passed`; a fetch with the page's token asked for the page's
run. `RowsInv` says for every request what it has checked and why it still
holds: because it holds the row's lock until it commits, or because it compares
the version it has read, which only grows. Its counts bound identities and
versions by the requests made.

**DataFactoryWorkflow.** Validation and skipping are rounds over the graph,
written as recursive functions. The library's induction theorems take an
operator and cannot be used here, so they are unfolded by induction over a set:
`LeastNumber` (a set of naturals that is not empty has a least element, from
`WFMin`) gives `UpTo`. Rounds that grow stop after as many rounds as there are
nodes, by cardinality (`Saturates`), so the graph is accepted exactly if it has
no cycle; an accepted graph then has, among the nodes that are not settled, one
whose sources all are, which the scheduler makes ready or skips.
`WorkflowInv` says that what is settled has settled sources and that waves are
numbered in order, which makes the last writer of a variable independent of
the order in which threads finish. The proof corrected the model in two places:
the loop's error after a pass that skips everything, and the limit of a skipped
parallel node, which takes four nodes to matter (the last two items of
section 5).

**PlatformOperations.** For requests, the invariant ties the supervisor's
place in its loop to the file it has claimed and to the processes it has
stopped: until the claim is removed, the file is there or its processes are
gone. `FateInv` says that a request which nobody has claimed was neither
replaced nor dropped and is not the claimed one, so that writing a new file
over it replaces nothing the supervisor has seen. For publishing, what is about to be committed is free of sensitive paths
and stays so although the tree is edited, because only `git add` fills the
index and every way from it to a commit goes through the check.

Model-checked only: all liveness, which needs fairness and `ENABLED`
(`RunsConverge`, `RetriesResume`, `ExecutorReturns`, `RunsEnd`, `CallEnds`,
`ExecutionEnds`, `SupervisorDelivers`, `ImportEnds`, `DeliveryEnds`,
`RequestsEnd`, `EventsArrive`). Where a run's property states safety beside it
(`RunsAreEnded`, `CallsEndClosed`, `ExecutionIsComplete`, `ImportsFinish`,
`RepositoryIsImplemented`), the safety is a theorem of its own.

## 5. Where the code falls short of its documents

The run `local_cancel_stuck` shows the first. The others shaped properties
that leave exactly these cases out, and say so in their comments.

* A crash between an attempt's and its run's last transaction
  (`runner_manager.py:139`) leaves the run `RUNNING`;
  `docs/platform-design.md:450` says the terminal state converges.
* Nobody refills a batch whose run the reaper ended (`runner_manager.py:135`);
  `README.md:90` says slots are refilled on completion.
* A cancel after the manager's check turns a success into `INFRA_ERROR`
  (`runner_manager.py:161`).
* A worker lost inside `retry_run` leaves the run `QUEUED`
  (`workers/tasks.py:92`); `docs/platform-design.md:223` calls tasks
  idempotent. A redelivered `retry_run` may also release a later wait early.
* With three attempts, the first manager's failed `schedule` can end a run
  whose second attempt has begun (`runner_manager.py:153`), so that
  `LeaseHasLiveRun` is not claimed of the Celery deployment.
* The docker client closes stdout before the reader has drained it
  (`docker_executor.py:143`): a result that was written can be lost. It is then
  reported as an infrastructure error, never as a wrong verdict.
* A cursor is given out when an event is flushed and seen when it is
  committed: a stream that has passed a later cursor misses the earlier event
  (`sql_repository.py:343`).
* The page does not know the event type `extraction` nor the state
  `RETRY_WAIT`, and closes its stream at the first `finished` event, also of a
  run that will be retried.
* A default of a parameter is checked against an enumeration that may change
  in another transaction (`parameter_sql_repository.py:171`).
* A heartbeat of a host execution may arrive after the executor has returned.
* A first read of `_execute` that raises leaves a load test `RUNNING` until
  the next restart (`load_test_service.py:79`).
* A workflow whose last pending nodes are all skipped, as behind a failure edge
  that is not taken, ends with "workflow scheduling could not make progress"
  and its results are lost (`data_factory_executor.py:224`), although
  `README.md:148` says that such edges control the flow. `NothingStaysPending`
  says that this is the only way the loop gets stuck.
* The limit of a parallel node that was skipped does not count
  (`_wave_limit`, `data_factory_executor.py:252`), so `WaveIsBounded` speaks of
  those that were executed.
* A JSON path that points behind the end of a list raises `IndexError`
  (`http.py:250`), which neither `_assert` nor `_extract` nor `_execute` names:
  the task becomes an `INFRA_ERROR` whatever failed before, also when the
  extraction was not required, and the after steps behind that step are not
  executed. `AfterStepsRun` and `OutcomeIsFirstFailure` leave out exactly this.
* The adapter reads an answer of any length with a timeout per read
  (`http.py:123`): a server that keeps sending keeps the task until the
  deadline of the container around it. `CallEnds` leaves it out.
* A load test reaches 6to4 addresses where Python calls them global, and 6to4
  and Teredo addresses of a host listed as private
  (`load_test_executor.py:46`), which connectors refuse; a data factory node
  reaches the 6to4 ones. `ConnectionsArePermitted` says so.
* A restart request whose claimed file cannot be read at the moment is removed
  as if it were garbage (`_read_json`, `platform_supervisor.py:56` and `155`):
  `RequestIsNeverLost` and `RestartHappens` leave it out.
* A child of git that outlives it keeps the pipe open: the reader stays in its
  `read`, `stdout.close()` waits behind it (`source_store.py:497`), and the
  import and its slot with it. `ImportEnds` leaves out one that never ends.

## 6. Not modelled

* **Projects**: rows on their own; deletion asks the other repositories in
  turn, under no lock. **AI case generation**: one external call and the
  validation of its answer. **Schemas, protocol models, configuration**:
  declarations; their bounds are constants here. **Web workbench**:
  presentation, except the execution page. **Migrations and scripts**.
* `create_attempt` and `claim_attempt`, which no deployment calls, and the
  in-memory repositories, except as the abstract specifications.
* Creation and listing of single rows in the catalogue; listing and name
  checks of environments; response headers and exception handlers.
* Contents of tasks, events and answers where no property depends on them;
  latency statistics; hashing and encryption, which are library calls.
* `local_runner_service.py` builds its Docker executor without a secret
  broker, so `SecretDelivery` describes the executor as it is when given one.
* Database failures other than those the modules name.

## 7. Plan

Every invariant and action property the runs check is proved. What is left is
breadth: projects, whose deletion asks eight repositories without a lock, and
the in-memory run repository as an abstract specification of the SQL one, as
`TestPlanRepository` and `LoadTestRepository` are of theirs.

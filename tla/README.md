# ANAS in TLA+

ANAS turns a machine into a home server: a command line tool and a console
daemon, `anasd`, that plan, apply and roll back deployments of application
modules, and a privileged helper, `anas-hostd`, that changes the host itself.
This directory holds TLA+ models of the parts with concurrent or durable state,
the TLC configurations that check them on small instances, and TLAPS proofs of
the properties that matter most.

Everything is translated from the Go code. `PROJECT.json` maps each definition
to the lines it stands for, lists the runs, and names for each property a
plausible bug that the run catches.

## The system

| part | code | state | what makes it hard |
|---|---|---|---|
| job store | `internal/consolejobs` | job table, confirmations, retry keys, events | admission, claims, cancellation and recovery from several goroutines; a daemon that dies while a job changes a workspace |
| job journal | `internal/consolejobs` (`journal.go`, `compaction.go`, `journal_receipts.go`) | `jobs.jsonl`, caches of several handles | torn lines, failed fsync, replacement by rename, crash and power loss between any two steps |
| executor | `internal/jobexecutor/executor.go` | one worker per workspace, registry of running operations | cancellation racing completion, each terminal write may fail, compensation |
| host actions | `internal/jobexecutor/host_action_*.go`, `internal/hostaction` | owner goroutine, hostd processes, invocation ledger | two processes and a stream that can break anywhere; the ledger decides afterwards |
| host confirmations | `internal/hostconfirmation` | approval ledger shared by anasd and hostd | one-use approvals across two processes |
| module actions | `internal/jobexecutor/module_action_*.go` | worker process, containment, quarantine | a process that cannot be stopped |
| configuration | `internal/runner` (`config_*.go`) | `config.yml`, Secret Store, managed state, a redo journal | three files replaced together, clients that compare and swap, an editor that takes no lock |
| deployments and credentials | `internal/runner` (`deployment*.go`, `credential_*.go`, `postgres_maintenance.go`) | sealed deployments, their states, the rotation journal, the Secret Store, containers | activation, rollback and rotation in many steps, each of which may fail or be the last one |
| backup, snapshot, restore | `internal/runner` (`backup_*.go`, `snapshot*.go`, `restore_guard.go`) | container transactions, snapshots, the data tree, guards | services that are down while somebody else's recovery runs; half-replaced data |
| audit | `internal/audit` | hash-chained journal | rotation, recovery |
| console auth, state, TLS | `internal/consoleauth`, `internal/consolestate`, `internal/consoletls` | sessions, capability state, certificates | monotonic state across restarts |
| Incus provisioning | `internal/incusprovision` | effect intents | partial effects on the host |
| the rest | catalogs, configuration, rendering, web console, modules, tools | none, or files written as a whole | sequential code, text and I/O |

How they interact: HTTP routes create jobs in the store; the executor and the
host action service claim them, run them and write their terminal states back
through the store; every write of the store is a batch of lines of the journal;
a confirmed host action spends an approval that hostd claims before it changes
anything. A job of the executor runs one operation of `internal/runner`, under
the exclusive lock of the workspace; the command line runs the same operations
under the same lock. Whoever takes it first rolls a configuration transaction
forward, starts again what a backup left stopped and settles an interrupted
credential rotation. A restart turns every running job into an interrupted one, and the
compensation marker or the execution barrier of that job keeps later writers
out.

What must hold, in the order of importance used here:

1. two mutating jobs never work on a workspace at once, also across crashes;
2. what was half done is fenced until somebody has looked at it;
3. a job reports what happened: no success after an accepted cancellation, no
   "not started" after a change, no invented outcome;
4. what was reported as committed is still there after a crash;
5. approvals and confirmations are spent once, requests take effect once;
6. containers, credentials and data belong together: nothing runs on data that
   is half restored, or with credentials the Secret Store does not have;
7. a configuration is replaced as a whole, by a client who has seen the one it
   replaces, or not at all;
8. jobs come to an end, and so does what an interrupted operation left behind.

## Modules

### JobStore

The job table and every operation on it, each one atomic as it runs under
`jobs.lock`. A job is a record of the fields the rules look at (workspace,
mutating, action policy, status, error code, compensation marker, the plan and
step-up proof it spent); ids are `1..MaxJobs` in order of creation.

| actions | code |
|---|---|
| `CreateOrGetObserved`, `CreateOrGetConfirmedObserved`, `CreateActionWithPolicyObserved` | admission: limits, confirmation and step-up checks, reject, queue and coalesce policies |
| `StartObserved`, `StartActionObserved`, `ClaimNextObserved` | `canStart` and the three ways to it |
| `TransitionObserved`, `FinishQueuedObserved`, `FinishQueuedAction`, `CompleteActionObserved`, `RequestActionCancelObserved` | the ways a job ends or is asked to |
| `AcknowledgeCompensation`, `ConfirmationExpires` | compensation, time |
| `AcquireExecutionLease`, `RecoverInterruptedJobsObserved`, `MarkUnavailable`, `Crash` | the daemon's life; after a failed append its store refuses everything until a restart |

A coalesced or rejected creation leaves the table alone, so the two policies
admit the same jobs; the run uses `queue`.

### JobExecutor

`JobExecutor` EXTENDS `JobStore` with the executor: one worker per workspace
with the program counter of `execute`, the registry of running operations, one
`Cancel` request in flight (its read of the job and its write are two steps),
the events of each job, and the faults the code handles: a refused write at any
point, a failing compensation check, a timeout, a revoked actor, shutdown,
crash. An operation is begun and returns one of its results. What it did to the
workspace is `halfDone`: nothing was left half done, it was cut short and its
error names the ended context (`"cut"`), or it was cut short and answered with an
error of its own, as a killed process does (`"masked"`).

A queued cancellation or rejection is one append of two lines, the event and the
job (`FinishQueued`). The append may tear between them, and then the event stays
alone and the store has failed. A refused write leaves the store as it is
(`WriteFails`), a failed append does not (`StoreFails`).

Every worker step is one operation of the store or leaves it alone, so
`JobStore!Spec` is the abstract specification and `JobExecutor` the detailed
one; both the run `executor_faults` and the theorem `ExecutorRefinesStore` say
so.

### JobJournal

Below the store: the lines of `jobs.jsonl`. A file is a sequence of lines with
a torn tail, an epoch (what its modification time tells) and the number of
fsynced lines; `path` is the file the name leads to and `durable` the one it
leads to after a power loss. A handle belongs to the process that opened it,
caches a replayed state, and goes through `withState` in steps: adopt the
canonical file, refresh, decide, append, fsync, or write a checkpoint, rename
it and fsync the directory. Jobs are reduced to one per idempotency key, since
the journal never looks at two of them together.

### HostAction

The owner goroutine of `HostActionService`, the runner, one hostd process per
delivered request, and the ledger entry (lock file and record) of each
invocation. `HostAction` keeps its own short job record instead of extending
`JobStore`: the barrier, the compensation check and the terminal writes are the
ones of the store, restricted to host actions of one workspace.

| actions | code |
|---|---|
| `CreateAction`, `CancelQueued`, `SettleFailedHostActions`, `Advance`, `AdvanceRefused` | `HostActionService` |
| `Authorize`, `Dial`, `FollowStream` | `hostActionRunner.execute` |
| `QueryFails`, `ReadRecord`, `ProbeLock`, `Unshare`, `Reread`, `Poll`, `Deadline` | `settle`, and `Status` in the hostd that answers it, at the grain of the files it looks at |
| `CompleteAction`, `Containment`, `ContainUnfinished` | the terminal write and its refusals |
| `Receive`, `CreateLock`, `Flock`, `WriteRecord`, `Announce`, `AuditStarted`, `ClaimApproval`, `BeginEffect`, `HandlerReturns`, `AuditCompleted`, `Finish`, `ReleaseLock`, `Send`, `Die`, `Prune` | hostd from the accepted connection to its exit |
| `Shutdown`, `Crash`, `Restart` | anasd |

No process has a speed: a timer of the runner may fire at any poll, and a hostd
may read its request after any delay. A second delivery of a request is the
environment's (external): the runner dials once.

### The workspace: Workspace, ContainerTransaction, CredentialRotation, Activation, DataRestore, WorkspaceRuntime

`Workspace` is what the runtime operations share: the files below `.anas`
(`disk`), the containers (`ctr`) and the operation at work (`run`, one at a
time, since it holds the exclusive lock). `hist` keeps what properties look back
at: what a backup paused, whether a restore is half done (`mixed`), whether
maintenance holds (`held`), and whether a snapshot whose parts do not belong
together was restored (`torn`). Four modules extend it, one per kind
of operation, and `WorkspaceRuntime` composes them: an operation begins, takes
the lock, goes through the recovery every acquisition does, and then does its
own work. A crash forgets `run` and leaves files and containers. Services write
while they run (`servicesWrite`, external), so the data of a snapshot and the
data that is live differ after a while.

| module | operations | code |
|---|---|---|
| `ContainerTransaction` | backup, manual snapshot, compensation of a record that is found | `backup_create.go`, `backup_txn.go`, `snapshot_cli.go` |
| `CredentialRotation` | rotate, compensate, recover | `credential_executor.go`, `credential_transaction.go` |
| `Activation` | apply, rollback, start, stop, restart, with PostgreSQL maintenance | `deployment.go`, `deployment_application.go`, `postgres_maintenance.go`, `activation_failure.go` |
| `DataRestore` | restore of a snapshot | `snapshot_restore.go`, `restore_guard.go` |

A write of a file is one step (the code writes a temporary file and renames
it), and so is starting or stopping a set of containers, which may end part of
the way. What is rendered for a module is identified by the deployment that
introduced it, the credentials by a generation, the data tree by a version.
`saveDeploymentState` also rewrites the index; a failure between the two is a
failure with the state already written (`SaveIndexed`).

### ConfigStore and ConfigTransaction

`ConfigStore` is what clients of `GetConfig` and `PutConfig` may rely on: a
register that holds the configuration, the Secret Store and the managed state,
with compare and swap. A PUT replaces the very configuration its client has
read; "ok" is said of a tuple no loss of power undoes; an ordinary error means
that nothing was put in place, and otherwise the answer is that recovery is
required. Other writers (the command line, an editor) change one file at a
time. A writer outside the lock who hits a transaction ends all promises
(`raced`).

`ConfigTransaction` is the code: every file operation is a step of the holder
of the exclusive lock (`h`). `disk` is what processes see, `after` the set of
disks a loss of power may leave: a change adds one, a sync of a directory
leaves only the present one. `View` is the refinement mapping: the targets, or
the new tuple of a manifest that is visible.

| actions | code |
|---|---|
| `Acquire`, `GetConfig`, `Migrate`, `ReaderDone` | the locks of `config_application.go`, reading, the first validator of a legacy state |
| `Recover`, `Validate`, `Publish`, `SyncTarget`, `Clean`, `SyncClean` | `recoverWorkspaceConfigTransaction` and the roll forward, shared by recovery and commit |
| `Prepare`, `Refuse`, `Confirm`, `MakeDir`, `SyncMkdir`, `Stage`, `PublishManifest`, `SyncManifest` | `PutConfig`, `commitWorkspaceConfigFilesExpected` |
| `ImportBegin`, `Replace`, `ReplaceDone`, `ReplaceFails`, `Restore` | `config import`, `migrate`, `set`; `commitImportedFiles` and its way back |
| `PublishFails`, `CleanFails`, `PrepareFails`, `Crash`, `PowerLoss`, `Edit` | failures and the environment |

Abstracted: file modes, sizes of images, the content of a candidate (its
validation may always refuse), a torn `os.WriteFile` when `commitImportedFiles`
puts a file back. The validation of the whole tuple before a roll forward is
one step. Two assumptions about the file system: directory changes reach the
disk in the order in which they are made, and the sync of a directory takes
every earlier change along, as journaling file systems do. Where neither holds,
recovery would have to sync a manifest, or a target that is already new, before
it relies on it (`config_transaction.go:262`), and does not. Everything the
project says about a loss of power in `ConfigTransaction`, the theorems
`TransactionImplementsStore` and `RecoveryAlwaysCanFinish` included, rests on
them. On Btrfs, which the snapshots of ANAS need, they are doubtful: it logs a
synced directory on its own and need not take changes of others along.

## Runs

| run | instance | what it shows |
|---|---|---|
| `store_queue` | 3 jobs, 1 workspace, 2 running slots; plain jobs, `queue` actions, plans with a step-up proof and jobs that spend them | `OneMutatorPerWorkspace`, `NoMutatorBesideCompensation`, `EqualActionsInOrder`, `WithinCapacity`; no start after an action lost its owner (`NoStartBesideLostAction`); no write its own replay would refuse (`EveryWriteReplays`); a confirmation is spent once (`ConfirmationSpentOnce`) |
| `executor_faults` | 1 workspace, 2 jobs, every fault | `AcceptedCancelNeverSucceeds`, `OperationsOnceInOrder`, `EventsAgreeWithStatus`, `HalfDoneIsFenced`; the executor implements `JobStore` (`Spec`) |
| `executor_progress` | 2 workspaces that share one running slot, 3 jobs, no faults | `JobsFinish` |
| `executor_unchecked` | 1 job, no faults | violated: `AcceptedCancelIsChecked`, see below |
| `journal_faults` | 2 handles, 2 processes, 1 key, 2 checkpoints, 2 faults | `InsideIsCurrent`, `OneJobPerKey`, `AcknowledgedIsDurable`; a peer's generation is refused over a rejected job and nothing else (`RefusesOnlyRejected`), see below |
| `workspace_ops` | 2 modules (one with credentials, one a PostgreSQL provider with a `before_stop` hook), any 2 operations, 2 faults | `HalfRestoredStaysDown`, `RunningCredentialsMatchStore`, `ActiveMatchesStore`, `RotationFollowsStore`, `PausedIsRecorded`, `MaintenanceHoldsBack`, `ReplacedDataIsCaptured`, `StoreOnlyAdvances`; `RotationSettles` and `PausedComeBack` |
| `workspace_uncertain` | a restore and a rotation, 1 crash | violated: `UncertainDataCanBeCrossed`, see below |
| `backup_copy` | 1 backup, no faults | violated: `CopyReadsStoppedServices`, see below |
| `config_faults` | 1 client, 2 configurations, the command line, 3 validators, 1 fault of any kind | the transaction implements `ConfigStore` (`ImplementsStore`); `RecoveryCanFinish`, `EditKept`, `TransactionEnds` |
| `host_channel` | 2 mutating jobs, one under an approval, every fault of the channel, one restart | `ChangesSerialized`, `OutcomeIsRecorded`, `NotStartedIsTrue` |
| `host_settles` | 1 job whose request is delivered twice, all faults that leave the job journal working, retention | `EffectOnce`, `HostJobsSettle` |
| `host_oversize` | 1 job, a result that does not fit a frame | violated: `NotStartedIsTrue`, see below |

The runs of the store, the journal, the workspace and the host channel also
check the type invariant of their module. Those of the executor and of the
configuration transaction are proved (`ExecTypeCorrect`, `TypeCorrect`).

### Bounds, and why they are enough

- *Jobs.* Every rule of the store compares a job with one other job, except the
  limits and the order of equal actions; three jobs give a running one, a
  waiting one and a younger one, or a plan and two jobs that want to spend it
  (two plans with one proof need a fourth job, which takes too long to be
  kept). The theorems remove the bound where they apply.
- *Handles and keys.* A handle meets a peer's checkpoint, or not: two handles.
  A key's job never looks at another key's: one key.
- *Faults.* `MaxFaults = 2` allows a fault, and another one during the recovery
  from it. In the executor and the host channel faults are not counted. The run
  of the configuration has one fault and no more for its time; with two faults,
  and with two clients, it was checked once (2.1 million states), and the
  theorems hold for any number.
- *Modules and operations.* Two modules in dependency order give a part that is
  changed and a part that is not, in both orders; two operations give the one
  that is interrupted and the one that comes after it. Recovery and the checks
  of the daemon are not counted. The safety properties were checked once with
  three operations (4.8 million states).
- *`MaxDep`, `MaxSnap`, `KeepAuto`* leave room for what two operations can
  make; one automatic snapshot is kept, so that pruning happens.
- *`MaxValidators`* is 3: the initial one, a client's and the command line's.
- *Deliveries.* The runner dials once; `host_settles` adds a second delivery.
- *`QueryFailures`* is 2 where the code has 5: below, at and past the limit all
  occur.
- *`MaxRestarts`* is 1: one restart with a hostd of the daemon before it still
  at work. The theorems about the channel hold for any number.

`CHECK_DEADLOCK FALSE` stands where the system may really come to rest: all
jobs of the bound created and finished, the host action service stopped behind
its barrier, the operations or validators of the bound used up. The journal is never at rest and is checked for deadlock.

### Fairness

- `FairExecSpec`: weak fairness of each worker (`RunWorkspace`) and of the
  restart. A worker is a goroutine that claims, executes and claims again; one
  that found no slot free is woken by its ticker (`executor.go:210`), which is
  what `JobsFinish` needs with two workspaces and one slot. Two parts of it are
  assumptions on the environment: that an operation returns (the executor puts
  no deadline on it; only some operations have one of their own) and that the
  service manager starts a daemon that went down.
- `FairHostSpec`: weak fairness of the runner, of each hostd process, of the
  restart and of the service's own refusals and settlements. Here everything
  that waits is bounded by the code: each read and write of the socket by
  `ioTimeout`, a handler by the timeout of its action (`execute.go:144`), a
  query by 30 seconds. `Deadline` has strong fairness, since the runner
  alternates between polling and asking: its deadline is enabled at each poll
  only, and time does not stop in between.

- `FairSpec` of `WorkspaceRuntime`: weak fairness of the operation at work, and
  nothing else. A process that holds the lock goes on until it ends or dies.
  Nobody has to take the lock: the daemon checks compensation once for a job
  that was canceled and never after an operation of the command line. So
  `RotationSettles` and `PausedComeBack` start where somebody has asked for the
  lock (or a backup holds it) and say that this one acquisition is enough,
  unless a further step fails (`budget < b`).
- `RetrySpec` adds that recovery is tried again and again. The code does not
  promise that; it is used in `workspace_uncertain` only, whose counterexample
  then shows that no number of retries would help.
- `FairSpec` of `ConfigTransaction`: the holder of the lock goes on, and
  somebody takes a free lock again: any command, request or reader does, since
  each of them recovers first (`config_application.go:290`). In a workspace
  nobody ever touches again, an unfinished transaction stays.

Apart from that, which asks for some user and not for a certain one, no fairness
is assumed of operators and clients; none is assumed of faults or retention.

## Proofs

TLAPS proves the following for every number of jobs, workspaces, limits and
faults. The assumptions are the `ASSUME`s of the modules, which TLC evaluates
on the instances.

`JobStoreProofs` proves every property of the store. It first reduces all
operations to four shapes of change of the job table (`StepShape`): a job is
added, started or settled, or all running jobs are recovered.

1. `IInv` gives `OneMutator`, `NoMutatorBesideMarker` and `NoStartBesideLost`
   (`TypeCorrect` comes first). It adds two facts the properties do not say: a
   compensation marker sits on a terminal job only (`CompTerminal`), so none can
   appear beside a mutator that has started; and an action that lost its owner
   carries a blocking record, or is still marked running while no daemon serves
   (`LostBlocked`).
2. `Capacity`: only an added job enters the queue and only a start enters the
   running set, each right after it counted.
3. `TableInv` gives `WritesReplay` and `SpentOnce`: jobs are created in the order
   of their numbers (`Serial`), and every record in the table is one that replay
   accepts (`Stored`). A step that adds no job keeps the immutable fields of all,
   and the outcome and confirmation of the finished ones (`Kept`), so a spent
   plan can be read after it was spent.
4. `Ordered` gives `EqualInOrder`. It is stronger than the property: over every
   pair of equal actions, a *started* one has no older unfinished one beside it,
   not only a running one.

These hold for any workspaces and any mix of policies, of which the run
`store_queue` has one each.

`JobExecutorProofs`: `ExecutorRefinesStore` (every step of the executor is a
step of the store or leaves it alone), and with it every theorem about the store
carries over (`ExecutorOneMutator`); `CancelNeverSucceeds`. The invariant
`Owned` says that a busy worker holds a job; `CancelInv` says, stage by stage of
`execute`, which jobs may still be in the registry and whose context an
accepted cancellation has ended.

`JobExecutorOutcomeProofs` proves the other safety properties of the executor,
each from an invariant on top of `CancelInv` and the store's:

1. `FenceInv` gives `HalfDoneStaysFenced`. A worker with a job in hand keeps it
   running in the store, and where something is half done it is on a path that
   ends in a marker (`Marking`): not in front of its operation, not on the way to
   success, failing only with a cause that asks for compensation, canceled only
   with a check that did not succeed. An operation that was cut short and hid it
   (`"masked"`) may also end as failed without a marker; the theorem says that
   this is the only gap.
2. `OrderInv` gives `OnceInOrder`. A job that began has left the queue and comes
   before all of its workspace that wait; a job that is claimed but not
   registered comes after the ones and before the others.
3. `EventInv` gives `HistoriesAgree`. A waiting job has announced no outcome, and
   a job in a worker's hands exactly the one its place says (`Said`), so a write
   refused in between leaves a running job that only recovery can finish. Both
   are up to `Torn`, the cancellations and rejections of a waiting job whose
   append was cut; `Torn` is empty when writes are not refused.
4. `ExecTypeCorrect` collects the types.

`HostActionProofs`, in layers:

1. `TypeInv`: types; the failed queries stay below their limit while the runner
   asks. Gives `HostTypeCorrect`.
2. `LedgerInv`: at most one process of an invocation is past the exclusive
   creation of the lock file; ahead of the change nothing was changed, and
   before `Finish` no terminal is on record. Gives `ChangedOnce`, for any
   number of deliveries and with retention.
3. `TruthInv`: what a process returned, recorded, sent and what the job took
   over agree. Gives `OutcomesAreRecorded`; assumes no retention.
4. `SerialInv`: a mutating hostd that has changed the host, or that nothing
   keeps from doing so (it has announced itself, or its stream is still open),
   belongs to the running job or to one whose code is a barrier. The runner
   closes its end before it asks the ledger, which is why an answer "not
   started" is final. Gives `ChangesAreSerialized`; assumes in addition that
   each request is delivered once, which is what the runner does.
5. `QuietInv`: a job that was not started is harmless. Gives
   `NotStartedStaysTrue`; assumes in addition that every result fits a frame,
   which `host_oversize` shows to be needed.

`ProcessMoves` turns the thirteen actions of a hostd process into four kinds of
moves without functions; layers 2 to 5 use only that.

`ConfigTransactionProofs`, for any clients, configurations, Secret Stores and
number of faults:

1. `TypeInv`: types, and for each place of the holder which job it has, what it
   expects and puts (`ShapeInv`), and that a manifest has its directory
   (`DirInv`). Gives `TypeCorrect`.
2. `VouchInv`: a managed state anywhere (on a disk that may come back, in the
   hands of a client or of the holder) vouches for the configuration its
   validator was minted for. So equal validators mean equal configurations,
   which is why comparing validators compares configurations.
3. `PrepInv`: a client that passed the precondition has read the configuration
   that its transaction expects.
4. `JournalInv`, `RollInv`: under a manifest that no editor hit, every disk that
   may come back has each target old with its image or new; once a commit has
   synced its manifest all of them show the new tuple through `View`. Gives
   `RecoveryAlwaysCanFinish`.
5. `TransactionImplementsStore`: from 1 to 4 every step is a step of the
   register or changes nothing of it (`RefineStep`, one case per action).
6. `EditInv`: under a manifest `config.yml` is old, new or the editor's, and
   after the validation it is the editor's only if the edit came late. Gives
   `EditIsKept`.

The assumption `ConfigAssumption` says that "nothing" and the names of the two
other lock holders differ from all clients and contents.

Each inductive invariant was also checked with TLC on the small instances.

Only model-checked: the liveness properties (`JobsFinish`, `HostJobsSettle`,
`RotationSettles`, `PausedComeBack`, `TransactionEnds`), since fairness and
ENABLED are outside of what the provers handle; all of
`JobJournal`, whose replay is a fold over lines and would need induction over
data; the safety properties of `WorkspaceRuntime`, whose inductive invariant
would have a clause for each of its many places.

## Where code and text disagree

Four runs show a disagreement; `PROJECT.json` quotes the lines. Two more follow
from properties that state exactly what the code does where a comment says more.

- `executor_unchecked`: a cancellation is accepted, the operation reports the
  kill as an error of its own, and the job ends as failed, with no compensation
  check and no marker (`executor.go:476`), although the guide says a
  cancellation runs a compensation check. The same holds for a timeout that is
  reported that way, hence the exception in `HalfDoneIsFenced`.
- `workspace_uncertain`: a restore dies between its guard and the note that the
  deployment is stopped (`restore_guard.go:50`); a credential rotation then
  looks at that note only (`credential_executor.go:65`) and stops its modules.
  The guard refuses every start its recovery needs, and the restore that would
  lift the guard has to pass that recovery.
- `backup_copy`: a backup without a snapshot starts the services again before
  the transfer (`backup_create.go:504`), although the comment beside it says
  that they stay down until the transfer is finished.
- `host_oversize`: a result that does not fit a frame is recorded and reported
  as an action that was not started, after the host was changed
  (`execute.go:240`).
- `RefusesOnlyRejected` in `journal_faults`: a handle of the job journal that
  cached a queued job refuses the checkpoint of a peer that rejected it, and
  stays unavailable (`compaction.go:607`), although the comment at
  `compaction.go:582` says that it "accepts the transitive closure of supported
  job updates". That no handle ever refuses is false on this instance; that it
  refuses for this reason only is what the run shows.
- `EventsAgreeWithStatus` in `executor_faults`: the event and the job record of
  a queued cancellation or rejection are two lines of one append
  (`store.go:1485`), and a write cut between them leaves the event alone, after
  which the job may still run. The comment at `store.go:855` says "The event and
  terminal state commit atomically". The property allows exactly these
  leftovers.

Smaller observations made while modelling, with no run of their own:

- A restore that is tried again takes its snapshot of the mixed workspace.
  Restoring *that* snapshot later gives a deployment and a Secret Store that do
  not agree, hence the condition `~hist.torn` of `ActiveMatchesStore` and
  `RunningCredentialsMatchStore`. Neither a manual
  snapshot nor a backup is kept back by the guard.
- Activation compares the generation of credentials only
  (`credential_reconcile.go:13`); a deployment of an equal generation with other
  values passes.
- A crash between moving the data aside and copying the snapshot leaves no data
  subvolume, and later restores are refused for that; an aside that was left
  over makes the next restore of the same snapshot fail
  (`snapshot_restore.go:232`).
- A retained container transaction whose containers were removed meanwhile
  cannot be resumed: `compose start` never creates a container.
- When the snapshot before an apply fails, or the note that follows it, the
  services stay stopped (`deployment.go:1410`).
- The compensation check of a canceled job runs before the job is terminal
  (`executor.go:529`); `docs/en/guide/service-lifecycle.md:46` reads as if it
  came after.
- A failed compensation check is not tried again by the daemon
  (`executor.go:566`), hence no fairness of `CheckCompensation`; compare `docs/en/operations/troubleshooting.md:29`.
- hostd may begin after the runner's window for an absent record has passed
  (`host_action_runner.go:68`). What keeps that harmless is the closed stream,
  not the window.
- A query between the creation and the locking of a lock file reports a live
  execution as lost, and a query that holds the lock shared makes `Begin` fail
  (`invocation_ledger.go:36`, `:117`). Both end on the safe side.

## Not modelled

The models cover about a twentieth of the lines of the implementation. Most of
the rest has no state that two actors or a crash could disturb, and a model of
it would restate it: catalogs and their validation, configuration parsing and
normalisation, resolution of modules and rendering for Docker, the web console,
the application modules, command line parsing, build and test tools. Text,
permissions and links of files are left out everywhere.

Parts that do have such state, and are not modelled:

- the approval ledger of host confirmations (issue, consume, claim over a file
  shared by two processes; the clock is read before the lock, and capacity is
  counted before cleanup); `HostAction` has the claim of an approval only;
- job events beyond the order of the events of a job: identifiers, the
  retention window, the gap a subscriber is told of;
- action retry keys, which expire by a wall clock;
- the worker process of module actions: containment, quarantine, the retained
  lease; what it does is decided by the host's process control;
- the audit journal; sessions and capability state of the console; the switch
  of certificates; effect intents of Incus provisioning; replacement of
  installed modules;
- in the workspace: temporary storage, image inventory, compute leases, the
  blockers of guarded parameters, user data outside of the data subvolume,
  repositories and retention of backups;
- `snapshot delete` and `snapshot prune` of the command line
  (`snapshot_cli.go:533`, `:611`): an operator may delete the recovery point of
  a pending maintenance, and `MaintenanceHoldsBack` speaks of workspaces where
  nobody does;
- the restore of a backup (`backup_restore.go:174`), which writes `secrets.yml`
  as well: `StoreOnlyAdvances` holds of the operations of `WorkspaceRuntime`.
  That nothing runs with credentials the Store does not have is
  `RunningCredentialsMatchStore`.

`PROJECT.json` lists every part with its status, and every hazard with the
properties that would catch it or the reason why none does.

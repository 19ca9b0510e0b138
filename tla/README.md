# TLA+ models of OpenCollab-Eval

These modules model the concurrent and crash-prone parts of OpenCollab-Eval: the
batch controller of a parallel SWE run with its recovery tail, its processes and
signals; the remote runs those processes start, and the guard of a command in a
container; the request slots that gateways share; the claims that decide who may
evaluate a candidate; the queue that judges candidates again; the hand-over of a
candidate by its generator; and one evaluation inside its event loop, with its
worktree checkpoint. They are translated from the sources under
`src/opencollab_eval/`. TLC checks small instances; TLAPS proves most of their safety
for every instance.

    tlc -workers 2 -config ParallelRunner_main.cfg MCParallelRunner
    tlapm BatchController_proofs.tla

`PROJECT.json` lists the runs, the source lines behind each definition, the
hazards in the code, and for each property one plausible bug that breaks it.
The operators that comments call *mutants* are those bugs; no specification uses
them. A mutant is defined just before the definition it replaces.

## Inventory of the system

| Component (`commands/` unless said) | State | Operations | Hard parts | What makes it correct |
| --- | --- | --- | --- | --- |
| Batch controller: `swe_g11_parallel_runner.py`, `swe_g11_task_execution.py`, `_swe_g11_config.py`, `swe_g11_capacity_control.py`, `_swe_g11_reports.py` | queue, futures, results, `SchedulerState` | submit, wait, probe, settle, halt, publish | completions in any order, capacity read from a file at run time, halt with tasks in flight | no task lost or settled twice, window respected, nothing starts after a fatal result, the conclusion is earned, the loop ends |
| Recovery tail: `_run_technical_recovery_tail`, `swe_g11_technical_queue.py` | selected results; on disk: reports, decision files, manifest | plan, decide once, run, select, exhaust, resume | a kill between any two steps, several lives over one directory | a decision precedes its launch, the ledger is cumulative, verdicts are kept |
| Task processes: `swe_g11_parallel_process.py` | registry of process groups, interrupted flag | spawn, register, signal, escalate, shut down | a signal between spawn and registration, a second one inside the handler | no group escapes the registry or the signal; an interrupted controller ends |
| Provider limits and gateway: `provider_limits.py`, `llm_api_proxy.py` | 100 flocked slot files, `allocation.lock`, policy file, waiting counters | acquire, scan, lease, close, snapshot | releases during a scan, exceptions with a slot in hand, disconnects, policy edits, process exit | no slot leaked or stolen, limit respected, every upstream request covered |
| Auto-eval: `swe_auto_eval_driver.py`, `swe_auto_eval_claims.py`, `swe_auto_eval_claim_runner.py`, `engine/swe_eval_discovery.py`, `engine/swe_eval_decision.py` | claim, attempt and report files, wrapper and evaluator processes | summarise, claim, reclaim, launch, publish, heartbeat, reap | stale summaries, owners that die, groups that survive their leader, two files written one after the other | one evaluator per candidate, named for as long as it lives; claims become available again |
| Rejudge queue: `swe_rejudge_queue.py`, `swe_v1_parent_eval_lock.py`, `swe_v1_prolite_report.py` | queue state file, reports, final report, task and report locks | reserve, launch, retry, set aside, fold, publish | children that outlive the queue, reports set aside after a fold, several lives | launches within the budget, attempts within theirs, what was counted stays counted |
| Remote runs: `swe_v1_prolite_controller.py`, `swe_v1_transport_recovery.py`, `engine/swe_v1_remote_*.py`, `engine/swe_v1_runner_claim.py` | `runner.pid`, `summary.json`, local and remote processes | probe, adopt, start, wait, clean up | lost transport with a live runner, several controllers of one directory | one live runner, the right summary, every controller returns |
| Container guard: `container_process_guard.py` | process record, cancel marker, owner lock | prepare, run, stop | marker and record written concurrently, kills anywhere | a successful stop is quiet, one command at a time |
| Generation: `generation/gen_prediction*.py`, `generation/candidate_retention.py`, `generation/batch_processes.py` | ownership records, pending files, two JSONL outputs, containers | stage, promote, remove, publish, recover | generators and batch recover one another's leavings while they run | a candidate is never lost and published once, after its container |
| Local evaluation: `engine/evaluator_task*.py`, `engine/evaluator_resources.py`, `engine/evaluator_patch.py`, `engine/test_injection.py`, `engine/async_runtime.py` | tasks of one event loop, environment, flags on the result | acquire, stages, session, settle, extract, release, deferred cleanup | deadlines and cancellations at every wait, tasks that ignore cancellation | an eligible result is true, resources outlive their users, the evaluation ends |
| Worktree checkpoint: `engine/swe_checkpoint*.py` | patch file, metadata file, periodic task | capture, start, stop, abort, restore | two writes, captures in flight at stop, crash and restart | what is restored was saved whole |
| Shared health: `swe_g11_shared_health.py` | probe evidence | check, probe, wait | waiting with backoff, interruption | an outage is only ever claimed directly |
| Watchdogs: `engine/provider_wait_watchdog.py`, `swe_v3_wave_watchdog.py` | observations | poll, stop | stale observations | limits hold |
| Benchmarks, contracts, verification, experiment, workflows, reports | data | parse, validate, summarise | none concurrent | unit tests |

How they interact: the controller's worker threads run `oc-eval` children that
leave a report on disk; the controller reads it, probes shared services and
records the result in memory and in progress files. Each child is itself a
controller of a remote run directory, so a child orphaned by a killed batch and
the child of the next batch are two controllers of one claim (`RemoteRun`). On
the remote side generators run agents in containers through the guard and hand
candidates over through files; children and solvers reach models through gateways
that share slots only through lock files. Auto-eval drivers, wrappers and
evaluators share only files and process identities. A local evaluation is one
event loop; its checkpoint is all that survives it.

## Modules

| Module | Models | Builds on |
| --- | --- | --- |
| `TaskResults` | a task's result and every classification of it: completed, technical, systemic, blocked, reusable | |
| `ParallelRunner` | `_run_parallel`, its pool, scheduler state and published conclusion | `TaskResults` |
| `TechnicalRecovery` | the recovery tail around the unchanged main loop, the files that survive, and restarts | `ParallelRunner` |
| `TaskProcesses` | process groups, worker threads, signals and ends of `run_parallel` | |
| `RequestCapacity` | the abstract promise: a set of requests holds the capacity within a policy that was in force | |
| `ProviderLimits` | slot files, scan, leases, snapshot, and the life of one gateway request | implements `RequestCapacity` |
| `EvalClaims` | driver, claim, attempt, wrapper and evaluator of one candidate | |
| `RejudgeQueue` | the evaluation-only queue, its children and the fold of their reports | |
| `RemoteRun` | controllers and runners of one remote run directory, transport recovery | |
| `ContainerGuard` | run, stop and prepare on one pidfile | |
| `PendingOutput` | the generators of a batch, their records and outputs, and every recovery | |
| `WorktreeCheckpoint` | the two files of a checkpoint and the tasks that write them | |
| `EvaluatorTask` | one evaluation, its tasks and its teardown | `WorktreeCheckpoint` |
| `BatchController_proofs` | theorems about `ParallelRunner` and `TechnicalRecovery` | both, `TLAPS` |
| `Budgets_proofs` | theorems about `ProviderLimits` and `RejudgeQueue`, which share no state | both, `TLAPS` |
| `..._proofs` | theorems about `TaskProcesses`, `EvalClaims`, `RemoteRun`, `ContainerGuard`, `PendingOutput`, `EvaluatorTask` | the module, `TLAPS` |
| `MC...` | small constants for TLC | |

### ParallelRunner

One controller thread owns the state. `pc` follows it: `refresh` and `submit`
are `submit_ready`, `wait` is `concurrent.futures.wait`, `probe` the loop over
`done`, `settle` the loop over `completed_batch`, `finish` the last snapshot.
`running` and `finished` are the two halves of the `futures` dict, because a
done future counts until it is popped; `waitDone` is the `done` set of the last
wait and `batch` is `completed_batch`. An index is its position in
`config.indices`, so `pending.pop(0)` takes the least. A result keeps the six
facts some decision reads. `UpdateSchedulerState` caps the clean streak at
the threshold, which is the only value it is compared with.

The health checks before the first task, progress snapshots and the
interruption of `run_one`'s retry loop by a signal are left out; a controller that
raises (for instance on a failed progress write) just stops.

### TechnicalRecovery

The main loop is `ParallelRunner`'s, action for action, with `phase` telling it
from planning (`PlanOne` per index, `PlanDone` with the manifest), the tail's own
queue (`TailQueue`, `TailLeaveSubmit`, `TailResult`) and the closing
`Conclude` and `Report`. The tail reuses `pending`, `running`, `finished` and
`settled`: the indices it runs leave `settled` while they run. `report`,
`version`, `decision` and `manifest` are the disk; a report's digest is how often
it was written. `Restart` is a stop, kill or exit followed by another
controller; it clears everything but the disk. Children die with the controller
here; what an orphan and its successor do to one run directory is `RemoteRun`'s
subject, and how children are ended is that of `TaskProcesses`. `RunnerAttempts` is 1: the retries of one child
are `ParallelRunner`'s subject.

### ProviderLimits

A thread's `pc` goes idle, look, lock, scan, granted, opening, open, then `first`
or `last`, the two closers of a response (the disconnect watcher and the
handler). `slot[s]` is the flock of a slot file, `lease[r]` is `Lease.fd`. The
scan opens one file per step under the allocation lock; other requests release
without that lock in between. `reserve` stands for the reserve of the policy and
the legacy services alive when it was read. `conn` is the upstream connection,
which in direct mode belongs to a worker thread the handler may abandon.

`RequestCapacity` says what all this is for: `held` grows only by a request that
found room under a policy it looked at. `held` is mapped to the requests
with an open lease, and `view` to the policy a waiting thread has read.

### EvalClaims

Each driver run acts on a summary it took earlier (`Summarize`), takes the claim
under its lock (`TakeLock`, `Inspect`, `Reclaim`, `WriteClaim`), writes the attempt
and launches a wrapper. The wrapper owns the claim from then on, without
the lock, and writes claim and attempt one after the other (`PublishClaim`,
`PublishAttempt`, `RecordClaim`, `RecordAttempt`). Drivers and wrappers may die
between any two steps; an evaluator's leader may leave descendants (`residual`).
Every process records its start identity, so the lease, which only serves
records without one, decides nothing here.

`faults`, chosen from `FaultSets` at the start, says which of three behaviours may
happen: `slow_start`, a launch slower than the 30 s construction grace;
`unannounced`, the loss of a wrapper, or of its first write, between starting an
evaluator and publishing it; `late_failure`, a failure between the last two writes
of a wrapper. All three are behaviours of the code, and each breaks
`OneEvaluator`, which is therefore stated for runs without them; the other two
properties are stated and checked with them.

### TaskProcesses

A thread of the pool runs `run_one` and in it `run_task_process`: `launch`,
`spawned` (after Popen), `owned` (registered), `waits`, then `ending` and `grace` when
the group is asked to end. The main thread does the same for the preflight and is
then followed by `main` through the pool, publication, shutdown and the exception
path. `pending` is a signal the kernel has delivered and no Python handler has run
for; `handling` is the handler between setting the flag and signalling the groups
it read (`targets`), and a second signal may interrupt it there. A group that is
`deaf` ignores SIGTERM. The spawn defers signals as the code does
(`Deferred`).

### RejudgeQueue

Its `Init`, `Next` and `Spec` carry the prefix `Queue`, because one module proves theorems
about it and about `ProviderLimits`. `main` is the queue's process, `worker[j]` the thread
of a job, `child[<<j, n>>]` the n-th child of a job, which outlives the queue. `entry` is
the state file, `report` what each child has published, `final` the parent's final report:
the sources it names and those it has counted. A child takes the task lock, reads the budget,
evaluates, folds under the report lock and exits; its exit code decides
whether the queue sets its report aside. Lives follow one another; `BadLives` are,
for each parent, those with an unusable timeout, which mark jobs `invalid_timeout`
without a launch.

### RemoteRun

A controller's name stands for its runner, nonce and invocation. It probes
`runner.pid` and `summary.json`, adopts a live or finished run of its own claim,
or prepares and starts a runner over ssh; `attached` is the ssh connection that may
be lost, `waiting` and `await` the polling for a terminal summary. Runners claim the
directory, report twice (a summary on the way and that of `main()`), exit, are
turned away, or are killed. Deadlines are `expired`, for controllers in `Bounded`.

### ContainerGuard

The guard forks a child that creates a session, writes its record, looks at the
cancel marker and execs. A stop writes the marker, reads the record, signals and
waits, and removes the record when the session is empty. `kids` are the
session's other members. Guards, stops and prepares may be killed at any step.

### PendingOutput

`pc` follows a generator's `main`; `at`, `todo` and `item` the walk of a recovery over
the records of others (promote, remove stale, publish), which generators run
first and later starts run only. `candidate` says where the candidate is:
`sole`, in the container only; `loose`, in memory; `saved`, in the pending file.
`tail` and `spoiled` are how the JSONL files end and whether a malformed line is
in them; an append that meets a torn tail ends the line first, as the code does.
`parent` is the batch that looks after a generator that ended.

### WorktreeCheckpoint and EvaluatorTask

`pc` is the main coroutine of `run_eval_task`: `entered` (the `sleep(0)` of
`acquire_environment`), `acquire`, the stages `restore`, `inject` and `map` with
their `to_...` entries, `session`, then `settle`, `finalize` with `abort` or `stop`,
`remove`, `diff`, `writing` (the manifest), `release` and the ends of the environment.
The tasks it owns are state of their own and finish when they like:
`owner` (the environment setup owner with its `delivery`), `stage[s]`, `saver` (the
periodic capture, the final one and commands a restore leaves behind),
`manifest` and `late` (the deferred cleanup). `asked` are tasks that were
cancelled; a task may honour that, be late, or ignore it. `round` counts the waits of
`_wait_for_owned_execution`. `flaws` collects what makes a result ineligible, by
the fields of `build_eval_result`; a flaw of several fields is named once.
With the feature `deferred` the patch is left to the caller, as in the production
workflow: `extracted` and `unproven` are what `generate()` makes of it afterwards.

A checkpoint's content is the number of units of work it holds. `patch` and
`meta.of` agree exactly when the checksum does. A capture is atomic but for its command,
because it has no other await; a crash may fall between its two writes.


## Runs

| Run | Instance | What it shows |
| --- | --- | --- |
| `ParallelRunner_main` | 3 tasks, 2 workers, adaptive, capacity file with an invalid and a too large read, two child attempts, 7 classes of result | census, pool bound, earned conclusion, no start after a systemic result, termination |
| `TechnicalRecovery_main` | 2 tasks, 2 workers, 1 round, 1 restart at any instant, a clean, a recoverable and a fatal result | a decision precedes its launch; reusable reports, ledger and verdicts survive |
| `TaskProcesses_main` | the preflight and 2 workers, one retry each, 3 signals | no group escapes the registry or the signal; an interrupted controller ends |
| `ProviderLimits_main` | a thread of a direct and one of a standard gateway, 2 slots, 5 policies, every fault | slots accounted for, standard upstream requests covered, implementation of `RequestCapacity`, progress of waiters |
| `EvalClaims_main` | 2 driver runs, without faults and with all three | one evaluator (without faults); an announced one stays claimed; claims become available again |
| `RejudgeQueue_main` | 2 jobs, 2 workers, 3 lives, for some parents the last misconfigured, 2 attempts in all, 1 per child; up to 5 children of one job, 1 of the other | budgets, what is published and counted, the queue returns |
| `RejudgeQueue_refresh` | the same | violation: a report set aside after a fold breaks every later refresh |
| `RemoteRun_main` | 3 controllers, two of one claim, one with a time limit | one live runner, final summaries of the right invocation, adoption, every controller returns |
| `ContainerGuard_main` | 2 runs, 1 stop, 1 prepare | a stop is quiet, one command, records outlive sessions, an interrupted run ends |
| `PendingOutput_main` | 2 generators, one with `--keep-container`, later starts, 1 kill, 1 failing step | rows once, candidates survive, publication after the container, staged candidates are published |
| `EvaluatorTask_main` | one evaluation with tests, checkpoint and workflow, or one with a deferred patch, every fault, a cancellation in each life, 1 restart, 1 unit of work | an eligible result is true, resources outlive their users, the evaluation ends |
| `EvaluatorTask_loss` | the checkpoint only, 2 units of work, no input or output fault | violation: a crash between patch and metadata loses all saved work |

Why the bounds are enough. Three tasks over two workers give every mix of
queued, running, done, probed and settled tasks with a halt in between. In the
recovery run the interesting orders are between two tasks, or between two
attempts of one; one restart already meets every prefix of the disk; a second round
repeats the first with other selected results and does not finish in minutes. Two
slots and two threads have a waiter, a holder and a release during a scan; the
theorems about slots hold for any number. Two driver runs have a dead owner and its
successor; the wrapper and evaluator of the first live on beside the second. Two jobs share the report lock; three
lives have an orphan of the first at work in the third, and a budget that is spent, lost
in a fold and spent again, with four children of one job (a fifth would be possible).
A job whose second start always fails is one whose log cannot be opened. Three controllers have a
finished runner, a late one and a waiting one. Two runs and a stop give a late run,
an orphaned session and a marker. Two generators recover each other; one kill
may hit either side of any pair. One unit of work tells a
checkpoint from an empty worktree, and a restart makes the second life restore it.

The bounds by name: `Index`, `MaxWorkers`, `RunnerAttempts`, `MaxRecoveries` and
`MaxRestarts` bound the controller and the recovery; `MaxSignals` the signals;
`NumSlots`, `Request` and `Policies` the slots; `Driver` and `FaultSets` the claims;
`MaxLives`, `MaxSlots`, `MaxTotal` and `MaxEval` the queue; `Controller` the remote
runs; `Run`, `Stop` and `Prepare` the guard; `Gen`, `MaxKills` and `MaxFaults` the
generators; `MaxWork` and `MaxAttempts` the evaluation. A handler thread whose abandoned connection
attempt still runs is not reused. `CHECK_DEADLOCK FALSE` is set because
controllers, drivers, evaluations and commands really end. Symmetry is not used.

Fairness, each time as weak as the code allows:

- `ParallelRunner`: weak fairness of the controller thread and of each child's return,
  which `--total-timeout` bounds. `TechnicalRecovery` states none.
- `TaskProcesses`: each thread, the main thread and the handler run on; a group that
  listens to SIGTERM ends after it. A group left alone may run for ever, and so may a deaf one.
- `ProviderLimits`: a thread's own steps and the upstream's answers, which have
  timeouts; strong fairness of taking the flock, which the kernel hands to its
  blocked waiters. Polling gives no order among waiters, so a waiter may be overtaken.
- `EvalClaims`: processes end and time passes, each for its own driver run.
- `RejudgeQueue`: some thread, child or refresh goes on as long as one can. `RemoteRun`: weak
  fairness of the processes of each kind together. Each takes finitely many steps, so every
  one of them is served.
- `ContainerGuard`: each guard and each child on its way to `exec`; none of the
  command, of stops or of prepares.
- `PendingOutput`: the generators together, which take finitely many steps, and one
  more start; none of the batch.
- `EvaluatorTask`: the main coroutine, its deadline, the teardown of the setup owner
  and the deferred cleanup, which are ready or bounded by timers. None of the
  factory, the stages, the session or the captures: the deadline and the bounded waits have
  to do without.

## Proved

The theorems hold for every value of the constants that satisfies the `ASSUME`s of
the module, which follow from how the code bounds its settings.

| Module | Theorem | Property |
| --- | --- | --- |
| `BatchController_proofs` | `TypeCorrect`, `CensusHolds`, `PoolBound`, `PublicationEarned`, `SystemicStopsStarts` | `TypeOK`, `Census`, `PoolNeverOversubscribed`, `PublishedIsEarned`, `NoStartAfterSystemicResult` |
| | `HaltIsFinal` | `HaltFreezesQueue`, which no run repeats |
| | `DecisionsPrecedeLaunches`, `LedgerGrows`, `ReportsKept`, `VerdictsKept` | `DecisionBeforeLaunch`, `LedgerCumulative`, `ReusableReportKept`, `VerdictKept` of `TechnicalRecovery` |
| | `RecoveryTypeCorrect`, `RecoveryCensus`, `RecoveryPublicationEarned` | `TRTypeOK`; `Census` and `PublishedIsEarned` of the loop with its recovery |
| `TaskProcesses_proofs` | `TypeCorrect`, `RegistryComplete`, `SignalReachesAll` | `TypeOK`, `RegistryIsComplete`, `NoGroupMissesTheSignal` |
| `Budgets_proofs` | `TypeCorrect`, `NoSlotLeaks`, `UpstreamIsCovered` | `TypeOK`, `SlotsAccounted`, `SlotCoversUpstream` |
| | `CapacityImplemented` | `ImplementsCapacity`: every step of the slot files is a step of `RequestCapacity` or a stutter |
| | `QueueTypeCorrect`, `PublishedWhenDone`, `CountedStays`, `OverrunExplained`, `LaunchesAreBounded` | `QueueTypeOK`, `DoneMeansPublished`, `CountedStaysCounted`, `OverrunNeedsADeadChild`, `LaunchesBounded` of `RejudgeQueue` |
| `EvalClaims_proofs` | `TypeCorrect`, `EvaluatorsExclude`, `AnnouncedStaysClaimed` | `TypeOK`, `OneEvaluator`, `AnnouncedEvaluatorStaysClaimed` (both without the three faults) |
| `RemoteRun_proofs` | `TypeCorrect`, `LiveRunnerRecorded`, `ReturnedIsFinal`, `ReturnedIsOwn`, `AvailableIsAdopted` | `TypeOK`, `LiveRunnerIsRecorded`, `ResultIsFinal`, `ResultIsOwnInvocation`, `ReportedIsAdopted` |
| `ContainerGuard_proofs` | `TypeCorrect`, `OneCommandRuns`, `RecordsOutliveSessions`, `StopIsQuiet` | `TypeOK`, `OneCommand`, `RecordOutlivesSession`, `StoppedMeansQuiet` |
| `PendingOutput_proofs` | `TypeCorrect`, `RowsAreUnique`, `NoCandidateIsLost`, `PublicationIsFinal` | `TypeOK`, `PublishedOnce`, `CandidateSurvives`, `PublishedAfterFinalization` |
| `EvaluatorTask_proofs` | `TypeCorrect`, `EligibleResultsAreTrue`, `ResourcesAreKept` | `TypeOK`, `EligibleIsTrue`, `ResourcesOutliveUsers` |

Each argument rests on an inductive invariant, whose parts are the facts the
property alone does not carry from step to step:

- `ParallelRunner`: `TypeInv` is `TypeOK` with the facts about `waitDone` that the types of
  the next state need. `Census` is inductive with it: each action moves an index from one
  place to one other. `Control` ties `pc` to the queue: a batch is only being probed or settled in its own
  phase, and the controller reaches `finish` only with nothing in flight.
  `NoLiveQueue` says that once a systemic result was settled the queue is empty or
  halted, which is what makes the next refill harmless. The pool bound uses the
  cardinality facts of the library.
- `TechnicalRecovery` reuses those lemmas: in the main phase and in the queue of a round
  its steps are steps of `ParallelRunner`. `Phases` ties `phase` to `pc` and to the queue:
  nothing is in flight while a round is planned, and only a controller that is not halted
  plans. `Planned` binds an index to its attempt, decision file and event from its
  planning on; `Ledger` says that the events in memory contain the durable ones from the
  first planning to the last write; `OncePerLife` that the attempts of later rounds and
  of indices still to be reported are untouched in this life of the controller.
- `TaskProcesses`: the snapshot a handler or a thread works from (`HandlerHasPlace`), a thread that owns a group has
  registered it (`OwnedIsRegistered`), and a group that was let go of is over
  (`LetGoIsOver`).
- `ProviderLimits`: the flock of `allocation.lock` is with the thread that scans
  (`ScanLocked`), the scan has seen every lease below its cursor although leases close
  under it (`ScanSeesEveryLease`), and a waiter goes by a policy that was valid and
  enabled (`SeenUsable`). From these and a pigeonhole argument (`CountCoversHeld`)
  a grant finds fewer holders than its limit. `WaitingExact`, the counters, needs
  finite cardinalities and is proved beside it. `Covered` says at which places a standard
  gateway may have a request upstream: each lies before the release of its slot.
- `EvalClaims`: without faults, `LockHeld`, `GraceLasts` and `Order` place the drivers around the
  lock, the grace period and the claim file; `Stakes` says which driver a claim is still
  worth something to; `HolderIsRight` that the claim names whoever has a wrapper or an evaluator,
  or is about to. `GroupsAreNamed` and `OutcomesAreTrue` make what a successor reads true.
- `RejudgeQueue`: at most one process folds, and what it has selected contains all sources of
  the final report, hence all it counts (`OneFold`). A job is accepted on a report that is still
  there or on the parent's word (`AcceptedOnWord`), since only a child whose launch is not
  settled can have its report set aside, and then its job is `running` (`Unsettled`,
  `InOrder`). So the refresh selects a verdict of each accepted job (`Refreshing`), and once
  the queue is done the final report keeps one, also through the folds of orphaned children
  (`Refreshed`).
  The budgets add two layers. For `OverrunNeedsADeadChild`, while no child of a task has
  failed, what the final report counts together with what is on its way to be counted is
  within the budget (`WithinBudget`): only the holder of the task lock has anything on its
  way, and a child that has folded is counted (`Folded`), because once a fold has lost a
  source no fold follows (`Frozen`). The attempts of a set of reports are the elements of a
  set (`Shown`), so that a sum is a cardinality and the library's facts about finite sets
  apply. For `LaunchesBounded`, the recorded launches cover those of the job but for what
  the lives with an unusable timeout have taken (`LaunchesOnRecord`, `LaunchesInBadLife`):
  every other status that overwrites the count ends the launching for good (`ClosedForGood`)
  or says that the budget is spent, which it remains unless a fold loses a report.
  TLC checked `QueueIInv`, `BudgetIInv` and `LaunchIInv` on the instance of
  `RejudgeQueue_main` before they were proved.
- `RemoteRun`: `Phases` ties a controller's place to its runner's, `SummaryWritten` a
  full summary to a runner that reported, `AwaitsOwnClaim` a wait to its claim.
- `ContainerGuard`: a guard knows what its child was (`GuardsKnow`), a record that
  somebody read belongs to a child that is past it (`KnownIsPast`), what runs is in
  the pidfile (`RunningIsRecorded`), and a stop lets go only of what is quiet
  (`CallersAim`). `StopIsQuiet` adds that with the marker nothing new starts (`MarkerHoldsBack`),
  that since its marker only what a stop aims at can be running (`StopCloses`), and that
  only a prepare takes the marker away (`MarkerStays`). It holds for several stops at
  once; TLC checked these invariants with two stops, which is too large an instance to keep
  with the liveness property of `ContainerGuard_main`.
- `PendingOutput`: what a walk holds (`Walks`), what a generator has done by its place
  (`Stages`, `Mains`), what may be removed (`Removals`), which rows are out (`Rows`), and
  what has become of a container whose candidate is out (`Finality`).
- `EvaluatorTask`: the environment is handed over once or disposed of (`OwnerDelivers`),
  everything that uses it comes after the hand-over and before the release (`Holding`,
  `InTurn`), `stop()` captures after the periodic task (`Savings`), and the deferred
  cleanup waits for whatever was live at the release (`Releasing`). `Harmless` is the core of `EligibleIsTrue`: as long as
  nothing but the extraction speaks against the result, every task has ended before the
  main coroutine went on, and what it left in the worktree is known. Each way to leave a
  task behind has to put down a flaw. TLC checked this invariant on the instance of
  `EvaluatorTask_main` before it was proved.

Every safety property and action property that a passing run checks is the statement
of a theorem. Only model-checked are the liveness properties (`Terminates`,
`WaitersMakeProgress`, `ClaimsAreReleased`, `QueueReturns`, `ControllersReturn`,
`InterruptedRunEnds`, `StagedIsPublished`, `EvaluationEnds`): the prover does not treat
fairness. Two properties,
and so their theorems, say less than a reader might expect: those of `EvalClaims` are about
behaviours without its three faults, and `StoppedMeansQuiet` says nothing of a stop when a prepare has
ended and another stop may have put the marker back, since no state tells whose marker it is.

## Where the code and its documents disagree

Two runs each refute one sentence; `PROJECT.json` quotes them.

- `RejudgeQueue_refresh`: the final report is not always "refreshed from accepted
  outcomes". A report set aside after a fold has named it makes every later
  fold and refresh of that parent raise.
- `EvaluatorTask_loss`: a crash may lose more than "one checkpoint interval of saved
  file edits". One between the two writes of a capture leaves patch and metadata at
  odds; the next life starts from nothing and its first capture replaces the patch.

TLC refutes these as well; the modules keep the statements that are formulas,
and no run repeats them:

- `LastAcceptedCapacity` (`ParallelRunner`): "keeps the last accepted value through
  incomplete or unavailable reads" does not hold with adaptive concurrency.
- `NoStartAfterConfirmedOutage` (`TechnicalRecovery`): "Pause new work after a direct shared-service probe
  fails" does not hold when the outage is confirmed on the last queued task.
- `ResumptionGetsPastDecisions` (`TechnicalRecovery`): decision files carry probe evidence, so a resumed
  controller may never get past them.
- `SlotCoversUpstream` without its exception for direct gateways: a connection attempt
  abandoned before it has a socket sends its request without a slot.
- `OneEvaluator` with any of the three faults. The worst is `late_failure`
  (`swe_auto_eval_claim_runner.py:147`): a wrapper that fails between its last two writes
  takes the claim back from its successor.
- `LaunchesBounded` without its exceptions: an `invalid_timeout` drops the launch count; so
  does a `budget_exhausted`, and when a fold of another job then finds the report renamed whose
  attempts had spent the budget, the job starts again with both launches.
- `CleanupHitsOwn` (`RemoteRun`): the cleanup of a controller that gives up does not look at the
  record and may end the runner of another one.
- `StagedIsPublished` without its exception: `_append_jsonl_durable` ends a torn line
  with a newline, after which the file has a malformed line that every later start
  refuses.

Weaknesses met on the way that no document denies: the promotion of a record may
overwrite `kept` or bring a removed record back; a generator whose rows another
recovery has published reports a failure; a record left `preserving` without a
pending file makes every later start fail. One signal to a controller whose child
ignores SIGTERM waits for ever, a second escalates, a third breaks the escalation off.
A cancellation in the `sleep(0)` of `acquire_environment` never relinquishes the
setup owner, which is left to the cancellation of the settling; a rollback of an
injection that outlives its forced stop is tracked by nobody, only the isolation flag
keeps the result from being submitted; and a command that a restore leaves behind after
the dependencies were collected may lose its environment to the deferred cleanup.

## Not modelled

- Batch controller: the health checks before the first task, progress snapshots, the
  waiting of the shared health probe (it enters as three outcomes), orphans of a
  controller killed outright that still write the report the next one reads.
- Task processes: members of a group that closed their pipes, reuse of process ids,
  signals after `run_parallel`.
- Rejudge queue: a quarantine that itself fails, children that survive their kill, an orphaned
  reporting subprocess, mixed projections, reports without attempts.
- Remote runs: the local transport, residual ssh descendants, malformed records, what a
  killed runner leaves in containers, generation and evaluation themselves.
- Container guard: reuse of process ids, half-written records, the enumeration of
  sessions, the host side that quiesces whole containers. Nothing under `src/` calls
  prepare.
- Generation: a retention that itself fails, a container the daemon creates after its
  client was killed, labels, `BatchStop`, the workflow and best-of-n variants,
  `batch_state.py`, malformed pending files.
- Evaluation: `run_eval_batch` and its semaphore, the shutdown of the loop, an
  infinite deadline, a factory that returns no environment, a zero interval, the
  session and the environment themselves (OpenCollab's).
- Watchdogs: polling loops over external state.
- Benchmark parsing, scoring adapters, statistics, report layout, path checks, and the
  scripts for remote hosts: sequential processing of data without shared state,
  with unit tests of its own. These are most of the repository's lines, which is why
  the share of lines the models cover is small.

## Plan

Done: every component with concurrency or crash recovery but the health probe's waiting,
the watchdogs and `run_eval_batch`, which come next. All safety properties the runs check
are proved.

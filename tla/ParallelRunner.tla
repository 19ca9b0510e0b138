--------------------------- MODULE ParallelRunner ---------------------------
(***************************************************************************)
(* The batch controller of swe_g11_parallel_runner.py: _run_parallel, its  *)
(* thread pool and its scheduler state.  One controller thread owns every  *)
(* variable; worker threads only run run_one and hand back one result.     *)
(*                                                                         *)
(* An index is its position in config.indices, so pending.pop(0) takes the *)
(* least pending index.  Reports, logs and progress snapshots are left     *)
(* out; what the final snapshot concludes is kept in "published".          *)
(***************************************************************************)
EXTENDS Naturals, FiniteSets, Sequences, TaskResults

CONSTANTS
    Index,          \* positions of config.indices, from 1
    MaxWorkers,     \* config.max_workers
    MinWorkers,     \* config.min_workers
    Adaptive,       \* config.adaptive_concurrency
    RecoveryTasks,  \* config.adaptive_recovery_tasks
    CapacityFile,   \* OPENCOLLAB_EVAL_CAPACITY_CONTROL_FILE is set
    CapacityReads,  \* what a read of that file may give; 0 is an invalid read
    RunnerAttempts, \* config.runner_attempts
    Outcomes        \* the results of run_one considered

(* resolve_config clamps the worker counts and the attempt budget.         *)
ASSUME IndexAssumption == Index \subseteq Nat \ {0} /\ IsFiniteSet(Index)
ASSUME WorkersAssumption == /\ MaxWorkers \in Nat \ {0}
                            /\ MinWorkers \in 1..MaxWorkers
                            /\ RecoveryTasks \in Nat \ {0}
ASSUME ModeAssumption == Adaptive \in BOOLEAN /\ CapacityFile \in BOOLEAN
ASSUME CapacityAssumption == CapacityReads \subseteq Nat
ASSUME OutcomesAssumption == RunnerAttempts \in Nat \ {0} /\ Outcomes \subseteq RunOneResult

VARIABLES
    pending,    \* indices not submitted yet
    running,    \* futures whose worker thread is inside run_one
    finished,   \* futures that are done and not yet popped
    waitDone,   \* the done set the last wait returned, not yet popped
    batch,      \* completed_batch: popped and probed, not yet settled
    settled,    \* indices appended to results
    result,     \* the result of a finished, batched or settled index
    tries,      \* child processes run_one has launched for an index
    workers,    \* scheduler.current_workers
    streak,     \* scheduler.clean_streak
    halted,     \* scheduler.halted
    haltIndex,  \* scheduler.halt_index
    notStarted, \* scheduler.not_started
    accepted,   \* history: the last valid capacity read, 0 before any
    pc,         \* where the controller thread is
    published   \* [fact, status] of the final snapshot

queueVars == <<pending, running, finished, waitDone, batch, settled, result, tries>>
schedVars == <<workers, streak, halted, haltIndex, notStarted>>
vars == <<queueVars, schedVars, accepted, pc, published>>

NoResult == [status |-> "none", quiesced |-> TRUE, scope |-> "none",
             probe |-> "none", candidate |-> "none", empty |-> FALSE]

NoIndex == 0

Unpublished == [fact |-> "none", status |-> "running"]

(* len(futures): a done future stays in the dict until it is popped.       *)
InFlight == running \cup finished

BatchSet == {batch[k] : k \in 1..Len(batch)}

(* pending.pop(0).                                                         *)
First(i, S) == i \in S /\ \A j \in S : i <= j

Smaller(a, b) == IF a < b THEN a ELSE b
Larger(a, b) == IF a > b THEN a ELSE b

-----------------------------------------------------------------------------
(* refresh_capacity_control: an invalid read keeps the current count.      *)
CapacityControlWorkers(read, previous) ==
    IF read = 0 THEN previous ELSE Smaller(MaxWorkers, read)

RefreshCapacity ==
    \/ /\ ~CapacityFile
       /\ UNCHANGED <<workers, accepted>>
    \/ /\ CapacityFile
       /\ \E read \in CapacityReads :
             /\ workers' = CapacityControlWorkers(read, workers)
             /\ accepted' = IF read = 0 THEN accepted ELSE workers'

(* Mutants: done futures not counted, the index read but not popped.       *)
CanSubmitOverDone == pending # {} /\ ~halted /\ Cardinality(running) < workers

(* The condition of the while loop in submit_ready.                        *)
CanSubmit == pending # {} /\ ~halted /\ Cardinality(InFlight) < workers

SubmitFirstKept ==
    /\ CanSubmit
    /\ \E i \in pending :
          /\ First(i, pending)
          /\ running' = running \cup {i}
          /\ tries' = [tries EXCEPT ![i] = 1]
    /\ UNCHANGED <<pending, finished, waitDone, batch, settled, result>>

(* One round of that loop.                                                 *)
SubmitFirst ==
    /\ CanSubmit
    /\ \E i \in pending :
          /\ First(i, pending)
          /\ pending' = pending \ {i}
          /\ running' = running \cup {i}
          /\ tries' = [tries EXCEPT ![i] = 1]
    /\ UNCHANGED <<finished, waitDone, batch, settled, result>>

(* update_scheduler_state.  The streak is only compared with the recovery   *)
(* threshold, so it is kept at most that (bound).                           *)
UpdateSchedulerState(r) ==
    IF ~Adaptive THEN UNCHANGED <<workers, streak>>
    ELSE IF ResourceReasons(r) # {}
    THEN /\ streak' = 0
         /\ workers' = Larger(MinWorkers, workers - 1)
    ELSE IF workers < MaxWorkers /\ streak + 1 >= RecoveryTasks
    THEN /\ streak' = 0
         /\ workers' = workers + 1
    ELSE /\ streak' = Smaller(streak + 1, RecoveryTasks)
         /\ workers' = workers

(* Mutant: only a confirmed outage halts.                                  *)
HaltOnOutage(i, r, stops) ==
    IF SharedOutage(r) /\ stops /\ ~halted
    THEN /\ halted' = TRUE
         /\ haltIndex' = i
         /\ notStarted' = pending
    ELSE UNCHANGED <<halted, haltIndex, notStarted>>

(* The first systemic result halts the queue if something is still in it.  *)
HaltOn(i, r, stops) ==
    IF ResourceReasons(r) # {} /\ stops /\ ~halted
    THEN /\ halted' = TRUE
         /\ haltIndex' = i
         /\ notStarted' = pending
    ELSE UNCHANGED <<halted, haltIndex, notStarted>>

-----------------------------------------------------------------------------
(* initial_workers and the first _refresh_capacity_control of _run_parallel *)
(* happen before the pool exists; submit_ready refreshes again at once, so  *)
(* the first refresh is the one of pc = "refresh".                          *)
Init ==
    /\ pending = Index
    /\ running = {} /\ finished = {} /\ waitDone = {} /\ settled = {}
    /\ batch = <<>>
    /\ result = [i \in Index |-> NoResult]
    /\ tries = [i \in Index |-> 0]
    /\ workers = IF CapacityFile THEN Smaller(MaxWorkers, MinWorkers) ELSE MaxWorkers
    /\ streak = 0
    /\ halted = FALSE
    /\ haltIndex = NoIndex
    /\ notStarted = {}
    /\ accepted = 0
    /\ pc = "refresh"
    /\ published = Unpublished

(* submit_ready, first statement.                                          *)
Refresh ==
    /\ pc = "refresh"
    /\ RefreshCapacity
    /\ pc' = "submit"
    /\ UNCHANGED <<queueVars, streak, halted, haltIndex, notStarted, published>>

(* submit_ready, one turn of its loop.                                     *)
Submit ==
    /\ pc = "submit"
    /\ SubmitFirst
    /\ UNCHANGED <<schedVars, accepted, pc, published>>

(* Mutant: without "if not futures: break" a halted queue is waited for.    *)
LeaveSubmitAlwaysWaits ==
    /\ pc = "submit"
    /\ ~CanSubmit
    /\ pc' = IF InFlight \cup pending # {} THEN "wait" ELSE "finish"
    /\ UNCHANGED <<queueVars, schedVars, accepted, published>>

(* submit_ready returns; "while futures or pending" decides what is next.  *)
(* Nothing in flight with a live queue would submit again at once.         *)
LeaveSubmit ==
    /\ pc = "submit"
    /\ ~CanSubmit
    /\ pc' = IF InFlight # {} THEN "wait"
             ELSE IF pending = {} \/ halted THEN "finish"
             ELSE "refresh"
    /\ UNCHANGED <<queueVars, schedVars, accepted, published>>

(* concurrent.futures.wait(FIRST_COMPLETED) reports every done future.     *)
WaitReturns ==
    /\ pc = "wait"
    /\ finished # {}
    /\ waitDone' = finished
    /\ pc' = "probe"
    /\ UNCHANGED <<pending, running, finished, batch, settled, result, tries,
                   schedVars, accepted, published>>

(* The one-second timeout exists only with a capacity file; the empty done *)
(* set falls through to submit_ready.                                      *)
WaitTimesOut ==
    /\ pc = "wait"
    /\ CapacityFile
    /\ finished = {}
    /\ pc' = "refresh"
    /\ UNCHANGED <<queueVars, schedVars, accepted, published>>

(* futures.pop and confirm_shared_runtime_after_task_failure: what r may be *)
(* after the probe.                                                         *)
Confirmed(r, evalOnly) ==
    IF NeedsProbe(r, evalOnly)
    THEN {AfterProbe(r, outcome) : outcome \in {"passed", "failed", "setup_error"}}
    ELSE {r}

(* The for loop over done: pop one future, in any order, and probe.        *)
ProbeOne ==
    /\ pc = "probe"
    /\ \E i \in waitDone :
          /\ waitDone' = waitDone \ {i}
          /\ finished' = finished \ {i}
          /\ batch' = Append(batch, i)
          /\ \E r \in Confirmed(result[i], FALSE) : result' = [result EXCEPT ![i] = r]
    /\ pc' = IF waitDone' = {} THEN "settle" ELSE "probe"
    /\ UNCHANGED <<pending, running, settled, tries, schedVars, accepted, published>>

(* The for loop over completed_batch: every result of the batch is settled *)
(* before submit_ready refills the pool.                                   *)
Settle ==
    LET i == Head(batch) IN
    /\ pc = "settle"
    /\ batch # <<>>
    /\ batch' = Tail(batch)
    /\ settled' = settled \cup {i}
    /\ UpdateSchedulerState(result[i])
    /\ HaltOn(i, result[i], pending # {})
    /\ pc' = IF Tail(batch) = <<>> THEN "refresh" ELSE "settle"
    /\ UNCHANGED <<pending, running, finished, waitDone, result, tries, accepted, published>>

-----------------------------------------------------------------------------
(* A worker thread.  run_one launches a child process, reads its summary    *)
(* and tries again only after a preflight failure; the exception of a       *)
(* failed launch or write leaves the future done with that exception.       *)
ChildRetried(i) ==
    /\ i \in running
    /\ \E r \in Outcomes : Retryable(r)
    /\ tries[i] < RunnerAttempts
    /\ tries' = [tries EXCEPT ![i] = @ + 1]
    /\ UNCHANGED <<pending, running, finished, waitDone, batch, settled, result>>

ChildReturns(i, r) ==
    /\ i \in running
    /\ Retryable(r) => tries[i] = RunnerAttempts
    /\ running' = running \ {i}
    /\ finished' = finished \cup {i}
    /\ result' = [result EXCEPT ![i] = r]
    /\ UNCHANGED <<pending, waitDone, batch, settled, tries>>

WorkerRetries ==
    /\ \E i \in Index : ChildRetried(i)
    /\ UNCHANGED <<schedVars, accepted, pc, published>>

WorkerReturns(i) ==
    /\ \E r \in Outcomes : ChildReturns(i, r)
    /\ UNCHANGED <<schedVars, accepted, pc, published>>

-----------------------------------------------------------------------------
(* The end of _run_parallel: whether the fact report is built, and the     *)
(* status aggregate gives the final snapshot.                              *)
Incomplete == {i \in settled : ~Completed(result[i])}

FactReport ==
    IF halted /\ notStarted # {} THEN {"not_built_batch_halted"}
    ELSE IF Incomplete # {} THEN {"not_built_incomplete_tasks"}
    ELSE {"done", "done_with_technical_failures", "validation_failure"}

(* Mutant: technical by the name of the status.                            *)
AnyTechnicalStatus == \E i \in settled : result[i].status = "done_with_technical_failures"

AnyTechnical == \E i \in settled : Technical(result[i])

AggregateStatus(fact) ==
    IF halted THEN "halted_on_technical_failure"
    ELSE IF settled # Index \/ Incomplete # {} THEN "running"
    ELSE IF AnyTechnical THEN "done_with_technical_failures"
    ELSE IF fact = "validation_failure" THEN "done_with_report_validation_failure"
    ELSE fact

Finish ==
    /\ pc = "finish"
    /\ \E fact \in FactReport :
          published' = [fact |-> fact, status |-> AggregateStatus(fact)]
    /\ pc' = "exit"
    /\ UNCHANGED <<queueVars, schedVars, accepted>>

Controller ==
    \/ Refresh
    \/ Submit
    \/ LeaveSubmit
    \/ WaitReturns
    \/ WaitTimesOut
    \/ ProbeOne
    \/ Settle
    \/ Finish

Next ==
    \/ Controller
    \/ WorkerRetries
    \/ \E i \in Index : WorkerReturns(i)

(* The controller thread is never descheduled for ever, and every child is *)
(* bounded by --total-timeout.                                             *)
Fairness ==
    /\ WF_vars(Controller)
    /\ \A i \in Index : WF_vars(WorkerReturns(i))

Spec == Init /\ [][Next]_vars

FairSpec == Spec /\ Fairness

-----------------------------------------------------------------------------
QueueTypeOK ==
    /\ pending \subseteq Index /\ running \subseteq Index
    /\ finished \subseteq Index /\ waitDone \subseteq Index
    /\ settled \subseteq Index /\ notStarted \subseteq Index
    /\ batch \in Seq(Index)
    /\ result \in [Index -> Result \cup {NoResult}]
    /\ tries \in [Index -> 0..RunnerAttempts]
    /\ workers \in 1..MaxWorkers
    /\ streak \in 0..RecoveryTasks
    /\ halted \in BOOLEAN
    /\ haltIndex \in Index \cup {NoIndex}
    /\ accepted \in 0..MaxWorkers
    /\ published \in [fact : {"none", "not_built_batch_halted", "not_built_incomplete_tasks",
                              "done", "done_with_technical_failures", "validation_failure"},
                      status : {"running", "done", "done_with_technical_failures",
                                "done_with_report_validation_failure",
                                "halted_on_technical_failure"}]

TypeOK ==
    /\ QueueTypeOK
    /\ pc \in {"refresh", "submit", "wait", "probe", "settle", "finish", "exit"}

(* Census: every configured index is in exactly one place (queue, worker,  *)
(* done future, completed batch, results), so no task is lost between the  *)
(* queue, the futures and the results and none is settled twice, whatever  *)
(* the order of completions, probes and the halt.  The final fact report   *)
(* and the census of aggregate rest on it.                                 *)
Census ==
    /\ pending \cup running \cup finished \cup BatchSet \cup settled = Index
    /\ pending \cap (running \cup finished \cup BatchSet \cup settled) = {}
    /\ running \cap (finished \cup BatchSet \cup settled) = {}
    /\ finished \cap (BatchSet \cup settled) = {}
    /\ BatchSet \cap settled = {}
    /\ \A k, m \in 1..Len(batch) : batch[k] = batch[m] => k = m

(* The pool never has more futures than it has threads, across capacity    *)
(* changes and adaptive changes, so a submitted task is running and never  *)
(* queued inside the executor, where a halt could not reach it.            *)
PoolNeverOversubscribed == Cardinality(InFlight) <= MaxWorkers

(* A halt freezes the queue: what the controller reported as not started   *)
(* stays exactly the queue, and its cause stays in the results.            *)
HaltFreezesQueue ==
    halted => /\ notStarted = pending
              /\ notStarted # {}
              /\ haltIndex \in settled
              /\ ResourceReasons(result[haltIndex]) # {}

(* Once a collected result carries a systemic reason (lost report, dead    *)
(* worker, unquiesced generation, confirmed outage), no later task starts: *)
(* completions of one wait are all probed and settled before the refill.   *)
NoStartAfterSystemicResult ==
    [][(\E i \in BatchSet \cup settled : ResourceReasons(result[i]) # {})
          => running' \subseteq running]_vars

(* The published conclusion is earned: a built fact report means no queued *)
(* task was abandoned and every index completed; status "done" also means  *)
(* that no result is technical and no halt happened.                       *)
PublishedIsEarned ==
    /\ published.fact \in {"done", "done_with_technical_failures", "validation_failure"} =>
          /\ settled = Index
          /\ \A i \in Index : Completed(result[i])
    /\ published.status = "done" =>
          /\ ~halted
          /\ settled = Index
          /\ \A i \in Index : result[i].status = "done"
    /\ published.status = "running" /\ pc = "exit" =>
          \E i \in settled : ~Completed(result[i])

(* With a fixed policy the worker count is what the operator's file last   *)
(* validly said: a task starts only inside that window, through any run of *)
(* unreadable contents (swe-prolite-operations.md, capacity file).  No run *)
(* checks it: TLC refutes it.                                              *)
LastAcceptedCapacity ==
    [][running' \ running # {} /\ accepted > 0
          => Cardinality(running' \cup finished') <= accepted]_vars

(* The controller always ends, halted or not: no wait is left without a    *)
(* future to wake it and no queue is left without a worker to take it.     *)
Terminates == <>(pc = "exit")
=============================================================================

---------------------------- MODULE RejudgeQueue ----------------------------
(***************************************************************************)
(* The evaluation-only queue (swe_rejudge_queue.py) over the jobs of one   *)
(* parent directory, with the runner children it launches                  *)
(* (swe_v1_prolite_runner --eval-only) and the fold of their reports into  *)
(* the parent's final report (swe_v1_prolite_controller,                   *)
(* swe_v1_prolite_report).  A child runs in a session of its own, survives *)
(* a killed queue with its flock, and spends and publishes evaluation      *)
(* attempts whether or not anyone still waits for it.                      *)
(*                                                                         *)
(* All reports of a job carry its candidate and one projection; reports    *)
(* without an executed attempt count for nothing and are left out.         *)
(***************************************************************************)
EXTENDS Naturals, FiniteSets

CONSTANTS
    Job,        \* the jobs of the plan
    Queue,      \* the queue's own name as a holder of the report lock
    Priors,     \* the parent summaries possible at the start
    Outcomes,   \* what the evaluation of each launch may report
    Workers,    \* threads of the pool
    MaxTotal,   \* MAX_TOTAL_EVAL_ATTEMPTS
    MaxEval,    \* --max-eval-attempts of one child
    MaxLives,   \* bound: processes of the queue, one after another
    MaxSlots,   \* bound: children each job could ever get
    BadLives    \* by parent: those whose OPENCOLLAB_EVAL_TIMEOUT_SECONDS is no timeout

Identity == {"verified", "candidate_identity_missing", "candidate_identity_conflict"}
Verdict == {"resolved", "unresolved"}
Prior == [identity : Identity, attempts : 0..MaxTotal, verdict : Verdict \cup {"none"}]
LaunchSlots(j) == 1..MaxSlots[j]
Run == UNION {{j} \X LaunchSlots(j) : j \in Job}

ASSUME BudgetAssumption == MaxTotal \in Nat /\ MaxEval \in Nat \ {0} /\ Workers \in 1..4
ASSUME BoundsAssumption == MaxLives \in Nat \ {0} /\ MaxSlots \in [Job -> Nat \ {0}]
ASSUME JobAssumption == IsFiniteSet(Job) /\ Queue \notin Run
ASSUME PriorsAssumption ==
    /\ Priors \subseteq [Job -> Prior]
    /\ Outcomes \in [Run -> SUBSET (Verdict \cup {"technical"})]
    /\ BadLives \in [Priors -> SUBSET (1..MaxLives)]

VARIABLES
    parent,     \* parallel_summary.json, written by the batch controller
    entry,      \* the jobs of the state file, rewritten at every change
    main,       \* where the queue process is
    lives,
    worker,     \* where _run_job is for each job
    spawned,    \* attempt names used for a job: its log files
    child,      \* where the child of each launch is
    report,     \* what its report says and where the report is
    chosen,     \* per writer of the final report: the reports it has selected
    final,      \* the final report: source_reports, and those it could count
    judged      \* runs whose terminal report came with a non-zero return code

disk == <<report, final, judged>>
queueVars == <<parent, entry, main, lives, worker, spawned, child, chosen, disk>>

NoEntry == [status |-> "absent", launches |-> 0]
NoReport == [says |-> "none", attempts |-> 0, place |-> "absent"]
Failed == {"command_failed", "technical_failed"}
Accepted == {"terminal", "skipped_terminal"}

QueueInit ==
    /\ parent \in Priors
    /\ entry = [j \in Job |-> NoEntry]
    /\ main = "down" /\ lives = 0
    /\ worker = [j \in Job |-> "queued"]
    /\ spawned = [j \in Job |-> 0]
    /\ child = [r \in Run |-> "none"]
    /\ report = [r \in Run |-> NoReport]
    /\ chosen = [w \in Run \cup {Queue} |-> {}]
    /\ final = [sources |-> {}, counted |-> {}]
    /\ judged = {}

-----------------------------------------------------------------------------
(* What is read from the parent directory.                                 *)

(* The reports the globs find: there, and without a quarantine marker.     *)
Live == {r \in Run : report[r].place = "live"}

TerminalRuns(j) == {r \in Live : r[1] = j /\ report[r].says \in Verdict}

(* _terminal_report: every verdict an unquarantined report gives.          *)
Verdicts(j) == {report[r].says : r \in TerminalRuns(j)}
               \cup ({parent[j].verdict} \cap Verdict)

(* The attempts of a job that a set of reports shows: <<r, k>> is the k-th  *)
(* attempt of run r.                                                       *)
Shown(j, counted) ==
    {a \in counted \X (1..MaxEval) : a[1][1] = j /\ a[2] <= report[a[1]].attempts}

(* Attempts of a job according to a set of counted reports.                *)
Attempts(j, counted) == parent[j].attempts + Cardinality(Shown(j, counted))

(* _observed_eval_attempts and the child's candidate counts: the larger of  *)
(* the parent summary and the final report, which includes that summary.    *)
Observed(j) == Attempts(j, final.counted)

(* eval_only_reconciliation_reports: what is on disk and every historical   *)
(* source; a source that is gone is an error, not a skip.                   *)
Selectable == final.sources \subseteq Live

ReportLockNone == TRUE  \* mutant: folds are not serialized
ReportLockFree == main # "publish" /\ \A r \in Run : child[r] # "publish"

Select(w) == chosen' = [chosen EXCEPT ![w] = Live \cup final.sources]

(* swe_eval_layer_report: a selected report that has vanished stays in      *)
(* source_reports and counts for nothing.                                   *)
Fold(w) ==
    /\ final' = [sources |-> chosen[w], counted |-> chosen[w] \cap Live]
    /\ chosen' = [chosen EXCEPT ![w] = {}]

-----------------------------------------------------------------------------
(* The child: main() of the runner under --eval-only.                      *)

InTaskLock == {"evaluate", "fold", "publish", "rewrite"}
TaskLockNone(j) == TRUE  \* mutant: no lock per task
TaskLockKept(j) ==  \* mutant: an exception leaves the lock held
    \A n \in LaunchSlots(j) : child[<<j, n>>] \notin InTaskLock \cup {"failed"}
TaskLockFree(j) == \A n \in LaunchSlots(j) : child[<<j, n>>] \notin InTaskLock

Goes(r, pc) == child' = [child EXCEPT ![r] = pc]

(* Under the task lock, apply_parent_eval_budget: what is left of the       *)
(* total; the run then executes at least one attempt of it.                 *)
ChildTakesLock(r) ==
    /\ child[r] = "lock" /\ TaskLockFree(r[1])
    /\ Observed(r[1]) < MaxTotal
    /\ \E n \in 1..MaxEval :
           /\ Observed(r[1]) + n <= MaxTotal
           /\ report' = [report EXCEPT ![r].attempts = n]
    /\ Goes(r, "evaluate")
    /\ UNCHANGED <<parent, entry, main, lives, worker, spawned, chosen, final, judged>>

ChildFindsBudgetSpent(r) ==
    /\ child[r] = "lock" /\ TaskLockFree(r[1])
    /\ Observed(r[1]) >= MaxTotal
    /\ Goes(r, "failed")
    /\ UNCHANGED <<parent, entry, main, lives, worker, spawned, chosen, disk>>

(* run_remote, then the first write_local_report.                          *)
ChildEvaluates(r) ==
    /\ child[r] = "evaluate"
    /\ \E says \in Outcomes[r] :
           report' = [report EXCEPT ![r].says = says, ![r].place = "live"]
    /\ Goes(r, "fold")
    /\ UNCHANGED <<parent, entry, main, lives, worker, spawned, chosen, final, judged>>

(* update_parent_fact_report up to the reporting process.                  *)
ChildSelects(r) ==
    /\ child[r] = "fold" /\ ReportLockFree
    /\ Selectable
    /\ Select(r)
    /\ Goes(r, "publish")
    /\ UNCHANGED <<parent, entry, main, lives, worker, spawned, disk>>

ChildMissesSource(r) ==
    /\ child[r] = "fold" /\ ReportLockFree
    /\ ~Selectable
    /\ Goes(r, "failed")
    /\ UNCHANGED <<parent, entry, main, lives, worker, spawned, chosen, disk>>

ChildPublishes(r) ==
    /\ child[r] = "publish"
    /\ Fold(r)
    /\ Goes(r, "rewrite")
    /\ UNCHANGED <<parent, entry, main, lives, worker, spawned, report, judged>>

(* The second write_local_report and the return code.                      *)
ChildExits(r) ==
    /\ child[r] = "rewrite"
    /\ \/ Goes(r, "ok")
       \/ report[r].says = "technical" /\ Goes(r, "failed")
    /\ UNCHANGED <<parent, entry, main, lives, worker, spawned, chosen, disk>>

(* An exception, a signal, or the queue's timeout and its cleanup.         *)
ChildDies(r) ==
    /\ child[r] \in InTaskLock \cup {"lock"}
    /\ Goes(r, "failed")
    /\ chosen' = [chosen EXCEPT ![r] = {}]
    /\ UNCHANGED <<parent, entry, main, lives, worker, spawned, disk>>

ChildStep(r) ==
    \/ ChildTakesLock(r) \/ ChildFindsBudgetSpent(r) \/ ChildEvaluates(r)
    \/ ChildSelects(r) \/ ChildMissesSource(r) \/ ChildPublishes(r) \/ ChildExits(r)

-----------------------------------------------------------------------------
(* _run_job.                                                               *)

Put(j, status, launches) ==
    entry' = [entry EXCEPT ![j] = [status |-> status, launches |-> launches]]

At(j, pc) == worker' = [worker EXCEPT ![j] = pc]

EndsAs(j, status, launches) == Put(j, status, launches) /\ At(j, "ended")

(* The pool gives the job a thread; a retry keeps the one it has.          *)
Running(j) ==
    /\ main = "pool"
    /\ \/ worker[j] = "again"
       \/ /\ worker[j] = "queued"
          /\ Cardinality({k \in Job : worker[k] \notin {"queued", "ended"}}) < Workers

PreviousFailed(j) == entry[j].status \in Failed

Unidentified(j) ==
    /\ Running(j)
    /\ parent[j].identity # "verified"
    /\ EndsAs(j, parent[j].identity, 0)
    /\ UNCHANGED <<parent, main, lives, spawned, child, chosen, disk>>

FindsConflict(j) ==
    /\ Running(j)
    /\ parent[j].identity = "verified" /\ ~PreviousFailed(j)
    /\ Verdicts(j) = Verdict
    /\ EndsAs(j, "terminal_verdict_conflict", 0)
    /\ UNCHANGED <<parent, main, lives, spawned, child, chosen, disk>>

FindsTerminal(j) ==
    /\ Running(j)
    /\ parent[j].identity = "verified" /\ ~PreviousFailed(j)
    /\ Cardinality(Verdicts(j)) = 1
    /\ EndsAs(j, "skipped_terminal", 0)
    /\ UNCHANGED <<parent, main, lives, spawned, child, chosen, disk>>

FindsNothing(j) ==
    /\ Running(j)
    /\ parent[j].identity = "verified"
    /\ PreviousFailed(j) \/ Verdicts(j) = {}
    /\ At(j, "budget")
    /\ UNCHANGED <<parent, entry, main, lives, spawned, child, chosen, disk>>

BudgetSpent(j) ==
    /\ main = "pool" /\ worker[j] = "budget"
    /\ Observed(j) >= MaxTotal
    /\ EndsAs(j, "budget_exhausted", 0)
    /\ UNCHANGED <<parent, main, lives, spawned, child, chosen, disk>>

(* The plan gives no timeout and the environment of this process a bad one. *)
InvalidTimeout(j) ==
    /\ lives \in BadLives[parent]
    /\ main = "pool" /\ worker[j] = "budget"
    /\ Observed(j) < MaxTotal
    /\ EndsAs(j, "invalid_timeout", 0)
    /\ UNCHANGED <<parent, main, lives, spawned, child, chosen, disk>>

LaunchesSpent(j) ==
    /\ main = "pool" /\ worker[j] = "budget" /\ lives \notin BadLives[parent]
    /\ Observed(j) < MaxTotal
    /\ entry[j].launches >= 2
    /\ EndsAs(j, "launch_budget_exhausted", entry[j].launches)
    /\ UNCHANGED <<parent, main, lives, spawned, child, chosen, disk>>

(* Mutant: the reservation is not persisted before the child starts.       *)
ReserveLaunchLater(j) ==
    /\ main = "pool" /\ worker[j] = "budget" /\ lives \notin BadLives[parent]
    /\ Observed(j) < MaxTotal
    /\ entry[j].launches < 2
    /\ Put(j, "running", entry[j].launches)
    /\ At(j, "reserved")
    /\ UNCHANGED <<parent, main, lives, spawned, child, chosen, disk>>

(* _reserve_launch *)
ReserveLaunch(j) ==
    /\ main = "pool" /\ worker[j] = "budget" /\ lives \notin BadLives[parent]
    /\ Observed(j) < MaxTotal
    /\ entry[j].launches < 2
    /\ Put(j, "running", entry[j].launches + 1)
    /\ At(j, "reserved")
    /\ UNCHANGED <<parent, main, lives, spawned, child, chosen, disk>>

(* _run_bounded_child: Popen in a new session, logging to an unused name.  *)
Spawn(j) ==
    /\ main = "pool" /\ worker[j] = "reserved"
    /\ spawned[j] + 1 \in LaunchSlots(j)
    /\ spawned' = [spawned EXCEPT ![j] = @ + 1]
    /\ Goes(<<j, spawned[j] + 1>>, "lock")
    /\ At(j, "child")
    /\ UNCHANGED <<parent, entry, main, lives, chosen, disk>>

(* The result of a launch is persisted; a failure is tried again unless     *)
(* the launches, the attempts or an unclean cleanup forbid it.              *)
Persist(j, status, clean) ==
    /\ Put(j, status, entry[j].launches)
    /\ At(j, IF status \in Failed /\ entry[j].launches < 2 /\ clean /\ Observed(j) < MaxTotal
             THEN "again" ELSE "ended")

(* log_path.open("x") or Popen raises.                                     *)
SpawnFails(j) ==
    /\ main = "pool" /\ worker[j] = "reserved"
    /\ Persist(j, "command_failed", TRUE)
    /\ UNCHANGED <<parent, main, lives, spawned, child, chosen, disk>>

Launch(j) == <<j, spawned[j]>>

(* The return code of an ended child: 0; another; or 125, when its group    *)
(* was not quiet afterwards, which is never tried again.                    *)
Codes(r) == (IF child[r] = "ok" THEN {0} ELSE {1}) \cup {125}

Collected(j) == main = "pool" /\ worker[j] = "child" /\ child[Launch(j)] \in {"ok", "failed"}

AcceptReport(j) ==
    /\ Collected(j)
    /\ Launch(j) \in TerminalRuns(j)
    /\ 0 \in Codes(Launch(j))
    /\ Persist(j, "terminal", TRUE)
    /\ UNCHANGED <<parent, main, lives, spawned, child, chosen, disk>>

SetAside(r) == report' = [report EXCEPT ![r].place = "aside"]

(* quarantine_report of a verdict whose process did not end well.          *)
RejectReport(j) ==
    /\ Collected(j)
    /\ Launch(j) \in TerminalRuns(j)
    /\ \E code \in Codes(Launch(j)) \ {0} :
           At(j, IF code = 125 THEN "rejected" ELSE "rejected_cleanly")
    /\ SetAside(Launch(j))
    /\ judged' = judged \cup {Launch(j)}
    /\ UNCHANGED <<parent, entry, main, lives, spawned, child, chosen, final>>

PersistRejection(j) ==
    /\ main = "pool" /\ worker[j] \in {"rejected", "rejected_cleanly"}
    /\ Persist(j, "command_failed", worker[j] = "rejected_cleanly")
    /\ UNCHANGED <<parent, main, lives, spawned, child, chosen, disk>>

NoVerdict(j) ==
    /\ Collected(j)
    /\ Launch(j) \notin TerminalRuns(j)
    /\ \E code \in Codes(Launch(j)) :
           Persist(j, IF Launch(j) \in Live THEN "technical_failed" ELSE "command_failed",
                   code # 125)
    /\ UNCHANGED <<parent, main, lives, spawned, child, chosen, disk>>

Decide(j) ==
    \/ Unidentified(j) \/ FindsConflict(j) \/ FindsTerminal(j) \/ FindsNothing(j)
    \/ BudgetSpent(j) \/ InvalidTimeout(j) \/ LaunchesSpent(j) \/ ReserveLaunch(j)

Conclude(j) == AcceptReport(j) \/ RejectReport(j) \/ PersistRejection(j) \/ NoVerdict(j)

RunJob(j) == Decide(j) \/ Spawn(j) \/ SpawnFails(j) \/ Conclude(j)

-----------------------------------------------------------------------------
(* _run_queue_locked.                                                      *)

Start ==
    /\ main \in {"down", "done", "raised"} /\ lives < MaxLives
    /\ main' = "pool" /\ lives' = lives + 1
    /\ worker' = [j \in Job |-> "queued"]
    /\ UNCHANGED <<parent, entry, spawned, child, chosen, disk>>

Eligible == {j \in Job : entry[j].status \in Accepted}
PoolDone == main = "pool" /\ \A j \in Job : worker[j] = "ended"
Conflict == \E j \in Eligible : Verdicts(j) = Verdict
NewReportsOfThisRun ==  \* mutant: what a killed run left is not refreshed
    \E j \in Eligible : entry[j].status = "terminal" /\ TerminalRuns(j) # {}
NewReports == \E j \in Eligible : TerminalRuns(j) # {}

(* No eligible job, a verdict conflict, or only the parent summary's word:  *)
(* the state says done and the final report stays.                          *)
LeaveFinal ==
    /\ PoolDone
    /\ Conflict \/ ~NewReports
    /\ main' = "done"
    /\ UNCHANGED <<parent, entry, lives, worker, spawned, child, chosen, disk>>

RefreshSelects ==
    /\ PoolDone /\ ~Conflict /\ NewReports
    /\ ReportLockFree
    /\ Selectable
    /\ Select(Queue)
    /\ main' = "publish"
    /\ UNCHANGED <<parent, entry, lives, worker, spawned, child, disk>>

RefreshMissesSource ==
    /\ PoolDone /\ ~Conflict /\ NewReports
    /\ ReportLockFree
    /\ ~Selectable
    /\ main' = "raised"
    /\ UNCHANGED <<parent, entry, lives, worker, spawned, child, chosen, disk>>

RefreshPublishes ==
    /\ main = "publish"
    /\ Fold(Queue)
    /\ main' = "done"
    /\ UNCHANGED <<parent, entry, lives, worker, spawned, child, report, judged>>

(* The process is killed; its children live on.                            *)
Crash ==
    /\ main \in {"pool", "publish"}
    /\ main' = "down"
    /\ worker' = [j \in Job |-> "queued"]
    /\ chosen' = [chosen EXCEPT ![Queue] = {}]
    /\ UNCHANGED <<parent, entry, lives, spawned, child, disk>>

Refresh == LeaveFinal \/ RefreshSelects \/ RefreshMissesSource \/ RefreshPublishes

(* The pool's threads and the children run until they return: as each has   *)
(* finitely many steps, it is enough that some one of them goes on.  Nobody *)
(* owes a restart, a crash or a death.                                      *)
Proceed ==
    \/ \E j \in Job : RunJob(j)
    \/ \E r \in Run : ChildStep(r)
    \/ Refresh

QueueNext == Proceed \/ (\E r \in Run : ChildDies(r)) \/ Start \/ Crash

Fairness == WF_queueVars(Proceed)

QueueSpec == QueueInit /\ [][QueueNext]_queueVars /\ Fairness

-----------------------------------------------------------------------------
QueueTypeOK ==
    /\ parent \in [Job -> Prior]
    /\ entry \in [Job -> [status : Failed \cup Accepted \cup Identity \cup
                              {"absent", "running", "terminal_verdict_conflict",
                               "budget_exhausted", "launch_budget_exhausted",
                               "invalid_timeout"},
                          launches : 0..2]]
    /\ main \in {"down", "pool", "publish", "done", "raised"}
    /\ lives \in 0..MaxLives
    /\ worker \in [Job -> {"queued", "again", "budget", "reserved", "child", "rejected",
                           "rejected_cleanly", "ended"}]
    /\ spawned \in [Job -> Nat] /\ \A j \in Job : spawned[j] <= MaxSlots[j]
    /\ child \in [Run -> InTaskLock \cup {"none", "lock", "ok", "failed"}]
    /\ report \in [Run -> [says : Verdict \cup {"technical", "none"}, attempts : 0..MaxEval,
                           place : {"absent", "live", "aside"}]]
    /\ chosen \in [Run \cup {Queue} -> SUBSET Run]
    /\ final \in [sources : SUBSET Run, counted : SUBSET Run]
    /\ judged \subseteq Run

(* A report of the job that a fold had selected was renamed before the fold *)
(* read it: its attempts are not counted, and no later fold succeeds.       *)
SourceLost(j) == \E r \in final.sources \ final.counted : r[1] = j

(* A job's children are two at most over all restarts, although several     *)
(* outcomes overwrite its record without the count (_reserve_launch,        *)
(* _set_job_state): each of them must also end the launching.  Two do not:  *)
(* after an invalid_timeout, and after a budget_exhausted whose attempts a  *)
(* fold then loses, the count starts again.                                 *)
LaunchesBounded ==
    \A j \in Job : spawned[j] <= 2 * (1 + Cardinality(BadLives[parent] \cap 1..lives))
                                 + (IF SourceLost(j) THEN 2 ELSE 0)

(* The final report counts more attempts of a task than the budget only if  *)
(* a child of that task died with attempts it had not yet folded: the task  *)
(* lock is held from the reading of the budget to the fold.                 *)
OverrunNeedsADeadChild ==
    \A j \in Job : Observed(j) > MaxTotal => \E n \in LaunchSlots(j) : child[<<j, n>>] = "failed"

(* When the queue reports done, the final report counts a verdict of every  *)
(* job accepted on a child's word, unless a conflict withheld the refresh.  *)
DoneMeansPublished ==
    main = "done" =>
        \/ Conflict
        \/ \A j \in Eligible : parent[j].verdict \in Verdict
                               \/ TerminalRuns(j) \cap final.counted # {}

(* An attempt once counted stays counted: two folds never overwrite each    *)
(* other's reports (parent_report_lock).  The exception is a report set     *)
(* aside during a fold, after which no fold succeeds any more.              *)
CountedStaysCounted ==
    [][final.counted \subseteq final'.counted \/ ~(final'.sources \subseteq Live')]_queueVars

(* A queue that has started its pool returns, raises or is killed: no       *)
(* thread waits for a lock for ever.                                        *)
QueueReturns == []<>(main # "pool")

(* docs/swe-prolite-operations.md:621: the parent's final report is         *)
(* refreshed from accepted outcomes; a run of the queue with an accepted    *)
(* outcome never ends in an error of the refresh.                           *)
AcceptedOutcomesAreRefreshed == main # "raised"
=============================================================================

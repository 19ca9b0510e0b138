----------------------------- MODULE EvalClaims -----------------------------
(***************************************************************************)
(* Who may run the official evaluation of one candidate                    *)
(* (swe_auto_eval_driver.py, swe_auto_eval_claims.py,                      *)
(* swe_auto_eval_claim_runner.py, and the readiness they read back through *)
(* engine/swe_eval_discovery.py and engine/swe_eval_decision.py).          *)
(* Driver processes decide from a summary of the disk, take the claim file *)
(* under its lock and launch a detached wrapper; the wrapper starts the    *)
(* evaluator in a session of its own and then owns the claim, without the  *)
(* lock.  Any process may die between two steps.                           *)
(*                                                                         *)
(* Every process records its start identity, so the lease of claims.py,    *)
(* the fallback for records without one, decides nothing here.             *)
(***************************************************************************)
EXTENDS Naturals, FiniteSets

CONSTANTS
    Driver,     \* driver runs; each launches this task at most once
    None,       \* no driver
    FaultSets   \* sets of "slow_start", "unannounced", "late_failure": see below

ASSUME DriverAssumption == None \notin Driver
ASSUME FaultSetsAssumption ==
    FaultSets \subseteq SUBSET {"slow_start", "unannounced", "late_failure"}

VARIABLES
    faults,     \* what may go wrong in this behaviour; never changes
    driver,     \* where maybe_start_eval is in each driver run
    lock,       \* who holds the claim lock
    wrapper,    \* where the wrapper each driver launched is
    outcome,    \* what that wrapper is about to record
    evaluator,  \* the evaluator group of that wrapper
    aged,       \* launches begun more than CLAIM_CONSTRUCTION_GRACE_SECONDS ago
    claim,      \* the claim file
    attempt,    \* the attempt file
    report      \* the evaluator's report is on disk

vars == <<faults, driver, lock, wrapper, outcome, evaluator, aged, claim, attempt, report>>

(* owner: which kind of process the recorded pid is; group: whose evaluator *)
(* group is recorded.                                                       *)
NoFile == [by |-> None, owner |-> "nobody", status |-> "absent", group |-> None]

DriverRecord(d, status) == [by |-> d, owner |-> "driver", status |-> status, group |-> None]
FailedStart(d) == [by |-> d, owner |-> "nobody", status |-> "failed_to_start", group |-> None]
Started(d) == [by |-> d, owner |-> "wrapper", status |-> "started", group |-> d]
Ended(d, status, quiet) ==
    [by |-> d, owner |-> "nobody", status |-> status, group |-> IF quiet THEN None ELSE d]

DriverAlive(d) == driver[d] \notin {"unborn", "exited"}
WrapperAlive(d) == wrapper[d] \notin {"none", "gone"}
GroupExists(d) == evaluator[d] \in {"live", "residual"}

Init ==
    /\ faults \in FaultSets
    /\ driver = [d \in Driver |-> "unborn"]
    /\ lock = None
    /\ wrapper = [d \in Driver |-> "none"]
    /\ outcome = [d \in Driver |-> NoFile]
    /\ evaluator = [d \in Driver |-> "none"]
    /\ aged = {}
    /\ claim = NoFile /\ attempt = NoFile
    /\ report = FALSE

-----------------------------------------------------------------------------
(* _attempt_is_active: the evaluator's leader, or the launching driver.    *)
AttemptActive ==
    \/ attempt.status = "started" /\ evaluator[attempt.group] = "live"
    \/ attempt.status = "launching" /\ DriverAlive(attempt.by)

(* decide_task for a candidate that is ready but for its evaluation; a      *)
(* launching or started attempt nobody answers for counts as failed.        *)
Verdict ==
    IF AttemptActive THEN "eval_active"
    ELSE IF report THEN "eval_done"
    ELSE IF attempt.status \in {"absent", "failed_to_start"} THEN "ready_for_eval"
    ELSE "technical_eval_failed"

(* build_summary: what the driver acts on later.                           *)
Summarize(d) ==
    /\ driver[d] = "unborn"
    /\ driver' = [driver EXCEPT ![d] =
                     IF Verdict = "ready_for_eval" THEN "acquire" ELSE "exited"]
    /\ UNCHANGED <<faults, lock, wrapper, outcome, evaluator, aged, claim, attempt, report>>

TakeLock(d) ==
    /\ driver[d] = "acquire" /\ lock = None
    /\ lock' = d
    /\ driver' = [driver EXCEPT ![d] = "inspect"]
    /\ UNCHANGED <<faults, wrapper, outcome, evaluator, aged, claim, attempt, report>>

(* _claim_owner_is_active: a pid of the recorded process.                  *)
OwnerActive(c) ==
    \/ c.owner = "driver" /\ DriverAlive(c.by)
    \/ c.owner = "wrapper" /\ WrapperAlive(c.by)

(* Mutants: only the group's leader counts; a launch never times out; the   *)
(* group does not count.                                                    *)
ResidualLeaderLive(c) == c.group # None /\ evaluator[c.group] = "live"

(* _claim_residual_group_is_live: leader identity known or unknown alike.  *)
ResidualGroupLive(c) == c.group # None /\ GroupExists(c.group)

BootstrappingForever(c) == c.status = "claiming"

Bootstrapping(c) == c.status = "claiming" /\ c.by \notin aged

RetainedNoGroup(c) == OwnerActive(c) \/ Bootstrapping(c)

Retained(c) == OwnerActive(c) \/ ResidualGroupLive(c) \/ Bootstrapping(c)

(* _acquire_claim, inspection: absent, retained or to be reclaimed.        *)
Inspect(d) ==
    /\ driver[d] = "inspect"
    /\ driver' = [driver EXCEPT ![d] =
                     IF claim = NoFile THEN "claim"
                     ELSE IF Retained(claim) THEN "others" ELSE "reclaim"]
    /\ lock' = IF driver'[d] = "others" THEN None ELSE lock
    /\ UNCHANGED <<faults, wrapper, outcome, evaluator, aged, claim, attempt, report>>

Reclaim(d) ==
    /\ driver[d] = "reclaim"
    /\ claim' = NoFile
    /\ driver' = [driver EXCEPT ![d] = "claim"]
    /\ UNCHANGED <<faults, lock, wrapper, outcome, evaluator, aged, attempt, report>>

WriteClaim(d) ==
    /\ driver[d] = "claim"
    /\ claim' = DriverRecord(d, "claiming")
    /\ lock' = None
    /\ driver' = [driver EXCEPT ![d] = "attempt"]
    /\ UNCHANGED <<faults, wrapper, outcome, evaluator, aged, attempt, report>>

WriteAttempt(d) ==
    /\ driver[d] = "attempt"
    /\ attempt' = DriverRecord(d, "launching")
    /\ driver' = [driver EXCEPT ![d] = "launch"]
    /\ UNCHANGED <<faults, lock, wrapper, outcome, evaluator, aged, claim, report>>

Launch(d) ==
    /\ driver[d] = "launch"
    /\ wrapper' = [wrapper EXCEPT ![d] = "starting"]
    /\ driver' = [driver EXCEPT ![d] = "others"]
    /\ UNCHANGED <<faults, lock, outcome, evaluator, aged, claim, attempt, report>>

(* Popen raises OSError: the attempt is rewritten, then the claim unlinked *)
(* without the lock and without a look at whose it is.                     *)
LaunchFails(d) ==
    /\ driver[d] = "launch"
    /\ attempt' = FailedStart(d)
    /\ driver' = [driver EXCEPT ![d] = "unclaim"]
    /\ UNCHANGED <<faults, lock, wrapper, outcome, evaluator, aged, claim, report>>

Unclaim(d) ==
    /\ driver[d] = "unclaim"
    /\ claim' = NoFile
    /\ driver' = [driver EXCEPT ![d] = "others"]
    /\ UNCHANGED <<faults, lock, wrapper, outcome, evaluator, aged, attempt, report>>

(* The driver goes through its other tasks and exits, or dies anywhere     *)
(* (kill, lock timeout, a write that raises); its flock goes with it.      *)
DriverExits(d) ==
    /\ DriverAlive(d)
    /\ driver' = [driver EXCEPT ![d] = "exited"]
    /\ lock' = IF lock = d THEN None ELSE lock
    /\ UNCHANGED <<faults, wrapper, outcome, evaluator, aged, claim, attempt, report>>

-----------------------------------------------------------------------------
(* The wrapper: Popen of the evaluator.                                    *)
Spawn(d) ==
    /\ wrapper[d] = "starting"
    /\ wrapper' = [wrapper EXCEPT ![d] = "spawned"]
    /\ evaluator' = [evaluator EXCEPT ![d] = "live"]
    /\ UNCHANGED <<faults, driver, lock, outcome, aged, claim, attempt, report>>

(* _publish_both, first file: on the way up, and at every heartbeat.       *)
PublishClaim(d) ==
    /\ wrapper[d] \in {"spawned", "beat"}
    /\ claim' = Started(d)
    /\ wrapper' = [wrapper EXCEPT ![d] = "published"]
    /\ UNCHANGED <<faults, driver, lock, outcome, evaluator, aged, attempt, report>>

PublishAttempt(d) ==
    /\ wrapper[d] = "published"
    /\ attempt' = Started(d)
    /\ wrapper' = [wrapper EXCEPT ![d] = "watching"]
    /\ UNCHANGED <<faults, driver, lock, outcome, evaluator, aged, claim, report>>

Heartbeat(d) ==
    /\ wrapper[d] = "watching"
    /\ evaluator[d] = "live"
    /\ wrapper' = [wrapper EXCEPT ![d] = "beat"]
    /\ UNCHANGED <<faults, driver, lock, outcome, evaluator, aged, claim, attempt, report>>

(* terminate_child: the group is gone, or the kill timeout passed first.   *)
Terminate(d, quiet) ==
    /\ GroupExists(d) \/ quiet
    /\ evaluator' = [evaluator EXCEPT ![d] = IF @ = "none" \/ ~quiet THEN @ ELSE "gone"]

(* child.wait returned: clean up what the leader left, settle the outcome. *)
Reap(d) ==
    /\ wrapper[d] = "watching"
    /\ evaluator[d] \in {"residual", "gone"}
    /\ \E quiet \in BOOLEAN, status \in {"completed", "technical_eval_failed"} :
          /\ evaluator[d] = "residual" => status = "technical_eval_failed"
          /\ Terminate(d, quiet)
          /\ outcome' = [outcome EXCEPT ![d] = Ended(d, status, quiet)]
    /\ wrapper' = [wrapper EXCEPT ![d] = "final"]
    /\ UNCHANGED <<faults, driver, lock, aged, claim, attempt, report>>

(* An evaluator runs under a claim that is still as its driver wrote it.   *)
(* The fault "unannounced" is the loss of its wrapper, or of the first     *)
(* write, in that window.                                                  *)
Unannounced(d) == claim = DriverRecord(d, "claiming") /\ GroupExists(d)

MayLose(d) == Unannounced(d) => "unannounced" \in faults

(* _publish_both, or the two guarded writes of the failure path, where a    *)
(* write that raises is given up.                                           *)
RecordClaim(d) ==
    /\ \/ /\ wrapper[d] = "final"
          /\ claim' = outcome[d]
          /\ wrapper' = [wrapper EXCEPT ![d] = "recorded"]
       \/ /\ wrapper[d] = "failing"
          /\ claim' = outcome[d] \/ (MayLose(d) /\ claim' = claim)
          /\ wrapper' = [wrapper EXCEPT ![d] = "failed"]
    /\ UNCHANGED <<faults, driver, lock, outcome, evaluator, aged, attempt, report>>

RecordAttempt(d) ==
    /\ \/ wrapper[d] = "recorded" /\ attempt' = outcome[d]
       \/ wrapper[d] = "failed" /\ attempt' \in {outcome[d], attempt}
    /\ wrapper' = [wrapper EXCEPT ![d] = "gone"]
    /\ UNCHANGED <<faults, driver, lock, outcome, evaluator, aged, claim, report>>

(* The BaseException branch: SIGTERM, Popen or a state write that raises.   *)
(* "late_failure": also between the last two writes, after the claim was    *)
(* given up.                                                                *)
Fails(d) ==
    /\ \/ wrapper[d] \in {"starting", "spawned", "published", "watching", "beat", "final"}
       \/ wrapper[d] = "recorded" /\ "late_failure" \in faults
    /\ \E quiet \in BOOLEAN :
          /\ Terminate(d, quiet)
          /\ outcome' = [outcome EXCEPT ![d] = Ended(d, "technical_eval_failed", quiet)]
    /\ wrapper' = [wrapper EXCEPT ![d] = "failing"]
    /\ UNCHANGED <<faults, driver, lock, aged, claim, attempt, report>>

(* SIGKILL; the evaluator is in another session.                           *)
WrapperKilled(d) ==
    /\ WrapperAlive(d)
    /\ MayLose(d)
    /\ wrapper' = [wrapper EXCEPT ![d] = "gone"]
    /\ UNCHANGED <<faults, driver, lock, outcome, evaluator, aged, claim, attempt, report>>

(* The evaluator's leader exits, with or without its report, with or       *)
(* without descendants left in the group; those end later.                 *)
EvaluatorExits(d) ==
    /\ evaluator[d] = "live"
    /\ \E left \in {"residual", "gone"} : evaluator' = [evaluator EXCEPT ![d] = left]
    /\ report' \in {report, TRUE}
    /\ UNCHANGED <<faults, driver, lock, wrapper, outcome, aged, claim, attempt>>

ResidualEnds(d) ==
    /\ evaluator[d] = "residual"
    /\ evaluator' = [evaluator EXCEPT ![d] = "gone"]
    /\ UNCHANGED <<faults, driver, lock, wrapper, outcome, aged, claim, attempt, report>>

(* Thirty seconds since started_at_ns.  Without "slow_start" a launch that  *)
(* is still on its way publishes before that.                               *)
OnItsWay(d) ==
    \/ driver[d] \in {"acquire", "inspect", "reclaim", "claim", "attempt", "launch"}
    \/ WrapperAlive(d) /\ claim = DriverRecord(d, "claiming")

GracePasses(d) ==
    /\ driver[d] # "unborn"
    /\ d \notin aged
    /\ OnItsWay(d) => "slow_start" \in faults
    /\ aged' = aged \cup {d}
    /\ UNCHANGED <<faults, driver, lock, wrapper, outcome, evaluator, claim, attempt, report>>

-----------------------------------------------------------------------------
DriverStep(d) ==
    \/ Summarize(d)
    \/ TakeLock(d)
    \/ Inspect(d)
    \/ Reclaim(d)
    \/ WriteClaim(d)
    \/ WriteAttempt(d)
    \/ Launch(d)
    \/ LaunchFails(d)
    \/ Unclaim(d)

WrapperStep(d) ==
    \/ Spawn(d)
    \/ PublishClaim(d)
    \/ PublishAttempt(d)
    \/ Reap(d)
    \/ RecordClaim(d)
    \/ RecordAttempt(d)

Next ==
    \E d \in Driver :
        \/ DriverStep(d)
        \/ DriverExits(d)
        \/ WrapperStep(d)
        \/ Heartbeat(d)
        \/ Fails(d)
        \/ WrapperKilled(d)
        \/ EvaluatorExits(d)
        \/ ResidualEnds(d)
        \/ GracePasses(d)

Spec == Init /\ [][Next]_vars

(* Processes run and end, evaluators are bounded by their own timeouts, and *)
(* time passes.                                                             *)
FairSpec ==
    /\ Spec
    /\ \A d \in Driver : /\ WF_vars(DriverExits(d))
                         /\ WF_vars(WrapperStep(d))
                         /\ WF_vars(EvaluatorExits(d))
                         /\ WF_vars(ResidualEnds(d))
                         /\ WF_vars(GracePasses(d))

-----------------------------------------------------------------------------
Status == {"absent", "claiming", "launching", "failed_to_start", "started",
           "completed", "technical_eval_failed"}

File == [by : Driver \cup {None}, owner : {"nobody", "driver", "wrapper"},
         status : Status, group : Driver \cup {None}]

TypeOK ==
    /\ faults \in FaultSets
    /\ driver \in [Driver -> {"unborn", "acquire", "inspect", "reclaim", "claim", "attempt",
                              "launch", "unclaim", "others", "exited"}]
    /\ lock \in Driver \cup {None}
    /\ wrapper \in [Driver -> {"none", "starting", "spawned", "published", "watching", "beat",
                               "final", "recorded", "failing", "failed", "gone"}]
    /\ outcome \in [Driver -> File]
    /\ evaluator \in [Driver -> {"none", "live", "residual", "gone"}]
    /\ aged \subseteq Driver
    /\ claim \in File /\ attempt \in File
    /\ report \in BOOLEAN

(* Never two evaluators of one task in the same worktree ("Taking over here *)
(* can start a concurrent evaluator in the same worktree"), through every   *)
(* crash, takeover and stale summary but the three faults.                  *)
OneEvaluator == faults = {} => Cardinality({d \in Driver : GroupExists(d)}) <= 1

(* An evaluator that was announced stays named in the claim for as long as  *)
(* any process of it lives, whoever started it has died and however the     *)
(* cleanup went: it can be neither taken over nor lost, not by the unlink   *)
(* of a failed launch either.                                               *)
AnnouncedEvaluatorStaysClaimed ==
    [][\A d \in Driver : faults = {} /\ claim.group = d /\ evaluator'[d] \in {"live", "residual"}
          => claim'.group = d]_vars

(* A claim refuses newcomers only for a while: whatever died holding it,    *)
(* the grace, the wrapper and the evaluator group all end.                  *)
ClaimsAreReleased == Retained(claim) ~> ~Retained(claim)
=============================================================================

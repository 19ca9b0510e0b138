---------------------------- MODULE TaskResults ----------------------------
(***************************************************************************)
(* What one task of a parallel SWE run hands back to the controller        *)
(* (run_one and task_result_from_summary in swe_g11_task_execution.py) and *)
(* how the controller classifies it (_swe_g11_config.py,                   *)
(* swe_g11_technical_queue.py).  Pure operators: no state.                 *)
(*                                                                         *)
(* A result keeps only what some decision of the controller reads:         *)
(*   status     the runner status, "rejected" standing for any summary     *)
(*              that fails validation                                      *)
(*   quiesced   FALSE iff a row says generation.execution_quiesced = False *)
(*   scope      failure_scope                                              *)
(*   probe      failure_probe: none, or the outcome of a probe             *)
(*   candidate  none, proven (candidate_binding_from_result succeeds) or   *)
(*              unproven (non-empty candidate fields without a binding)    *)
(*   empty      empty_patch > 0                                            *)
(***************************************************************************)
LOCAL INSTANCE Naturals

Terminal == {"done", "done_with_technical_failures"}

NoReport == {"missing_report", "orchestrator_exception"}

Status == Terminal \cup NoReport \cup {"preflight_failed", "rejected"}

Scope == {"none", "task", "image", "shared_infrastructure"}

Probe == {"none", "passed", "failed", "setup_error"}

Candidate == {"none", "proven", "unproven"}

Result == [status : Status, quiesced : BOOLEAN, scope : Scope,
           probe : Probe, candidate : Candidate, empty : BOOLEAN]

(* Every validation reason, and a missing report, makes completed False.   *)
Completed(r) == r.status \in Terminal \cup {"preflight_failed"}

(* technical_failed > 0: everything but a validated "done".                *)
Technical(r) == r.status # "done"

(* What run_one can return before any probe.  A summary has a scope only   *)
(* for generation rows ("image" or "task"); a preflight failure, a missing *)
(* report and a controller exception carry no rows, hence no candidate.    *)
RunOneResult ==
    {r \in Result :
        /\ r.probe = "none"
        /\ r.scope \in {"none", "task", "image"}
        /\ r.status = "done" => r.scope = "none" /\ r.quiesced /\ r.candidate = "none"
        /\ r.status # "done" => r.scope # "none" /\ ~r.empty
        /\ r.status \in NoReport \cup {"preflight_failed"} =>
              r.scope = "task" /\ r.quiesced /\ r.candidate = "none"
        /\ r.candidate = "proven" => r.quiesced}

(* RETRYABLE_TASK_REPORT_STATUSES *)
Retryable(r) == r.status = "preflight_failed"

(* The result _run_parallel builds when the worker thread raised.          *)
OrchestratorException ==
    [status |-> "orchestrator_exception", quiesced |-> TRUE, scope |-> "task",
     probe |-> "none", candidate |-> "none", empty |-> FALSE]

(***************************************************************************)
(* A fresh probe after a result that is technical, incomplete or empty     *)
(* (confirm_shared_runtime_after_task_failure) or, for an evaluation-only  *)
(* recovery, technical or incomplete                                       *)
(* (confirm_eval_only_runtime_after_failure).  A failed probe overwrites   *)
(* the scope; any other outcome only fills in a missing one.               *)
(***************************************************************************)
NeedsProbe(r, evalOnly) ==
    \/ ~Completed(r)
    \/ Technical(r)
    \/ ~evalOnly /\ r.empty

AfterProbe(r, outcome) ==
    [r EXCEPT !.probe = outcome,
              !.scope = IF outcome = "failed" THEN "shared_infrastructure" ELSE @]

(* The direct evidence a batch-wide stop is supposed to rest on.           *)
SharedOutage(r) == r.scope = "shared_infrastructure" /\ r.probe = "failed"

(* result_resource_reasons, which systemic_failure_reasons returns as is.  *)
ResourceReasons(r) ==
    IF r.status = "missing_report" THEN {"task_report_missing"}
    ELSE IF r.status = "orchestrator_exception" THEN {"task_controller_failed"}
    ELSE IF ~r.quiesced THEN {"generation_execution_not_quiesced"}
    ELSE IF SharedOutage(r) THEN {"shared_infrastructure_probe_failed"}
    ELSE {}

(* Mutant: a task with a verdict is not kept out of the recovery.          *)
BlockReasonNoVerdict(r) ==
    IF SharedOutage(r) THEN "shared_infrastructure"
    ELSE IF r.scope = "image" THEN "image_scope"
    ELSE IF r.candidate = "unproven" THEN "candidate_identity_unproven"
    ELSE ""

(* recovery_block_reason; "" when a recovery may be planned.               *)
BlockReason(r) ==
    IF ~Technical(r) THEN "not_technical"
    ELSE IF SharedOutage(r) THEN "shared_infrastructure"
    ELSE IF r.scope = "image" THEN "image_scope"
    ELSE IF r.candidate = "unproven" THEN "candidate_identity_unproven"
    ELSE ""

(* report_is_reusable: a validated terminal summary; a technical one only  *)
(* when recoveries are configured.                                         *)
Reusable(r, allowTechnical) ==
    \/ r.status = "done"
    \/ allowTechnical /\ r.status = "done_with_technical_failures"
=============================================================================

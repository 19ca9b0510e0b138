---------------------------- MODULE MCEvalClaims ----------------------------
(* Small instances of EvalClaims for TLC.                                  *)
EXTENDS EvalClaims

CONSTANTS d1, d2

(* No fault, for the safety of the claim, and all of them at once.         *)
MCFaultSets == {{}, {"slow_start", "unannounced", "late_failure"}}
=============================================================================

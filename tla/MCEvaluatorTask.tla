--------------------------- MODULE MCEvaluatorTask ---------------------------
(* Small instances of EvaluatorTask for TLC.                               *)
EXTENDS EvaluatorTask

MCEverything == {{"tests", "checkpoint", "workflow"}, {"workflow", "deferred"}}
MCCheckpointOnly == {{"checkpoint"}}
=============================================================================

-------------------------- MODULE MCParallelRunner --------------------------
(* Small instances of ParallelRunner for TLC.                              *)
EXTENDS ParallelRunner

Out(status, quiesced, scope, candidate, empty) ==
    [status |-> status, quiesced |-> quiesced, scope |-> scope,
     probe |-> "none", candidate |-> candidate, empty |-> empty]

(* One result of each class the main loop tells apart.                     *)
MCOutcomes ==
    {Out("done", TRUE, "none", "none", FALSE),
     Out("done", TRUE, "none", "none", TRUE),
     Out("done_with_technical_failures", FALSE, "task", "none", FALSE),
     Out("preflight_failed", TRUE, "task", "none", FALSE),
     Out("rejected", TRUE, "task", "none", FALSE),
     Out("missing_report", TRUE, "task", "none", FALSE),
     OrchestratorException}

(* Fewer classes, for the runs that only need clean and failing tasks.     *)
MCTwoOutcomes ==
    {Out("done", TRUE, "none", "none", FALSE),
     Out("done", TRUE, "none", "none", TRUE),
     Out("missing_report", TRUE, "task", "none", FALSE)}

MCIndex3 == 1..3
MCIndex4 == 1..4
=============================================================================

------------------------ MODULE MCTechnicalRecovery ------------------------
(* Small instances of TechnicalRecovery for TLC.                           *)
EXTENDS TechnicalRecovery

Out(status, quiesced, scope, candidate, empty) ==
    [status |-> status, quiesced |-> quiesced, scope |-> scope,
     probe |-> "none", candidate |-> candidate, empty |-> empty]

(* One clean, one recoverable and one fatal class, the last leaving a       *)
(* report behind that the controller does not accept.                      *)
MCOutcomes ==
    {Out("done", TRUE, "none", "none", FALSE),
     Out("done_with_technical_failures", TRUE, "task", "proven", FALSE),
     Out("rejected", TRUE, "task", "none", FALSE)}

MCIndex2 == 1..2
=============================================================================

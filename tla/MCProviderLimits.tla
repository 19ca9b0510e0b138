-------------------------- MODULE MCProviderLimits --------------------------
(* Small instances of ProviderLimits for TLC.                              *)
EXTENDS ProviderLimits, TLC

CONSTANTS r1, r2, p1, p2

Allow(n, reserve) == [valid |-> TRUE, enabled |-> TRUE, limit |-> n, reserve |-> reserve]

MCOwner == r1 :> p1 @@ r2 :> p2

(* Every slot, one of two slots reserved or withheld, disabled, malformed. *)
MCPolicies ==
    {Allow(2, 0), Allow(2, 1), Allow(1, 0),
     [Allow(1, 0) EXCEPT !.enabled = FALSE],
     [Allow(1, 0) EXCEPT !.valid = FALSE]}
=============================================================================

-------------------------- MODULE MCPendingOutput --------------------------
(* Small instances of PendingOutput for TLC.                               *)
EXTENDS PendingOutput

CONSTANTS g1, g2
=============================================================================

-------------------------- MODULE MCTaskProcesses --------------------------
(* Small instances of TaskProcesses for TLC.                               *)
EXTENDS TaskProcesses

CONSTANTS w1, w2
=============================================================================

----------------------------- MODULE MCRemoteRun -----------------------------
(* Small instances of RemoteRun for TLC.                                   *)
EXTENDS RemoteRun

CONSTANTS c1, c2, c3

(* Two controllers of one claim and one with other settings. *)
MCClaim == [c \in Controller |-> IF c = c3 THEN "other" ELSE "task"]
=============================================================================

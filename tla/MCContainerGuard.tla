--------------------------- MODULE MCContainerGuard ---------------------------
(* Small instances of ContainerGuard for TLC.                              *)
EXTENDS ContainerGuard

CONSTANTS r1, r2, s1, p1
=============================================================================

---------------------------- MODULE MCPlatformRun ----------------------------
(* The instance of PlatformRun that TLC checks. *)
EXTENDS PlatformRun, TLC
=============================================================================

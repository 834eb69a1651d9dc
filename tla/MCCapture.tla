------------------------------ MODULE MCCapture ------------------------------
(***************************************************************************)
(* Instance of Capture for TLC.  The code has a heartbeat every 100 ticks  *)
(* and d2x a limit of 600; here they are 3 and 6, the least limit that the *)
(* assumption allows with main late by one tick.                           *)
(***************************************************************************)
EXTENDS Capture

\* exit(0), exit(1), exit(255), SIGABRT, SIGSEGV with a core.
MCStatuses == {0, 256, 65280, 6, 139}
=============================================================================

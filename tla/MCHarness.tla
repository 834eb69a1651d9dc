------------------------------ MODULE MCHarness ------------------------------
(***************************************************************************)
(* Instance of Harness for TLC: three library calls and two user handlers  *)
(* put a handler on either side of the hook and leave a call for each of   *)
(* main, the handler above and the handler below.                          *)
(***************************************************************************)
EXTENDS Harness

\* 0, the hook's own code and another failing one.
MCExitCodes == {0, 1, 3}
=============================================================================

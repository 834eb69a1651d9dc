----------------------------- MODULE MCFirstRun -----------------------------
(***************************************************************************)
(* Instance of FirstRun for TLC: the tools may go wrong in every way that  *)
(* the model knows, or not at all.                                         *)
(***************************************************************************)
EXTENDS FirstRun

MCFaults == AllFaults
=============================================================================

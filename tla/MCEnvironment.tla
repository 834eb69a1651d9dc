--------------------------- MODULE MCEnvironment ----------------------------
(***************************************************************************)
(* Instances of Environment for TLC: the terminal of the container, and a  *)
(* second one.                                                             *)
(***************************************************************************)
EXTENDS Environment

CONSTANTS creation, terminal

MCPreparers == {creation, terminal}
=============================================================================

-------------------------- MODULE MCUpdateUpstream --------------------------
(***************************************************************************)
(* Instances of UpdateUpstream for TLC: one exercise, and one file beside  *)
(* the scripts in tools/.                                                  *)
(***************************************************************************)
EXTENDS UpdateUpstream

CONSTANTS exercise, tool

MCFiles == {exercise, tool}
MCDirs  == {MCFiles, {tool}}
=============================================================================

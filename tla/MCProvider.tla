------------------------------ MODULE MCProvider ------------------------------
(***************************************************************************)
(* Instances of Provider for TLC.  In the course today no test's name      *)
(* contains another's; the comment of run_mcpp_test names a pair that does *)
(* (.../1 in .../10), and that is the shape of MCNeighbours.               *)
(***************************************************************************)
EXTENDS Provider

CONSTANTS one, ten    \* the tests .../1 and .../10

MCTests      == {one, ten}
MCApart      == [t \in MCTests |-> {t}]
MCNeighbours == [t \in MCTests |-> IF t = one THEN {one, ten} ELSE {ten}]
MCExitCodes  == {0, 3}
=============================================================================

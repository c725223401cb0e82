--------------------------- MODULE MCBaselineStore ---------------------------
(***************************************************************************)
(* BaselineStore for TLC: the server and a script on one file, and two     *)
(* configurations of the resource.                                         *)
(***************************************************************************)
EXTENDS BaselineStore, TLC

CONSTANTS server, script, c1, c2

TwoWorkers == {server, script}
MCConfigs  == {c1, c2}

\* Configurations are compared for equality only, and the processes run the same
\* code.
Symmetric == Permutations(MCConfigs) \cup Permutations(TwoWorkers)
=============================================================================

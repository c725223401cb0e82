------------------------- MODULE MCRemediationHandler -------------------------
(* All lists of up to three actions: each of the ways to break off stands   *)
(* before, between and after actions that took place.                       *)
EXTENDS RemediationHandler

=============================================================================

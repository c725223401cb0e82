----------------------------- MODULE MCHITLRouter -----------------------------
(* Values of HITLRouter's constants for TLC. *)
EXTENDS HITLRouter

CONSTANTS w1, w2, r1, r2, bdp

\* Two processes of one deployment and two requests of its agent.
MCWorkers == {w1, w2}
MCRequests == {r1, r2}
MCAgents == {bdp}

MCSameScope == [w \in MCWorkers |-> bdp]
MCSameAgent == [r \in MCRequests |-> bdp]

=============================================================================

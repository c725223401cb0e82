------------------------------ MODULE MCChatAgent ------------------------------
(* Values of ChatAgent's constants for TLC. *)
EXTENDS ChatAgent

CONSTANTS t1, t2

MCTwoTurns == {t1, t2}

=============================================================================

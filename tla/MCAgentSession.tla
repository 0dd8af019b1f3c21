--------------------------- MODULE MCAgentSession ---------------------------
(* A session and its runtime with two runs and two callers that start them. *)
EXTENDS AgentSession, TLC

CONSTANTS s1, s2

MCStarters == {s1, s2}

=============================================================================

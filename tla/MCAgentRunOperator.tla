------------------------- MODULE MCAgentRunOperator -------------------------
(***************************************************************************)
(* Instances of AgentRunOperator for TLC: every AgentRun is submitted with *)
(* the same idempotency key.                                               *)
(***************************************************************************)
EXTENDS AgentRunOperator

MCKey == [c \in AgentRuns |-> CHOOSE k \in Keys : TRUE]

=============================================================================

--------------------------- MODULE MCAgentRuntime ---------------------------
(* Small instances of AgentRuntime for TLC.                                *)
EXTENDS AgentRuntime

MCTwoRuns == <<0, 0>>
MCOneRun == <<2>>
=============================================================================

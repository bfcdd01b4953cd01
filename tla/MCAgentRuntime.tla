--------------------------- MODULE MCAgentRuntime ---------------------------
(* One agent of one server; the constants are in MCAgentRuntime.cfg.       *)
EXTENDS AgentRuntime
=============================================================================

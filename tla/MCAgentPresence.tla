--------------------------- MODULE MCAgentPresence ---------------------------
(* Instances of AgentPresence for TLC. *)
EXTENDS AgentPresence
=============================================================================

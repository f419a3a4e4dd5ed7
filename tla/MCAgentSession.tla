--------------------------- MODULE MCAgentSession ---------------------------
(* Small instances of AgentSession with the scripts of the source.         *)
EXTENDS AgentScripts, AgentSession

TwoArtifacts == <<8, 1>>
=============================================================================
